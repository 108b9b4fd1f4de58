--------------------------- MODULE BlockingProofs ---------------------------
(* The users of the blocking interface: the Python shell loses no answer and *)
(* its waits keep their word, and dcpsend sends what it was asked to, for    *)
(* every number of messages, devices, commands and connections, every input  *)
(* and all destinations.                                                     *)
EXTENDS PythonShell, DcpSend, FiniteSetTheorems, SequenceTheorems, WellFoundedInduction, TLAPS

-----------------------------------------------------------------------------
(* Sequences put together and divided.                                       *)

\* Two sequences, one behind the other.
LEMMA Joined ==
    ASSUME NEW S, NEW s \in Seq(S), NEW t \in Seq(S), NEW all, all = s \o t
    PROVE  /\ all \in Seq(S) /\ Len(all) = Len(s) + Len(t)
           /\ \A i \in 1 .. Len(s) : all[i] = s[i]
           /\ \A i \in 1 .. Len(t) : all[Len(s) + i] = t[i]
OBVIOUS

\* The first n elements, and those behind them.
LEMMA Divided ==
    ASSUME NEW S, NEW s \in Seq(S), NEW n \in 0 .. Len(s),
           NEW first, first = SubSeq(s, 1, n), NEW rest, rest = SubSeq(s, n + 1, Len(s))
    PROVE  /\ first \in Seq(S) /\ Len(first) = n
           /\ \A i \in 1 .. n : first[i] = s[i]
           /\ rest \in Seq(S) /\ Len(rest) = Len(s) - n
           /\ \A i \in 1 .. Len(rest) : rest[i] = s[n + i]
<1>1. PICK l \in Nat : l = Len(s)
    OBVIOUS
<1>2. PICK m \in Nat : m = n + 1
    OBVIOUS
<1>3. n \in Nat /\ n <= l /\ 1 \in Int /\ n \in Int /\ m \in Int /\ l \in Int
    BY <1>1, <1>2
<1>4. (\A i \in 1 .. n : s[i] \in S) /\ (\A i \in m .. l : s[i] \in S)
    BY <1>1, <1>2, <1>3
<1>5. /\ SubSeq(s, 1, n) \in Seq(S)
      /\ Len(SubSeq(s, 1, n)) = IF 1 <= n THEN n - 1 + 1 ELSE 0
      /\ \A i \in 1 .. n - 1 + 1 : SubSeq(s, 1, n)[i] = s[1 + i - 1]
    BY <1>3, <1>4, SubSeqProperties
<1>6. /\ SubSeq(s, m, l) \in Seq(S)
      /\ Len(SubSeq(s, m, l)) = IF m <= l THEN l - m + 1 ELSE 0
      /\ \A i \in 1 .. l - m + 1 : SubSeq(s, m, l)[i] = s[m + i - 1]
    BY <1>3, <1>4, SubSeqProperties
<1>7. /\ first \in Seq(S)
      /\ Len(first) = IF 1 <= n THEN n - 1 + 1 ELSE 0
      /\ \A i \in 1 .. n - 1 + 1 : first[i] = s[1 + i - 1]
    BY <1>5, Zenon
<1>8. rest = SubSeq(s, m, l)
    BY <1>1, <1>2, Zenon
<1>9. /\ rest \in Seq(S)
      /\ Len(rest) = IF m <= l THEN l - m + 1 ELSE 0
      /\ \A i \in 1 .. l - m + 1 : rest[i] = s[m + i - 1]
    BY <1>6, <1>8, Zenon
<1>10. Len(first) = n /\ \A i \in 1 .. n : first[i] = s[i]
    BY <1>3, <1>7
<1>11. Len(rest) = Len(s) - n /\ \A i \in 1 .. Len(rest) : rest[i] = s[n + i]
    BY <1>1, <1>2, <1>3, <1>9
<1> QED BY <1>7, <1>9, <1>10, <1>11, Zenon

-----------------------------------------------------------------------------
(* The invariant of the shell.                                               *)

AnswerForms == {"ack0", "ack1", "reply", "unread"}
Messages ==
    {m \in [isReply : BOOLEAN, snr : Nat, source : Peers, form : AnswerForms \cup {"command"}] :
         ~m.isReply => m.form \in {"command", "unread"}}
Entry ==
    [key : BOOLEAN \X Nat \X Peers, ack : Messages \cup {Nothing}, reply : Messages \cup {Nothing}]

\* What the client will read, or has read and not yet handed out.
Stream == clientQueue \o socket

\* The entries of _inQueue are filed under their keys, one under each.
Filed(queue) ==
    /\ queue \in Seq(Entry)
    /\ \A i \in 1 .. Len(queue) :
           /\ queue[i].ack # Nothing => IsAck(queue[i].ack) /\ Key(queue[i].ack) = queue[i].key
           /\ queue[i].reply # Nothing => ~IsAck(queue[i].reply) /\ Key(queue[i].reply) = queue[i].key
    /\ \A i, j \in 1 .. Len(queue) : queue[i].key = queue[j].key => i = j

\* A message is in an entry.
Holds(entry, m) == m # Nothing /\ (entry.ack = m \/ entry.reply = m)

ShellTypes ==
    /\ dest \in Seq(Peers) /\ stage \in Seq({"none", "ack", "all"}) /\ Len(stage) = Len(dest)
    /\ clientQueue \in Seq(Messages) /\ socket \in Seq(Messages)
    /\ Filed(inQueue)
    /\ control \in {"prompt", "listen", "parse"}
    /\ asked \subseteq 1 .. Len(dest)
    /\ given \subseteq Messages

(* A device answers a message with an ACK of zero at most once and finally at *)
(* most once.                                                                 *)
Answers ==
    /\ \A m \in made :
           /\ m \in Messages /\ m.isReply /\ m.form \in AnswerForms
           /\ m.snr \in 1 .. Len(dest) /\ m.source = dest[m.snr]
           /\ stage[m.snr] # "none"
           /\ stage[m.snr] = "ack" => m.form = "ack0"
    /\ \A m, n \in made :
           m.snr = n.snr /\ (IsAck(m) = IsAck(n) \/ Final(m) = Final(n)) => m = n
    /\ gone \subseteq made

(* Where answers are: each in one place of the stream, in the shell or with   *)
(* the program, and the ACK of zero ahead of the final answer.                *)
OnePlace(stream, held, ret, all, lost) ==
    /\ \A i \in 1 .. Len(stream) :
           stream[i].isReply =>
               /\ stream[i] \in all \ lost /\ stream[i] \notin held /\ stream[i] \notin ret
               /\ \A j \in 1 .. Len(stream) : stream[i] = stream[j] => i = j
    /\ \A m \in held \cup ret : m.isReply => m \in all \ lost
    /\ \A m \in held : m.isReply => m \notin ret
    /\ \A m \in ret : m.isReply => Final(m)

AckFirst(stream, held, ret, all) ==
    \A a, f \in all :
        a.snr = f.snr /\ ~Final(a) /\ Final(f) =>
            /\ \A i \in 1 .. Len(stream) :
                   stream[i] = a =>
                       /\ f \notin held /\ f \notin ret
                       /\ \A j \in 1 .. Len(stream) : stream[j] = f => i < j
            /\ a \in held => f \notin ret

SomePlace(stream, held, ret, all, lost) ==
    \A m \in all \ lost :
        \/ \E i \in 1 .. Len(stream) : stream[i] = m
        \/ m \in held \/ m \in ret
        \/ ~Final(m) /\ \E r \in ret : r.isReply /\ r.snr = m.snr

Placed(stream, held, ret, all, lost) ==
    /\ OnePlace(stream, held, ret, all, lost)
    /\ AckFirst(stream, held, ret, all)
    /\ SomePlace(stream, held, ret, all, lost)

ShellInv == ShellTypes /\ Answers /\ Placed(Stream, Held, given, made, gone)

-----------------------------------------------------------------------------
(* Entries                                                                   *)

\* Nothing stands for no message.
LEMMA NothingIsNone == \A m \in Messages : m # Nothing
<1>1. ASSUME NEW m \in Messages PROVE m.form # Nothing.form
    BY DEF Messages, AnswerForms, Nothing
<1> QED BY <1>1

\* A set of numbers has a least one, and Min is it.
LEMMA LeastOf ==
    ASSUME NEW S \in SUBSET Nat, S # {}
    PROVE  Min(S) \in S /\ \A i \in S : Min(S) <= i
<1>1. PICK least \in S : \A i \in S : ~ <<i, least>> \in OpToRel(<, Nat)
    BY NatLessThanWellFounded, WFMin, Zenon
<1>2. ASSUME NEW i \in S PROVE least <= i
    <2>1. ~(i < least)
        BY <1>1 DEF OpToRel
    <2> QED BY <2>1
<1> QED BY <1>2 DEF Min

\* Place finds the entry with a key.
LEMMA PlaceIs ==
    ASSUME NEW queue, queue \in Seq(Entry), NEW key
    PROVE  /\ Place(queue, key) \in 0 .. Len(queue)
           /\ Place(queue, key) = 0 => \A i \in 1 .. Len(queue) : queue[i].key # key
           /\ Place(queue, key) # 0 => queue[Place(queue, key)].key = key
<1> DEFINE found == {i \in 1 .. Len(queue) : queue[i].key = key}
<1>1. Place(queue, key) = IF found # {} THEN Min(found) ELSE 0
    BY DEF Place, SelectInSeq
<1>2. found \in SUBSET Nat /\ Len(queue) \in Nat
    OBVIOUS
<1>3. CASE found = {}
    BY <1>1, <1>2, <1>3
<1>4. CASE found # {}
    <2>1. Min(found) \in found
        BY <1>2, <1>4, LeastOf
    <2> QED BY <1>1, <1>2, <1>4, <2>1
<1> QED BY <1>3, <1>4

\* Filing a message for which there is room.
LEMMA PutHolds ==
    ASSUME NEW queue, Filed(queue), NEW m \in Messages,
           m.isReply => \A i \in 1 .. Len(queue) :
                            queue[i].key = Key(m) =>
                                (IF IsAck(m) THEN queue[i].ack ELSE queue[i].reply) = Nothing
    PROVE  /\ Filed(Put(queue, m))
           /\ \E i \in 1 .. Len(Put(queue, m)) : Holds(Put(queue, m)[i], m)
           /\ \A x : (\E i \in 1 .. Len(Put(queue, m)) : Holds(Put(queue, m)[i], x)) =>
                         x = m \/ \E i \in 1 .. Len(queue) : Holds(queue[i], x)
           /\ \A x : (\E i \in 1 .. Len(queue) : Holds(queue[i], x)) /\ x.isReply =>
                         \E i \in 1 .. Len(Put(queue, m)) : Holds(Put(queue, m)[i], x)
<1> DEFINE n == Place(queue, Key(m))
           old == IF n = 0 THEN NewEntry(m) ELSE queue[n]
           new == With(old, m)
<1>1. queue \in Seq(Entry) /\ Len(queue) \in Nat
    BY DEF Filed
<1>2. n \in 0 .. Len(queue) /\ Key(m) \in BOOLEAN \X Nat \X Peers
    BY <1>1, PlaceIs DEF Key, Messages
<1>3. /\ n = 0 => \A i \in 1 .. Len(queue) : queue[i].key # Key(m)
      /\ n # 0 => queue[n].key = Key(m)
    BY <1>1, PlaceIs
<1>4. /\ old \in Entry /\ old.key = Key(m)
      /\ old.ack # Nothing => IsAck(old.ack) /\ Key(old.ack) = old.key
      /\ old.reply # Nothing => ~IsAck(old.reply) /\ Key(old.reply) = old.key
      /\ m.isReply => (IF IsAck(m) THEN old.ack ELSE old.reply) = Nothing
    <2>1. CASE n = 0
        <3>1. NewEntry(m) = [key |-> Key(m), ack |-> Nothing, reply |-> Nothing]
            BY DEF NewEntry
        <3> QED BY <1>2, <2>1, <3>1 DEF Entry
    <2>2. CASE n # 0
        <3>1. n \in 1 .. Len(queue) /\ old = queue[n]
            BY <1>2, <2>2
        <3> QED BY <1>1, <1>3, <2>2, <3>1 DEF Filed
    <2> QED BY <2>1, <2>2
<1>5. /\ new \in Entry /\ new.key = Key(m)
      /\ new.ack # Nothing => IsAck(new.ack) /\ Key(new.ack) = new.key
      /\ new.reply # Nothing => ~IsAck(new.reply) /\ Key(new.reply) = new.key
      /\ new = IF IsAck(m) THEN [key |-> old.key, ack |-> m, reply |-> old.reply]
                           ELSE [key |-> old.key, ack |-> old.ack, reply |-> m]
    <2>1. new = IF IsAck(m) THEN [key |-> old.key, ack |-> m, reply |-> old.reply]
                            ELSE [key |-> old.key, ack |-> old.ack, reply |-> m]
        BY <1>4 DEF With, Entry
    <2> QED BY <1>2, <1>4, <2>1 DEF Entry
<1>6. Holds(new, m)
    BY <1>5, NothingIsNone DEF Holds
<1>7. ASSUME NEW x, Holds(new, x)
      PROVE  x = m \/ Holds(old, x)
    BY <1>5, <1>7 DEF Holds
<1>8. ASSUME NEW x, Holds(old, x), x.isReply
      PROVE  Holds(new, x)
    <2>1. m.isReply = x.isReply
        <3>1. Key(x) = Key(m)
            BY <1>4, <1>8 DEF Holds
        <3> QED BY <3>1 DEF Key
    <2> QED BY <1>4, <1>5, <1>8, <2>1 DEF Holds
<1>9. PICK filed : filed = Put(queue, m)
    OBVIOUS
<1>10. CASE n = 0
    <2>1. filed = Append(queue, new)
        BY <1>9, <1>10 DEF Put
    <2>2. /\ filed \in Seq(Entry) /\ Len(filed) = Len(queue) + 1
          /\ \A i \in 1 .. Len(queue) : filed[i] = queue[i]
          /\ filed[Len(queue) + 1] = new
        BY <1>1, <1>5, <2>1
    <2>3. ~ \E x : Holds(old, x)
        BY <1>10 DEF Holds, NewEntry
    <2>4. \A i \in 1 .. Len(filed) : i \in 1 .. Len(queue) \/ i = Len(queue) + 1
        BY <1>1, <2>2
    <2>5. Filed(filed)
        BY <1>3, <1>5, <1>10, <2>2, <2>4 DEF Filed
    <2>6. \A i \in 1 .. Len(queue) : i \in 1 .. Len(filed)
        BY <1>1, <2>2
    <2>7. Len(queue) + 1 \in 1 .. Len(filed)
        BY <1>1, <2>2
    <2> QED BY <1>6, <1>7, <1>9, <2>2, <2>3, <2>4, <2>5, <2>6, <2>7
<1>11. CASE n # 0
    <2>1. filed = [queue EXCEPT ![n] = new] /\ n \in 1 .. Len(queue) /\ old = queue[n]
        BY <1>2, <1>9, <1>11 DEF Put
    <2>2. /\ filed \in Seq(Entry) /\ Len(filed) = Len(queue)
          /\ \A i \in 1 .. Len(queue) : filed[i] = IF i = n THEN new ELSE queue[i]
        BY <1>1, <1>5, <2>1
    <2>3. Filed(filed)
        <3>1. \A i \in 1 .. Len(queue) : filed[i].key = queue[i].key
            BY <1>3, <1>5, <1>11, <2>2
        <3> QED BY <1>5, <2>2, <3>1 DEF Filed
    <2> QED BY <1>6, <1>7, <1>8, <1>9, <2>1, <2>2, <2>3
<1> QED BY <1>10, <1>11

-----------------------------------------------------------------------------
(* Taking entries out.                                                       *)

(* The elements of a finite set of numbers are counted by how many of them   *)
(* come first.                                                               *)
UpToIn(S, i) == {j \in S : j <= i}

LEMMA Counting ==
    ASSUME NEW S \in SUBSET Nat, IsFiniteSet(S), NEW i \in S
    PROVE  /\ Cardinality(UpToIn(S, i)) \in 1 .. Cardinality(S)
           /\ \A k \in S : Cardinality(UpToIn(S, i)) = Cardinality(UpToIn(S, k)) => i = k
<1>1. ASSUME NEW k \in S
      PROVE  /\ IsFiniteSet(UpToIn(S, k)) /\ Cardinality(UpToIn(S, k)) \in Nat
             /\ Cardinality(UpToIn(S, k)) <= Cardinality(S)
    <2>1. UpToIn(S, k) \subseteq S
        BY DEF UpToIn
    <2>2. IsFiniteSet(UpToIn(S, k)) /\ Cardinality(UpToIn(S, k)) <= Cardinality(S)
        BY <2>1, FS_Subset
    <2> QED BY <2>2, FS_CardinalityType
<1>2. Cardinality(UpToIn(S, i)) # 0
    <2>1. i \in UpToIn(S, i)
        BY DEF UpToIn
    <2> QED BY <1>1, <2>1, FS_EmptySet
<1>3. ASSUME NEW k \in S, NEW l \in S, k < l
      PROVE  Cardinality(UpToIn(S, k)) # Cardinality(UpToIn(S, l))
    <2>1. UpToIn(S, k) \subseteq UpToIn(S, l) /\ l \in UpToIn(S, l) /\ l \notin UpToIn(S, k)
        <3>1. \A j \in S : j \in Nat
            OBVIOUS
        <3>2. /\ \A j : j \in UpToIn(S, k) <=> j \in S /\ j <= k
              /\ \A j : j \in UpToIn(S, l) <=> j \in S /\ j <= l
            BY DEF UpToIn
        <3>3. k \in Nat /\ l \in Nat /\ l <= l /\ ~(l <= k)
            BY <1>3, <3>1
        <3>4. \A j \in S : j <= k => j <= l
            BY <1>3, <3>1, <3>3
        <3> QED BY <3>2, <3>3, <3>4
    <2>2. Cardinality(UpToIn(S, k)) = Cardinality(UpToIn(S, l)) => UpToIn(S, k) = UpToIn(S, l)
        BY <1>1, <2>1, FS_Subset
    <2> QED BY <2>1, <2>2
<1>4. ASSUME NEW k \in S, Cardinality(UpToIn(S, i)) = Cardinality(UpToIn(S, k))
      PROVE  i = k
    <2>1. ~(i < k) /\ ~(k < i)
        BY <1>3, <1>4, Zenon
    <2> QED BY <2>1
<1>5. Cardinality(S) \in Nat
    BY FS_CardinalityType
<1> QED BY <1>1, <1>2, <1>4, <1>5

\* Every number up to how many there are is taken by one of them.
LEMMA Numbering ==
    ASSUME NEW S \in SUBSET Nat, IsFiniteSet(S), NEW n \in 1 .. Cardinality(S)
    PROVE  \E i \in S : Cardinality(UpToIn(S, i)) = n
<1>1. PICK c \in Nat : c = Cardinality(S)
    BY FS_CardinalityType
<1>2. PICK f : f = [i \in S |-> Cardinality(UpToIn(S, i))]
    OBVIOUS
<1>3. f \in Injection(S, 1 .. c)
    BY <1>1, <1>2, Counting DEF Injection, IsInjective
<1>4. IsFiniteSet(1 .. c) /\ Cardinality(1 .. c) = c
    BY <1>1, FS_Interval
<1>5. f \in Surjection(S, 1 .. c)
    BY <1>1, <1>3, <1>4, FS_Injection
<1> QED BY <1>1, <1>2, <1>5 DEF Surjection

\* What stays in _inQueue when entries are taken out.
LEMMA WithoutHolds ==
    ASSUME NEW queue, Filed(queue), NEW places, places \subseteq 1 .. Len(queue)
    PROVE  /\ Filed(Without(queue, places))
           /\ \A x : (\E i \in 1 .. Len(Without(queue, places)) : Holds(Without(queue, places)[i], x))
                         <=> \E i \in 1 .. Len(queue) : i \notin places /\ Holds(queue[i], x)
<1> DEFINE rest == DOMAIN queue \ places
           Nth(n) == CHOOSE i \in rest : Cardinality(UpToIn(rest, i)) = n
           count == Cardinality(rest)
<1>1. queue \in Seq(Entry) /\ Len(queue) \in Nat /\ DOMAIN queue = 1 .. Len(queue)
    BY DEF Filed
<1>2. rest \in SUBSET Nat /\ IsFiniteSet(rest) /\ count \in Nat
    <2>1. IsFiniteSet(1 .. Len(queue))
        BY <1>1, FS_Interval
    <2> QED BY <1>1, <2>1, FS_Subset, FS_CardinalityType
<1>3. PICK left : left = Without(queue, places)
    OBVIOUS
<1>4. left = [n \in 1 .. count |-> queue[Nth(n)]]
    BY <1>3 DEF Without, UpToIn
<1>5. \A n \in 1 .. count : Nth(n) \in rest /\ Cardinality(UpToIn(rest, Nth(n))) = n
    <2> SUFFICES ASSUME NEW n \in 1 .. count
                 PROVE  Nth(n) \in rest /\ Cardinality(UpToIn(rest, Nth(n))) = n
        OBVIOUS
    <2>1. \E i \in rest : Cardinality(UpToIn(rest, i)) = n
        BY <1>2, Numbering
    <2> QED BY <2>1, Zenon
<1>6. \A i \in rest : \E n \in 1 .. count : Nth(n) = i
    <2> SUFFICES ASSUME NEW i \in rest PROVE \E n \in 1 .. count : Nth(n) = i
        OBVIOUS
    <2>1. PICK n \in 1 .. count : Cardinality(UpToIn(rest, i)) = n
        BY <1>2, Counting
    <2>2. Nth(n) \in rest /\ Cardinality(UpToIn(rest, Nth(n))) = n
        BY <1>5
    <2>3. Nth(n) = i
        BY <1>2, <2>1, <2>2, Counting
    <2> QED BY <2>3
<1> HIDE DEF Nth, count, rest
<1>7. /\ left \in Seq(Entry) /\ Len(left) = count
      /\ \A n \in 1 .. count : Nth(n) \in 1 .. Len(queue) /\ left[n] = queue[Nth(n)]
    <2>1. \A n \in 1 .. count : Nth(n) \in 1 .. Len(queue)
        BY <1>1, <1>5 DEF rest
    <2>2. \A n \in 1 .. count : queue[Nth(n)] \in Entry
        BY <1>1, <2>1
    <2> QED BY <1>2, <1>4, <2>1, <2>2
<1>8. ASSUME NEW i \in 1 .. count, NEW j \in 1 .. count, left[i].key = left[j].key
      PROVE  i = j
    <2>1. Nth(i) = Nth(j)
        BY <1>7, <1>8 DEF Filed
    <2> QED BY <1>5, <2>1
<1>9. Filed(left)
    BY <1>7, <1>8 DEF Filed
<1>10. ASSUME NEW x
       PROVE  (\E i \in 1 .. Len(left) : Holds(left[i], x))
                  <=> \E i \in 1 .. Len(queue) : i \notin places /\ Holds(queue[i], x)
    <2>1. ASSUME NEW i \in 1 .. Len(left), Holds(left[i], x)
          PROVE  \E k \in 1 .. Len(queue) : k \notin places /\ Holds(queue[k], x)
        <3>1. Nth(i) \in rest
            BY <1>5, <1>7
        <3> QED BY <1>7, <2>1, <3>1 DEF rest
    <2>2. ASSUME NEW k \in 1 .. Len(queue), k \notin places, Holds(queue[k], x)
          PROVE  \E i \in 1 .. Len(left) : Holds(left[i], x)
        <3>1. k \in rest
            BY <1>1, <2>2 DEF rest
        <3>2. PICK n \in 1 .. count : Nth(n) = k
            BY <1>6, <3>1
        <3> QED BY <1>7, <2>2, <3>2
    <2> QED BY <2>1, <2>2
<1> QED BY <1>3, <1>9, <1>10

-----------------------------------------------------------------------------
(* What _inQueue holds.                                                      *)

\* The messages of the entries.
LEMMA HeldInIs ==
    ASSUME NEW queue, Filed(queue), NEW held,
           held = (UNION {{e.ack, e.reply} : e \in ToSet(queue)}) \ {Nothing}
    PROVE  /\ \A m : m \in held <=> \E i \in 1 .. Len(queue) : Holds(queue[i], m)
           /\ held \subseteq Messages
<1>1. queue \in Seq(Entry) /\ ToSet(queue) = {queue[i] : i \in 1 .. Len(queue)}
    BY DEF Filed, ToSet
<1>2. \A m : m \in held <=> \E i \in 1 .. Len(queue) : Holds(queue[i], m)
    <2>1. \A m : m \in held <=> m # Nothing /\ \E e \in ToSet(queue) : m \in {e.ack, e.reply}
        <3>1. \A T, m : m \in (UNION {{e.ack, e.reply} : e \in T}) \ {Nothing}
                            <=> m # Nothing /\ \E e \in T : m \in {e.ack, e.reply}
            OBVIOUS
        <3> QED BY <3>1
    <2>2. \A e : e \in ToSet(queue) <=> \E i \in 1 .. Len(queue) : e = queue[i]
        BY <1>1
    <2> QED BY <2>1, <2>2 DEF Holds
<1>3. ASSUME NEW i \in 1 .. Len(queue), NEW m, Holds(queue[i], m)
      PROVE  m \in Messages
    <2>1. queue[i] \in Entry
        BY <1>1
    <2> QED BY <1>3, <2>1 DEF Entry, Holds
<1> QED BY <1>2, <1>3

\* What _inQueue holds now,
LEMMA HeldIs ==
    ASSUME Filed(inQueue)
    PROVE  /\ \A m : m \in Held <=> \E i \in 1 .. Len(inQueue) : Holds(inQueue[i], m)
           /\ Held \subseteq Messages
BY HeldInIs DEF Held

\* and after a step.
LEMMA HeldNextIs ==
    ASSUME Filed(inQueue')
    PROVE  \A m : m \in Held' <=> \E i \in 1 .. Len(inQueue') : Holds(inQueue'[i], m)
BY HeldInIs DEF Held

\* The answer an entry gives is one it holds, and final.
LEMMA AnswerIs ==
    ASSUME NEW queue, Filed(queue), NEW i \in 1 .. Len(queue), Complete(queue[i])
    PROVE  /\ Holds(queue[i], Answer(queue[i])) /\ Final(Answer(queue[i]))
           /\ Answer(queue[i]) \in Messages /\ Key(Answer(queue[i])) = queue[i].key
<1>1. queue[i] \in Entry
    BY DEF Filed
<1>2. CASE queue[i].reply # Nothing
    <2>1. Answer(queue[i]) = queue[i].reply
        BY <1>2 DEF Answer
    <2>2. queue[i].reply \in Messages /\ ~IsAck(queue[i].reply) /\ Key(queue[i].reply) = queue[i].key
        BY <1>1, <1>2 DEF Entry, Filed
    <2>3. ASSUME NEW m \in Messages, ~IsAck(m) PROVE Final(m)
        BY <2>3 DEF Messages, IsAck, Final
    <2> QED BY <1>2, <2>1, <2>2, <2>3 DEF Holds
<1>3. CASE queue[i].reply = Nothing
    <2>1. Answer(queue[i]) = queue[i].ack /\ queue[i].ack.form = "ack1"
        BY <1>3 DEF Answer, Complete
    <2>2. queue[i].ack # Nothing
        BY <2>1 DEF Nothing
    <2>3. queue[i].ack \in Messages /\ Key(queue[i].ack) = queue[i].key
        BY <1>1, <2>2 DEF Entry, Filed
    <2> QED BY <2>1, <2>2, <2>3 DEF Holds, Final
<1> QED BY <1>2, <1>3

-----------------------------------------------------------------------------
(* The places of answers.                                                    *)

\* A stream with one more message at its end.
Longer(stream, s, m) ==
    /\ Len(s) = Len(stream) + 1
    /\ \A i \in 1 .. Len(stream) : s[i] = stream[i]
    /\ s[Len(stream) + 1] = m

\* A stream without its first message.
Shorter(stream, s) ==
    /\ Len(s) + 1 = Len(stream)
    /\ \A i \in 1 .. Len(s) : s[i] = stream[i + 1]

\* A stream without its end: the answers there are lost.
EndLost(stream, s, lost, gone2) ==
    /\ Len(s) <= Len(stream)
    /\ \A i \in 1 .. Len(s) : s[i] = stream[i]
    /\ \A m : m \in gone2 <=> \/ m \in lost
                             \/ \E i \in 1 .. Len(stream) :
                                    Len(s) < i /\ stream[i] = m /\ m.isReply

\* A device answers: the first answer, or the final one after an ACK of zero.
LEMMA AnswerArrives ==
    ASSUME NEW stream \in Seq(Messages), NEW s \in Seq(Messages), NEW held, NEW ret, NEW all,
           NEW lost, lost \subseteq all, Placed(stream, held, ret, all, lost),
           NEW m, m.isReply, m \notin all, Longer(stream, s, m),
           \A a \in all : a.snr = m.snr => ~Final(a) /\ Final(m)
    PROVE  Placed(s, held, ret, all \cup {m}, lost)
<1>1. /\ Len(stream) \in Nat /\ Len(s) = Len(stream) + 1
      /\ \A i \in 1 .. Len(stream) : s[i] = stream[i] /\ i \in 1 .. Len(s)
      /\ s[Len(stream) + 1] = m
      /\ \A i \in 1 .. Len(s) : i \in 1 .. Len(stream) \/ i = Len(stream) + 1
      /\ Len(stream) + 1 \in 1 .. Len(s)
    BY DEF Longer
<1>2. /\ m \notin held /\ m \notin ret /\ m \notin lost
      /\ \A i \in 1 .. Len(stream) : stream[i] # m
    BY DEF Placed, OnePlace
<1>3. OnePlace(s, held, ret, all \cup {m}, lost)
    <2>1. ASSUME NEW i \in 1 .. Len(s), s[i].isReply
          PROVE  /\ s[i] \in (all \cup {m}) \ lost /\ s[i] \notin held /\ s[i] \notin ret
                 /\ \A j \in 1 .. Len(s) : s[i] = s[j] => i = j
        <3>1. CASE i \in 1 .. Len(stream)
            <4>1. /\ stream[i] \in all \ lost /\ stream[i] \notin held /\ stream[i] \notin ret
                  /\ \A j \in 1 .. Len(stream) : stream[i] = stream[j] => i = j
                BY <1>1, <2>1, <3>1 DEF Placed, OnePlace
            <4> QED BY <1>1, <1>2, <3>1, <4>1
        <3>2. CASE i = Len(stream) + 1
            BY <1>1, <1>2, <3>2
        <3> QED BY <1>1, <3>1, <3>2
    <2> QED BY <2>1 DEF Placed, OnePlace
<1>4. AckFirst(s, held, ret, all \cup {m})
    <2>1. ASSUME NEW a \in all \cup {m}, NEW f \in all \cup {m}, a.snr = f.snr, ~Final(a), Final(f)
          PROVE  /\ \A i \in 1 .. Len(s) :
                        s[i] = a => /\ f \notin held /\ f \notin ret
                                    /\ \A j \in 1 .. Len(s) : s[j] = f => i < j
                 /\ a \in held => f \notin ret
        <3>1. a \in all
            BY <2>1
        <3>2. CASE f \in all
            <4>1. /\ \A i \in 1 .. Len(stream) :
                         stream[i] = a => /\ f \notin held /\ f \notin ret
                                          /\ \A j \in 1 .. Len(stream) : stream[j] = f => i < j
                  /\ a \in held => f \notin ret
                BY <2>1, <3>1, <3>2 DEF Placed, AckFirst
            <4> QED BY <1>1, <3>1, <3>2, <4>1
        <3>3. CASE f = m
            <4>1. ASSUME NEW i \in 1 .. Len(s), s[i] = a, NEW j \in 1 .. Len(s), s[j] = m
                  PROVE  i < j
                <5>1. i \in 1 .. Len(stream) /\ j = Len(stream) + 1
                    BY <1>1, <1>2, <3>1, <4>1
                <5> QED BY <1>1, <5>1
            <4> QED BY <1>2, <3>3, <4>1
        <3> QED BY <3>2, <3>3
    <2> QED BY <2>1 DEF AckFirst
<1>5. SomePlace(s, held, ret, all \cup {m}, lost)
    <2>1. ASSUME NEW x \in (all \cup {m}) \ lost
          PROVE  \/ \E i \in 1 .. Len(s) : s[i] = x
                 \/ x \in held \/ x \in ret
                 \/ ~Final(x) /\ \E r \in ret : r.isReply /\ r.snr = x.snr
        <3>1. CASE x = m
            BY <1>1, <3>1
        <3>2. CASE x \in all
            <4>1. \/ \E i \in 1 .. Len(stream) : stream[i] = x
                  \/ x \in held \/ x \in ret
                  \/ ~Final(x) /\ \E r \in ret : r.isReply /\ r.snr = x.snr
                BY <2>1, <3>2 DEF Placed, SomePlace
            <4> QED BY <1>1, <4>1
        <3> QED BY <3>1, <3>2
    <2> QED BY <2>1 DEF SomePlace
<1> QED BY <1>3, <1>4, <1>5 DEF Placed

\* An answer that is lost at once.
LEMMA AnswerLost ==
    ASSUME NEW stream \in Seq(Messages), NEW held, NEW ret, NEW all,
           NEW lost, lost \subseteq all, Placed(stream, held, ret, all, lost),
           NEW m, m.isReply, m \notin all,
           \A a \in all : a.snr = m.snr => ~Final(a) /\ Final(m)
    PROVE  Placed(stream, held, ret, all \cup {m}, lost \cup {m})
<1>1. /\ m \notin held /\ m \notin ret
      /\ \A i \in 1 .. Len(stream) : stream[i] # m
    BY DEF Placed, OnePlace
<1>2. OnePlace(stream, held, ret, all \cup {m}, lost \cup {m})
    BY <1>1 DEF Placed, OnePlace
<1>3. AckFirst(stream, held, ret, all \cup {m})
    <2>1. ASSUME NEW a \in all \cup {m}, NEW f \in all \cup {m}, a.snr = f.snr, ~Final(a), Final(f)
          PROVE  a \in all /\ (f \in all \/ f = m)
        BY <2>1
    <2> QED BY <1>1, <2>1 DEF Placed, AckFirst
<1>4. SomePlace(stream, held, ret, all \cup {m}, lost \cup {m})
    BY DEF Placed, SomePlace
<1> QED BY <1>2, <1>3, <1>4 DEF Placed

\* A message that is no answer.
LEMMA OtherArrives ==
    ASSUME NEW stream \in Seq(Messages), NEW s \in Seq(Messages), NEW held, NEW ret, NEW all,
           NEW lost, Placed(stream, held, ret, all, lost), \A a \in all : a.isReply,
           NEW m, ~m.isReply, Longer(stream, s, m)
    PROVE  Placed(s, held, ret, all, lost)
<1>1. /\ Len(stream) \in Nat /\ Len(s) = Len(stream) + 1
      /\ \A i \in 1 .. Len(stream) : s[i] = stream[i] /\ i \in 1 .. Len(s)
      /\ s[Len(stream) + 1] = m
      /\ \A i \in 1 .. Len(s) : i \in 1 .. Len(stream) \/ i = Len(stream) + 1
    BY DEF Longer
<1>2. OnePlace(s, held, ret, all, lost)
    <2>1. ASSUME NEW i \in 1 .. Len(s), s[i].isReply
          PROVE  /\ s[i] \in all \ lost /\ s[i] \notin held /\ s[i] \notin ret
                 /\ \A j \in 1 .. Len(s) : s[i] = s[j] => i = j
        <3>1. i \in 1 .. Len(stream)
            BY <1>1, <2>1
        <3>2. /\ stream[i] \in all \ lost /\ stream[i] \notin held /\ stream[i] \notin ret
              /\ \A j \in 1 .. Len(stream) : stream[i] = stream[j] => i = j
            BY <1>1, <2>1, <3>1 DEF Placed, OnePlace
        <3> QED BY <1>1, <2>1, <3>1, <3>2
    <2> QED BY <2>1 DEF Placed, OnePlace
<1>3. AckFirst(s, held, ret, all)
    <2>1. ASSUME NEW a \in all, NEW f \in all, a.snr = f.snr, ~Final(a), Final(f)
          PROVE  /\ \A i \in 1 .. Len(s) :
                        s[i] = a => /\ f \notin held /\ f \notin ret
                                    /\ \A j \in 1 .. Len(s) : s[j] = f => i < j
                 /\ a \in held => f \notin ret
        <3>1. /\ \A i \in 1 .. Len(stream) :
                     stream[i] = a => /\ f \notin held /\ f \notin ret
                                      /\ \A j \in 1 .. Len(stream) : stream[j] = f => i < j
              /\ a \in held => f \notin ret
            BY <2>1 DEF Placed, AckFirst
        <3> QED BY <1>1, <3>1
    <2> QED BY <2>1 DEF AckFirst
<1>4. SomePlace(s, held, ret, all, lost)
    <2>1. ASSUME NEW x \in all \ lost
          PROVE  \/ \E i \in 1 .. Len(s) : s[i] = x
                 \/ x \in held \/ x \in ret
                 \/ ~Final(x) /\ \E r \in ret : r.isReply /\ r.snr = x.snr
        <3>1. \/ \E i \in 1 .. Len(stream) : stream[i] = x
              \/ x \in held \/ x \in ret
              \/ ~Final(x) /\ \E r \in ret : r.isReply /\ r.snr = x.snr
            BY <2>1 DEF Placed, SomePlace
        <3> QED BY <1>1, <3>1
    <2> QED BY <2>1 DEF SomePlace
<1> QED BY <1>2, <1>3, <1>4 DEF Placed

\* The end of the stream is lost.
LEMMA EndIsLost ==
    ASSUME NEW stream \in Seq(Messages), NEW s \in Seq(Messages), NEW held, NEW ret, NEW all,
           NEW lost, Placed(stream, held, ret, all, lost), \A a \in all : a.isReply,
           lost \subseteq all, NEW gone2, EndLost(stream, s, lost, gone2)
    PROVE  Placed(s, held, ret, all, gone2) /\ gone2 \subseteq all
<1> USE DEF EndLost
<1>1. Len(stream) \in Nat /\ Len(s) \in Nat /\ \A i \in 1 .. Len(s) : i \in 1 .. Len(stream)
    OBVIOUS
<1>2. OnePlace(s, held, ret, all, gone2)
    <2>1. ASSUME NEW i \in 1 .. Len(s), s[i].isReply
          PROVE  /\ s[i] \in all \ gone2 /\ s[i] \notin held /\ s[i] \notin ret
                 /\ \A j \in 1 .. Len(s) : s[i] = s[j] => i = j
        <3>1. /\ stream[i] \in all \ lost /\ stream[i] \notin held /\ stream[i] \notin ret
              /\ \A j \in 1 .. Len(stream) : stream[i] = stream[j] => i = j
            BY <1>1, <2>1 DEF Placed, OnePlace
        <3>2. ~ \E j \in 1 .. Len(stream) : Len(s) < j /\ stream[j] = stream[i]
            BY <1>1, <3>1
        <3> QED BY <1>1, <3>1, <3>2
    <2>2. ASSUME NEW m \in held \cup ret, m.isReply
          PROVE  m \in all \ gone2
        <3>1. m \in all \ lost /\ ~ \E i \in 1 .. Len(stream) : stream[i] = m
            BY <2>2 DEF Placed, OnePlace
        <3> QED BY <3>1
    <2> QED BY <2>1, <2>2 DEF Placed, OnePlace
<1>3. AckFirst(s, held, ret, all)
    BY <1>1 DEF Placed, AckFirst
<1>4. SomePlace(s, held, ret, all, gone2)
    <2>1. ASSUME NEW x \in all \ gone2, x.isReply
          PROVE  \/ \E i \in 1 .. Len(s) : s[i] = x
                 \/ x \in held \/ x \in ret
                 \/ ~Final(x) /\ \E r \in ret : r.isReply /\ r.snr = x.snr
        <3>1. \/ \E i \in 1 .. Len(stream) : stream[i] = x
              \/ x \in held \/ x \in ret
              \/ ~Final(x) /\ \E r \in ret : r.isReply /\ r.snr = x.snr
            BY <2>1 DEF Placed, SomePlace
        <3>2. \A i \in 1 .. Len(stream) : stream[i] = x => i \in 1 .. Len(s)
            BY <1>1, <2>1
        <3> QED BY <1>1, <3>1, <3>2
    <2> QED BY <2>1 DEF SomePlace
<1>5. lost \subseteq all => gone2 \subseteq all
    BY DEF Placed, OnePlace
<1> QED BY <1>2, <1>3, <1>4, <1>5 DEF Placed

\* The first message is taken and, if it is an answer, filed.
LEMMA HeadIsTaken ==
    ASSUME NEW stream \in Seq(Messages), NEW s \in Seq(Messages), NEW held, NEW ret, NEW all,
           NEW lost, Placed(stream, held, ret, all, lost), \A a \in all : a.isReply,
           stream # <<>>, Shorter(stream, s), NEW held2,
           stream[1].isReply => stream[1] \in held2,
           \A x \in held2 : x = stream[1] \/ x \in held,
           \A x \in held : x.isReply => x \in held2
    PROVE  Placed(s, held2, ret, all, lost)
<1>1. /\ Len(stream) \in Nat /\ Len(s) \in Nat /\ 1 \in 1 .. Len(stream)
      /\ \A i \in 1 .. Len(s) : i + 1 \in 1 .. Len(stream) /\ s[i] = stream[i + 1]
      /\ \A i \in 1 .. Len(stream) : i = 1 \/ (i - 1 \in 1 .. Len(s) /\ s[i - 1] = stream[i])
    BY DEF Shorter
<1>2. stream[1].isReply =>
          /\ stream[1] \in all \ lost /\ stream[1] \notin held /\ stream[1] \notin ret
          /\ \A j \in 1 .. Len(stream) : stream[1] = stream[j] => 1 = j
    BY <1>1 DEF Placed, OnePlace
<1>3. OnePlace(s, held2, ret, all, lost)
    <2>1. ASSUME NEW i \in 1 .. Len(s), s[i].isReply
          PROVE  /\ s[i] \in all \ lost /\ s[i] \notin held2 /\ s[i] \notin ret
                 /\ \A j \in 1 .. Len(s) : s[i] = s[j] => i = j
        <3>1. i + 1 \in 1 .. Len(stream) /\ stream[i + 1] = s[i]
            BY <1>1
        <3>2. /\ stream[i + 1] \in all \ lost /\ stream[i + 1] \notin held /\ stream[i + 1] \notin ret
              /\ \A j \in 1 .. Len(stream) : stream[i + 1] = stream[j] => i + 1 = j
            BY <2>1, <3>1 DEF Placed, OnePlace
        <3>3. s[i] # stream[1]
            BY <1>1, <3>1, <3>2
        <3>4. ASSUME NEW j \in 1 .. Len(s), s[i] = s[j]
              PROVE  i = j
            <4>1. i + 1 = j + 1
                BY <1>1, <3>1, <3>2, <3>4
            <4> QED BY <4>1
        <3> QED BY <3>1, <3>2, <3>3, <3>4
    <2>2. ASSUME NEW m \in held2 \cup ret, m.isReply
          PROVE  m \in all \ lost
        BY <1>2, <2>2 DEF Placed, OnePlace
    <2>3. \A m \in held2 : m.isReply => m \notin ret
        BY <1>2 DEF Placed, OnePlace
    <2> QED BY <2>1, <2>2, <2>3 DEF Placed, OnePlace
<1>4. AckFirst(s, held2, ret, all)
    <2>1. ASSUME NEW a \in all, NEW f \in all, a.snr = f.snr, ~Final(a), Final(f)
          PROVE  /\ \A i \in 1 .. Len(s) :
                        s[i] = a => /\ f \notin held2 /\ f \notin ret
                                    /\ \A j \in 1 .. Len(s) : s[j] = f => i < j
                 /\ a \in held2 => f \notin ret
        <3>1. /\ \A i \in 1 .. Len(stream) :
                     stream[i] = a => /\ f \notin held /\ f \notin ret
                                      /\ \A j \in 1 .. Len(stream) : stream[j] = f => i < j
              /\ a \in held => f \notin ret
            BY <2>1 DEF Placed, AckFirst
        <3>2. ASSUME NEW i \in 1 .. Len(s), s[i] = a
              PROVE  /\ f \notin held2 /\ f \notin ret
                     /\ \A j \in 1 .. Len(s) : s[j] = f => i < j
            <4>1. /\ i + 1 \in 1 .. Len(stream) /\ f \notin held /\ f \notin ret
                  /\ \A j \in 1 .. Len(stream) : stream[j] = f => i + 1 < j
                BY <1>1, <3>1, <3>2
            <4>2. f # stream[1]
                BY <1>1, <4>1
            <4>3. ASSUME NEW j \in 1 .. Len(s), s[j] = f PROVE i < j
                <5>1. i + 1 < j + 1
                    BY <1>1, <4>1, <4>3
                <5> QED BY <5>1
            <4> QED BY <4>1, <4>2, <4>3
        <3>3. a \in held2 => f \notin ret
            BY <1>1, <3>1
        <3> QED BY <3>2, <3>3
    <2> QED BY <2>1 DEF AckFirst
<1>5. SomePlace(s, held2, ret, all, lost)
    <2>1. ASSUME NEW x \in all \ lost
          PROVE  \/ \E i \in 1 .. Len(s) : s[i] = x
                 \/ x \in held2 \/ x \in ret
                 \/ ~Final(x) /\ \E r \in ret : r.isReply /\ r.snr = x.snr
        <3>1. \/ \E i \in 1 .. Len(stream) : stream[i] = x
              \/ x \in held \/ x \in ret
              \/ ~Final(x) /\ \E r \in ret : r.isReply /\ r.snr = x.snr
            BY <2>1 DEF Placed, SomePlace
        <3>2. x.isReply
            OBVIOUS
        <3> QED BY <1>1, <3>1, <3>2
    <2> QED BY <2>1 DEF SomePlace
<1> QED BY <1>3, <1>4, <1>5 DEF Placed

\* Answers go from the shell to the program.
LEMMA AnswersAreReturned ==
    ASSUME NEW stream \in Seq(Messages), NEW held, NEW ret, NEW all,
           NEW lost, Placed(stream, held, ret, all, lost), \A a \in all : a.isReply,
           NEW held2, NEW ret2, held2 \subseteq held, ret \subseteq ret2,
           \A x \in ret2 \ ret : x \in held /\ x \notin held2 /\ Final(x),
           \A x \in held \ held2 :
               x.isReply => x \in ret2 \/ (~Final(x) /\ \E r \in ret2 : r.isReply /\ r.snr = x.snr),
           \A x \in ret2 \ ret, a \in held2 : x \in all /\ a \in all => x.snr # a.snr
    PROVE  Placed(stream, held2, ret2, all, lost)
<1>1. OnePlace(stream, held2, ret2, all, lost)
    <2>1. \A x \in ret2 : x \in ret \/ (x \in held /\ x \notin held2 /\ Final(x))
        OBVIOUS
    <2>2. \A m \in held2 : m.isReply => m \notin ret2
        BY <2>1 DEF Placed, OnePlace
    <2> QED BY <2>1, <2>2 DEF Placed, OnePlace
<1>2. AckFirst(stream, held2, ret2, all)
    <2>1. ASSUME NEW a \in all, NEW f \in all, a.snr = f.snr, ~Final(a), Final(f)
          PROVE  /\ \A i \in 1 .. Len(stream) :
                        stream[i] = a => /\ f \notin held2 /\ f \notin ret2
                                         /\ \A j \in 1 .. Len(stream) : stream[j] = f => i < j
                 /\ a \in held2 => f \notin ret2
        <3>1. /\ \A i \in 1 .. Len(stream) :
                     stream[i] = a => /\ f \notin held /\ f \notin ret
                                      /\ \A j \in 1 .. Len(stream) : stream[j] = f => i < j
              /\ a \in held => f \notin ret
            BY <2>1 DEF Placed, AckFirst
        <3>2. f \in ret2 => f \in ret \/ (f \in held /\ \A b \in held2 : b \in all => f.snr # b.snr)
            BY <2>1
        <3> QED BY <2>1, <3>1, <3>2
    <2> QED BY <2>1 DEF AckFirst
<1>3. SomePlace(stream, held2, ret2, all, lost)
    <2>1. ASSUME NEW x \in all \ lost
          PROVE  \/ \E i \in 1 .. Len(stream) : stream[i] = x
                 \/ x \in held2 \/ x \in ret2
                 \/ ~Final(x) /\ \E r \in ret2 : r.isReply /\ r.snr = x.snr
        <3>1. \/ \E i \in 1 .. Len(stream) : stream[i] = x
              \/ x \in held \/ x \in ret
              \/ ~Final(x) /\ \E r \in ret : r.isReply /\ r.snr = x.snr
            BY <2>1 DEF Placed, SomePlace
        <3>2. x.isReply
            OBVIOUS
        <3> QED BY <3>1, <3>2
    <2> QED BY <2>1 DEF SomePlace
<1> QED BY <1>1, <1>2, <1>3 DEF Placed

-----------------------------------------------------------------------------
(* Steps                                                                     *)

\* At first there are no messages.
LEMMA InitShell == ShellInit => ShellInv
<1> SUFFICES ASSUME ShellInit PROVE ShellInv
    OBVIOUS
<1>1. /\ dest = <<>> /\ stage = <<>> /\ socket = <<>> /\ clientQueue = <<>> /\ inQueue = <<>>
      /\ control = "prompt" /\ asked = {} /\ given = {} /\ made = {} /\ gone = {}
    BY DEF ShellInit
<1>2. Filed(inQueue)
    BY <1>1 DEF Filed
<1>3. ShellTypes
    BY <1>1, <1>2 DEF ShellTypes
<1>4. Answers
    BY <1>1 DEF Answers
<1>5. Stream = <<>> /\ Held = {}
    BY <1>1, <1>2, HeldIs DEF Stream
<1> QED BY <1>1, <1>3, <1>4, <1>5 DEF ShellInv, Placed, OnePlace, AckFirst, SomePlace

\* Stream and _inQueue are made of variables.
LEMMA StreamStays ==
    ASSUME UNCHANGED <<clientQueue, socket>> PROVE Stream' = Stream
BY DEF Stream

\* and Held of _inQueue.
LEMMA HeldStays == ASSUME UNCHANGED inQueue PROVE Held' = Held
BY DEF Held

\* The elements of the stream.
LEMMA StreamIs ==
    ASSUME clientQueue \in Seq(Messages), socket \in Seq(Messages)
    PROVE  /\ Stream \in Seq(Messages) /\ Len(Stream) = Len(clientQueue) + Len(socket)
           /\ \A i \in 1 .. Len(clientQueue) : Stream[i] = clientQueue[i]
           /\ \A i \in 1 .. Len(socket) : Stream[Len(clientQueue) + i] = socket[i]
BY DEF Stream

\* Answers does not depend on the client and the shell.
LEMMA AnswersStay == ASSUME Answers, UNCHANGED <<dest, stage, made, gone>> PROVE Answers'
BY DEF Answers

\* Filed depends on _inQueue only.
LEMMA FiledStays == ASSUME Filed(inQueue), UNCHANGED inQueue PROVE Filed(inQueue)'
BY DEF Filed

\* What arrives from the hub comes last.
LEMMA StreamGrows ==
    ASSUME clientQueue \in Seq(Messages), socket \in Seq(Messages), NEW m \in Messages,
           clientQueue' = clientQueue, socket' = Append(socket, m)
    PROVE  socket' \in Seq(Messages) /\ Stream' \in Seq(Messages) /\ Longer(Stream, Stream', m)
<1>1. PICK q \in Seq(Messages) : q = clientQueue
    OBVIOUS
<1>2. PICK t \in Seq(Messages) : t = socket
    OBVIOUS
<1>3. PICK u : u = Append(t, m)
    OBVIOUS
<1>4. /\ u \in Seq(Messages) /\ Len(u) = Len(t) + 1
      /\ \A i \in 1 .. Len(t) : u[i] = t[i]
      /\ u[Len(t) + 1] = m
    BY <1>3, AppendProperties
<1>5. PICK a : a = q \o t
    OBVIOUS
<1>6. PICK b : b = q \o u
    OBVIOUS
<1>7. /\ a \in Seq(Messages) /\ Len(a) = Len(q) + Len(t)
      /\ \A i \in 1 .. Len(q) : a[i] = q[i]
      /\ \A i \in 1 .. Len(t) : a[Len(q) + i] = t[i]
    BY <1>5, Joined
<1>8. /\ b \in Seq(Messages) /\ Len(b) = Len(q) + Len(u)
      /\ \A i \in 1 .. Len(q) : b[i] = q[i]
      /\ \A i \in 1 .. Len(u) : b[Len(q) + i] = u[i]
    <2>1. u \in Seq(Messages)
        BY <1>4
    <2> QED BY <1>6, <2>1, Joined
<1>9. Len(q) \in Nat /\ Len(t) \in Nat
    OBVIOUS
<1>10. ASSUME NEW i \in 1 .. Len(a) PROVE b[i] = a[i]
    <2>1. CASE i <= Len(q)
        BY <1>7, <1>8, <1>9, <2>1
    <2>2. CASE i > Len(q)
        <3>1. PICK j \in 1 .. Len(t) : i = Len(q) + j
            <4>1. i - Len(q) \in 1 .. Len(t) /\ i = Len(q) + (i - Len(q))
                BY <1>7, <1>9, <2>2
            <4> QED BY <4>1
        <3>2. j \in 1 .. Len(u)
            BY <1>4, <1>9
        <3> QED BY <1>4, <1>7, <1>8, <3>1, <3>2
    <2> QED BY <1>7, <1>9, <2>1, <2>2
<1>11. Len(b) = Len(a) + 1 /\ b[Len(a) + 1] = m
    <2>1. Len(t) + 1 \in 1 .. Len(u) /\ Len(a) + 1 = Len(q) + (Len(t) + 1)
        BY <1>4, <1>7, <1>9
    <2> QED BY <1>4, <1>7, <1>8, <1>9, <2>1
<1>12. Longer(a, b, m)
    BY <1>10, <1>11 DEF Longer
<1>13. Stream = a /\ Stream' = b /\ socket' = u
    BY <1>1, <1>2, <1>3, <1>5, <1>6 DEF Stream
<1>14. socket' \in Seq(Messages)
    BY <1>4, <1>13
<1>15. Stream' \in Seq(Messages) /\ Longer(Stream, Stream', m)
    BY <1>8, <1>12, <1>13
<1> QED BY <1>14, <1>15

\* An answer reaches the socket, or is lost without a connection.
LEMMA PeerAnswersKeeps ==
    ASSUME ShellInv, NEW nr \in DOMAIN dest, NEW form \in AnswerForms, PeerAnswers(nr, form)
    PROVE  ShellInv'
<1> DEFINE m == Message(TRUE, nr, dest[nr], form)
<1>1. /\ stage[nr] # "all"
      /\ stage[nr] = "ack" => form \in {"reply", "unread"}
      /\ stage' = [stage EXCEPT ![nr] = IF form = "ack0" THEN "ack" ELSE "all"]
      /\ made' = made \cup {m}
      /\ IF online THEN socket' = Append(socket, m) /\ gone' = gone
                   ELSE gone' = gone \cup {m} /\ socket' = socket
      /\ UNCHANGED <<dest, clientQueue, inQueue, control, asked, given>>
    BY DEF PeerAnswers, waitVars
<1>2. /\ dest \in Seq(Peers) /\ stage \in Seq({"none", "ack", "all"}) /\ Len(stage) = Len(dest)
      /\ clientQueue \in Seq(Messages) /\ socket \in Seq(Messages)
      /\ nr \in 1 .. Len(dest) /\ nr \in 1 .. Len(stage)
    BY DEF ShellInv, ShellTypes
<1>3. /\ m.isReply /\ m.snr = nr /\ m.source = dest[nr] /\ m.form = form
      /\ m \in [isReply : BOOLEAN, snr : Nat, source : Peers, form : AnswerForms \cup {"command"}]
    BY <1>2 DEF Message
<1>4. m \in Messages
    BY <1>3 DEF Messages
<1> HIDE DEF m
<1>5. ASSUME NEW a \in made, a.snr = nr
      PROVE  /\ stage[nr] = "ack" /\ a.form = "ack0" /\ form \in {"reply", "unread"}
             /\ ~Final(a) /\ Final(m) /\ IsAck(a) /\ ~IsAck(m)
    <2>1. stage[nr] = "ack" /\ a.form = "ack0" /\ a.isReply
        BY <1>1, <1>2, <1>5 DEF ShellInv, Answers
    <2> QED BY <1>1, <1>3, <2>1 DEF Final, IsAck
<1>6. m \notin made
    BY <1>3, <1>5
<1>7. stage' \in Seq({"none", "ack", "all"}) /\ Len(stage') = Len(stage)
      /\ \A i \in 1 .. Len(stage) :
             stage'[i] = IF i = nr THEN (IF form = "ack0" THEN "ack" ELSE "all") ELSE stage[i]
    BY <1>1, <1>2
<1>8. ShellTypes'
    <2>1. socket' \in Seq(Messages)
        <3>1. Append(socket, m) \in Seq(Messages)
            BY <1>2, <1>4, AppendProperties
        <3> QED BY <1>1, <1>2, <3>1
    <2> QED BY <1>1, <1>2, <1>7, <2>1, FiledStays DEF ShellInv, ShellTypes
<1>9. Answers'
    <2>1. ASSUME NEW a \in made'
          PROVE  /\ a \in Messages /\ a.isReply /\ a.form \in AnswerForms
                 /\ a.snr \in 1 .. Len(dest) /\ a.source = dest[a.snr]
                 /\ stage'[a.snr] # "none"
                 /\ stage'[a.snr] = "ack" => a.form = "ack0"
        <3>1. CASE a = m
            BY <1>2, <1>3, <1>4, <1>7, <3>1
        <3>2. CASE a \in made
            <4>1. /\ a \in Messages /\ a.isReply /\ a.form \in AnswerForms
                  /\ a.snr \in 1 .. Len(dest) /\ a.source = dest[a.snr]
                  /\ stage[a.snr] # "none"
                  /\ stage[a.snr] = "ack" => a.form = "ack0"
                BY <3>2 DEF ShellInv, Answers
            <4>2. a.snr = nr => form # "ack0"
                BY <1>5, <3>2
            <4> QED BY <1>2, <1>7, <4>1, <4>2
        <3> QED BY <1>1, <2>1, <3>1, <3>2
    <2>2. ASSUME NEW a \in made', NEW b \in made', a.snr = b.snr,
                 IsAck(a) = IsAck(b) \/ Final(a) = Final(b)
          PROVE  a = b
        <3>1. CASE a \in made /\ b \in made
            BY <2>2, <3>1 DEF ShellInv, Answers
        <3>2. CASE a = m /\ b \in made
            <4>1. ~Final(b) /\ Final(m) /\ IsAck(b) /\ ~IsAck(m)
                BY <1>3, <1>5, <2>2, <3>2
            <4> QED BY <2>2, <3>2, <4>1
        <3>3. CASE b = m /\ a \in made
            <4>1. ~Final(a) /\ Final(m) /\ IsAck(a) /\ ~IsAck(m)
                BY <1>3, <1>5, <2>2, <3>3
            <4> QED BY <2>2, <3>3, <4>1
        <3> QED BY <1>1, <2>2, <3>1, <3>2, <3>3
    <2>3. gone' \subseteq made'
        BY <1>1 DEF ShellInv, Answers
    <2> QED BY <1>1, <2>1, <2>2, <2>3 DEF Answers
<1>10. \A a \in made : a.snr = m.snr => ~Final(a) /\ Final(m)
    BY <1>3, <1>5
<1>11. Stream \in Seq(Messages) /\ Held' = Held /\ given' = given
    BY <1>1, <1>2, StreamIs, HeldStays
<1>12. CASE online
    <2>1. Stream' \in Seq(Messages) /\ Longer(Stream, Stream', m)
        BY <1>1, <1>2, <1>4, <1>12, StreamGrows
    <2>2. Placed(Stream', Held, given, made \cup {m}, gone)
        BY <1>3, <1>6, <1>10, <1>11, <2>1, AnswerArrives DEF ShellInv, Answers
    <2> QED BY <1>1, <1>8, <1>9, <1>11, <1>12, <2>2 DEF ShellInv
<1>13. CASE ~online
    <2>1. Stream' = Stream
        BY <1>1, <1>13, StreamStays
    <2>2. Placed(Stream, Held, given, made \cup {m}, gone \cup {m})
        BY <1>3, <1>6, <1>10, <1>11, AnswerLost DEF ShellInv, Answers
    <2> QED BY <1>1, <1>8, <1>9, <1>11, <1>13, <2>1, <2>2 DEF ShellInv
<1> QED BY <1>12, <1>13

\* A command is no answer.
LEMMA PeerSendsKeeps ==
    ASSUME ShellInv, NEW source \in Peers, NEW form \in {"command", "unread"},
           PeerSends(source, form)
    PROVE  ShellInv'
<1> DEFINE m == Message(FALSE, 1, source, form)
<1>1. /\ socket' = Append(socket, m)
      /\ UNCHANGED <<dest, stage, clientQueue, inQueue, control, asked, given, made, gone>>
    BY DEF PeerSends, waitVars
<1>2. ~m.isReply /\ m \in Messages
    BY DEF Message, Messages, AnswerForms
<1> HIDE DEF m
<1>3. clientQueue \in Seq(Messages) /\ socket \in Seq(Messages)
    BY DEF ShellInv, ShellTypes
<1>4. ShellTypes'
    <2>1. socket' \in Seq(Messages)
        BY <1>1, <1>2, <1>3, AppendProperties
    <2> QED BY <1>1, <2>1, FiledStays DEF ShellInv, ShellTypes
<1>5. Stream \in Seq(Messages) /\ Stream' \in Seq(Messages) /\ Longer(Stream, Stream', m)
    BY <1>1, <1>2, <1>3, StreamIs, StreamGrows
<1>6. Placed(Stream', Held, given, made, gone)
    BY <1>2, <1>5, OtherArrives DEF ShellInv, Answers
<1> QED BY <1>1, <1>4, <1>6, HeldStays, AnswersStay DEF ShellInv

\* Reading moves the border between the two parts of the stream.
LEMMA ArrivesMoves ==
    ASSUME ShellInv, NEW n \in 0 .. Len(socket), Arrives(n)
    PROVE  /\ Stream' = Stream
           /\ clientQueue' \in Seq(Messages) /\ socket' \in Seq(Messages)
<1>1. clientQueue \in Seq(Messages) /\ socket \in Seq(Messages)
    BY DEF ShellInv, ShellTypes
<1>2. PICK first : first = SubSeq(socket, 1, n)
    OBVIOUS
<1>3. PICK rest : rest = SubSeq(socket, n + 1, Len(socket))
    OBVIOUS
<1>4. /\ first \in Seq(Messages) /\ Len(first) = n
      /\ \A i \in 1 .. n : first[i] = socket[i]
      /\ rest \in Seq(Messages) /\ Len(rest) = Len(socket) - n
      /\ \A i \in 1 .. Len(rest) : rest[i] = socket[n + i]
    BY <1>1, <1>2, <1>3, Divided
<1>5. clientQueue' = clientQueue \o first /\ socket' = rest
    BY <1>2, <1>3 DEF Arrives
<1>6. socket = first \o rest
    <2>1. PICK both : both = first \o rest
        OBVIOUS
    <2>2. /\ both \in Seq(Messages) /\ Len(both) = Len(first) + Len(rest)
          /\ \A i \in 1 .. Len(first) : both[i] = first[i]
          /\ \A i \in 1 .. Len(rest) : both[Len(first) + i] = rest[i]
        <3>1. first \in Seq(Messages)
            BY <1>4
        <3>2. rest \in Seq(Messages)
            BY <1>4
        <3> QED BY <2>1, <3>1, <3>2, Joined
    <2>3. Len(both) = Len(socket) /\ n \in Nat /\ Len(socket) \in Nat
        BY <1>1, <1>4, <2>2
    <2>4. ASSUME NEW i \in 1 .. Len(socket)
          PROVE  both[i] = socket[i]
        <3>1. CASE i <= n
            BY <1>4, <2>2, <2>3, <3>1
        <3>2. CASE i > n
            <4>1. i - n \in 1 .. Len(rest) /\ i = n + (i - n)
                BY <1>4, <2>3, <3>2
            <4>2. both[n + (i - n)] = rest[i - n] /\ rest[i - n] = socket[n + (i - n)]
                BY <1>4, <2>2, <4>1
            <4> QED BY <4>1, <4>2
        <3> QED BY <2>3, <3>1, <3>2
    <2>5. both = socket
        BY <1>1, <2>2, <2>3, <2>4, SeqEqual
    <2> QED BY <2>1, <2>5
<1>7. (clientQueue \o first) \o rest = clientQueue \o (first \o rest)
    BY <1>1, <1>4, ConcatAssociative
<1>8. Stream' = Stream
    BY <1>5, <1>6, <1>7 DEF Stream
<1>9. clientQueue' \in Seq(Messages)
    BY <1>1, <1>4, <1>5
<1> QED BY <1>4, <1>5, <1>8, <1>9

\* Stepping where only what is not an answer moves.
LEMMA StaysPlaced ==
    ASSUME ShellInv, ShellTypes', Answers', Stream' = Stream, UNCHANGED <<inQueue, given, made, gone>>
    PROVE  ShellInv'
BY HeldStays DEF ShellInv

\* A connection that ends takes what was not read with it.
LEMMA EndsKeeps ==
    ASSUME ShellInv, NEW n \in 0 .. Len(socket), Ends(n),
           UNCHANGED <<dest, stage, waitVars, made>>
    PROVE  ShellInv'
<1>1. /\ clientQueue \in Seq(Messages) /\ socket \in Seq(Messages)
      /\ UNCHANGED <<dest, stage, inQueue, control, asked, given, made>>
    BY DEF ShellInv, ShellTypes, waitVars
<1>2. PICK first : first = SubSeq(socket, 1, n)
    OBVIOUS
<1>3. PICK rest : rest = SubSeq(socket, n + 1, Len(socket))
    OBVIOUS
<1>4. /\ first \in Seq(Messages) /\ Len(first) = n
      /\ \A i \in 1 .. n : first[i] = socket[i]
      /\ rest \in Seq(Messages) /\ Len(rest) = Len(socket) - n
      /\ \A i \in 1 .. Len(rest) : rest[i] = socket[n + i]
    BY <1>1, <1>2, <1>3, Divided
<1>5. /\ clientQueue' = clientQueue \o first /\ socket' = <<>>
      /\ gone' = gone \cup {m \in ToSet(rest) : m.isReply}
    BY <1>2, <1>3 DEF Ends
<1>6. PICK s : s = clientQueue \o first
    OBVIOUS
<1>7. /\ s \in Seq(Messages) /\ Len(s) = Len(clientQueue) + n
      /\ \A i \in 1 .. Len(clientQueue) : s[i] = clientQueue[i]
      /\ \A i \in 1 .. n : s[Len(clientQueue) + i] = socket[i]
    <2>1. /\ s \in Seq(Messages) /\ Len(s) = Len(clientQueue) + Len(first)
          /\ \A i \in 1 .. Len(clientQueue) : s[i] = clientQueue[i]
          /\ \A i \in 1 .. Len(first) : s[Len(clientQueue) + i] = first[i]
        <3>1. clientQueue \in Seq(Messages)
            BY <1>1
        <3>2. first \in Seq(Messages)
            BY <1>4
        <3> QED BY <1>6, <3>1, <3>2, Joined
    <2> QED BY <1>4, <2>1
<1>8. clientQueue' = s /\ Stream' = s
    BY <1>5, <1>6, <1>7 DEF Stream
<1>9. /\ Stream \in Seq(Messages) /\ Len(Stream) = Len(clientQueue) + Len(socket)
      /\ \A i \in 1 .. Len(clientQueue) : Stream[i] = clientQueue[i]
      /\ \A i \in 1 .. Len(socket) : Stream[Len(clientQueue) + i] = socket[i]
    BY <1>1, StreamIs
<1>10. n \in Nat /\ Len(clientQueue) \in Nat /\ Len(socket) \in Nat /\ n <= Len(socket)
    BY <1>1
<1>11. Len(s) <= Len(Stream) /\ \A i \in 1 .. Len(s) : s[i] = Stream[i]
    <2>1. ASSUME NEW i \in 1 .. Len(s) PROVE s[i] = Stream[i]
        <3>1. CASE i <= Len(clientQueue)
            BY <1>7, <1>9, <1>10, <3>1
        <3>2. CASE i > Len(clientQueue)
            <4>1. PICK j \in 1 .. n : i = Len(clientQueue) + j
                <5>1. i - Len(clientQueue) \in 1 .. n /\ i = Len(clientQueue) + (i - Len(clientQueue))
                    BY <1>7, <1>10, <3>2
                <5> QED BY <5>1
            <4>2. j \in 1 .. Len(socket)
                BY <1>10
            <4> QED BY <1>7, <1>9, <4>1, <4>2
        <3> QED BY <1>7, <1>10, <3>1, <3>2
    <2> QED BY <1>7, <1>9, <1>10, <2>1
<1>12. ASSUME NEW m
       PROVE  m \in ToSet(rest)
                  <=> \E i \in 1 .. Len(Stream) : Len(s) < i /\ Stream[i] = m
    <2>1. m \in ToSet(rest) <=> \E i \in 1 .. Len(rest) : rest[i] = m
        BY <1>4 DEF ToSet
    <2>2. ASSUME NEW i \in 1 .. Len(rest)
          PROVE  Len(s) + i \in 1 .. Len(Stream) /\ Len(s) < Len(s) + i /\ Stream[Len(s) + i] = rest[i]
        <3>1. n + i \in 1 .. Len(socket) /\ Len(s) + i = Len(clientQueue) + (n + i)
            BY <1>4, <1>7, <1>10
        <3> QED BY <1>4, <1>7, <1>9, <1>10, <3>1
    <2>3. ASSUME NEW i \in 1 .. Len(Stream), Len(s) < i
          PROVE  \E j \in 1 .. Len(rest) : i = Len(s) + j
        <3>1. i - Len(s) \in 1 .. Len(rest) /\ i = Len(s) + (i - Len(s))
            BY <1>4, <1>7, <1>9, <1>10, <2>3
        <3> QED BY <3>1
    <2> QED BY <2>1, <2>2, <2>3
<1>13. Placed(s, Held, given, made, gone') /\ gone' \subseteq made
    <2>1. \A m : m \in gone' <=> \/ m \in gone
                                 \/ \E i \in 1 .. Len(Stream) :
                                        Len(s) < i /\ Stream[i] = m /\ m.isReply
        <3>1. \A m : m \in gone' <=> m \in gone \/ (m \in ToSet(rest) /\ m.isReply)
            BY <1>5
        <3> QED BY <1>12, <3>1
    <2>2. /\ Placed(Stream, Held, given, made, gone) /\ gone \subseteq made
          /\ \A a \in made : a.isReply
        BY DEF ShellInv, Answers
    <2>3. PICK lost : lost = gone'
        OBVIOUS
    <2>4. \A m : m \in lost <=> \/ m \in gone
                                \/ \E i \in 1 .. Len(Stream) :
                                       Len(s) < i /\ Stream[i] = m /\ m.isReply
        BY <2>1, <2>3
    <2>5. EndLost(Stream, s, gone, lost)
        BY <1>11, <2>4 DEF EndLost
    <2>6. s \in Seq(Messages) /\ Stream \in Seq(Messages)
        BY <1>7, <1>9
    <2>7. Placed(s, Held, given, made, lost) /\ lost \subseteq made
        BY <2>2, <2>5, <2>6, EndIsLost
    <2> QED BY <2>3, <2>7
<1>14. ShellTypes'
    <2>1. socket' \in Seq(Messages) /\ clientQueue' \in Seq(Messages)
        BY <1>5, <1>7, <1>8
    <2> QED BY <1>1, <2>1, FiledStays DEF ShellInv, ShellTypes
<1>15. Answers'
    BY <1>1, <1>13 DEF ShellInv, Answers
<1> QED BY <1>1, <1>8, <1>13, <1>14, <1>15, HeldStays DEF ShellInv

\* send() numbers the message.
LEMMA SendKeeps ==
    ASSUME ShellInv, NEW device \in Peers, Send(device)
    PROVE  ShellInv'
<1>1. PICK n \in 0 .. Len(socket) : Arrives(n)
    BY DEF Send
<1>2. /\ dest' = Append(dest, device)
      /\ stage' = Append(stage, IF online THEN "none" ELSE "all")
      /\ UNCHANGED <<inQueue, control, asked, given, made, gone>>
    BY DEF Send, waitVars
<1>3. Stream' = Stream /\ clientQueue' \in Seq(Messages) /\ socket' \in Seq(Messages)
    BY <1>1, ArrivesMoves
<1>4. dest \in Seq(Peers) /\ stage \in Seq({"none", "ack", "all"}) /\ Len(stage) = Len(dest)
    BY DEF ShellInv, ShellTypes
<1>5. /\ dest' \in Seq(Peers) /\ Len(dest') = Len(dest) + 1
      /\ \A i \in 1 .. Len(dest) : dest'[i] = dest[i]
    BY <1>2, <1>4, AppendProperties
<1>6. /\ stage' \in Seq({"none", "ack", "all"}) /\ Len(stage') = Len(stage) + 1
      /\ \A i \in 1 .. Len(stage) : stage'[i] = stage[i]
    BY <1>2, <1>4, AppendProperties
<1>7. Len(dest) \in Nat /\ 1 .. Len(dest) \subseteq 1 .. Len(dest')
    BY <1>4, <1>5
<1>8. ShellTypes'
    <2>1. asked \subseteq 1 .. Len(dest')
        BY <1>7 DEF ShellInv, ShellTypes
    <2>2. Len(stage') = Len(dest')
        BY <1>4, <1>5, <1>6
    <2> QED BY <1>2, <1>3, <1>5, <1>6, <2>1, <2>2, FiledStays DEF ShellInv, ShellTypes
<1>9. Answers'
    <2>1. ASSUME NEW m \in made
          PROVE  /\ m \in Messages /\ m.isReply /\ m.form \in AnswerForms
                 /\ m.snr \in 1 .. Len(dest') /\ m.source = dest'[m.snr]
                 /\ stage'[m.snr] # "none"
                 /\ stage'[m.snr] = "ack" => m.form = "ack0"
        <3>1. /\ m \in Messages /\ m.isReply /\ m.form \in AnswerForms
              /\ m.snr \in 1 .. Len(dest) /\ m.source = dest[m.snr]
              /\ stage[m.snr] # "none"
              /\ stage[m.snr] = "ack" => m.form = "ack0"
            BY DEF ShellInv, Answers
        <3>2. m.snr \in 1 .. Len(dest') /\ dest'[m.snr] = dest[m.snr] /\ stage'[m.snr] = stage[m.snr]
            BY <1>4, <1>5, <1>6, <1>7, <3>1
        <3> QED BY <3>1, <3>2
    <2> QED BY <1>2, <2>1 DEF ShellInv, Answers
<1> QED BY <1>2, <1>3, <1>8, <1>9, StaysPlaced

\* The other calls that only let messages be read.
LEMMA ArrivesKeeps ==
    ASSUME ShellInv, NEW n \in 0 .. Len(socket), Arrives(n),
           control' \in {"prompt", "listen", "parse"},
           UNCHANGED <<dest, stage, inQueue, asked, given, made, gone>>
    PROVE  ShellInv'
<1>1. Stream' = Stream /\ clientQueue' \in Seq(Messages) /\ socket' \in Seq(Messages)
    BY ArrivesMoves
<1>2. ShellTypes'
    BY <1>1, FiledStays DEF ShellInv, ShellTypes
<1> QED BY <1>1, <1>2, AnswersStay, StaysPlaced DEF ShellInv

\* Steps that move no message.
LEMMA NothingMoves ==
    ASSUME ShellInv, control' \in {"prompt", "listen", "parse"}, asked' \subseteq DOMAIN dest,
           UNCHANGED <<dest, stage, clientQueue, socket, inQueue, given, made, gone>>
    PROVE  ShellInv'
<1>1. DOMAIN dest = 1 .. Len(dest)
    BY DEF ShellInv, ShellTypes
<1>2. ShellTypes'
    BY <1>1, FiledStays DEF ShellInv, ShellTypes
<1> QED BY <1>2, AnswersStay, StreamStays, StaysPlaced DEF ShellInv

\* What is held of the answers of a device is in the entry for its message.
LEMMA SameEntry ==
    ASSUME ShellInv, NEW i \in 1 .. Len(inQueue), NEW x, Holds(inQueue[i], x)
    PROVE  x \in Messages /\ x \in Held /\ Key(x) = inQueue[i].key /\ (x.isReply => x \in made)
<1>1. Filed(inQueue)
    BY DEF ShellInv, ShellTypes
<1>2. x \in Held /\ x \in Messages
    BY <1>1, HeldIs
<1>3. Key(x) = inQueue[i].key
    BY <1>1 DEF Filed, Holds
<1>4. x.isReply => x \in made
    BY <1>2 DEF ShellInv, Placed, OnePlace
<1> QED BY <1>2, <1>3, <1>4

\* The place a message is filed at was free: otherwise it would have come before.
LEMMA ParseMessageKeeps ==
    ASSUME ShellInv, ParseMessage
    PROVE  ShellInv'
<1> DEFINE m == Head(clientQueue)
<1>1. /\ clientQueue # <<>> /\ clientQueue' = Tail(clientQueue)
      /\ \/ Raises(m) /\ control' = "prompt" /\ inQueue' = inQueue
         \/ ~Raises(m) /\ control' = control /\ inQueue' = Put(inQueue, m)
      /\ UNCHANGED <<dest, stage, socket, asked, given, made, gone>>
    BY DEF ParseMessage, peerVars
<1>2. /\ clientQueue \in Seq(Messages) /\ socket \in Seq(Messages) /\ Filed(inQueue)
      /\ control \in {"prompt", "listen", "parse"}
    BY DEF ShellInv, ShellTypes
<1>3. /\ clientQueue' \in Seq(Messages) /\ Len(clientQueue') + 1 = Len(clientQueue)
      /\ \A i \in 1 .. Len(clientQueue') : clientQueue'[i] = clientQueue[i + 1]
      /\ m = clientQueue[1] /\ 1 \in 1 .. Len(clientQueue)
    BY <1>1, <1>2
<1>4. m \in Messages
    BY <1>2, <1>3
<1> HIDE DEF m
<1>5. /\ Stream \in Seq(Messages) /\ Len(Stream) = Len(clientQueue) + Len(socket)
      /\ \A i \in 1 .. Len(clientQueue) : Stream[i] = clientQueue[i]
      /\ \A i \in 1 .. Len(socket) : Stream[Len(clientQueue) + i] = socket[i]
    BY <1>2, StreamIs
<1>6. /\ Stream' \in Seq(Messages) /\ Len(Stream') = Len(clientQueue') + Len(socket)
      /\ \A i \in 1 .. Len(clientQueue') : Stream'[i] = clientQueue'[i]
      /\ \A i \in 1 .. Len(socket) : Stream'[Len(clientQueue') + i] = socket[i]
    <2>1. PICK q : q = clientQueue'
        OBVIOUS
    <2>2. PICK s : s = q \o socket
        OBVIOUS
    <2>3. q \in Seq(Messages)
        BY <1>3, <2>1
    <2>4. /\ s \in Seq(Messages) /\ Len(s) = Len(q) + Len(socket)
          /\ \A i \in 1 .. Len(q) : s[i] = q[i]
          /\ \A i \in 1 .. Len(socket) : s[Len(q) + i] = socket[i]
        BY <1>2, <2>2, <2>3, Joined
    <2>5. Stream' = s
        BY <1>1, <2>1, <2>2 DEF Stream
    <2> QED BY <2>1, <2>4, <2>5
<1>7. /\ Len(clientQueue) \in Nat /\ Len(clientQueue') \in Nat /\ Len(socket) \in Nat
      /\ Stream[1] = m /\ 1 \in 1 .. Len(Stream) /\ Stream # <<>>
    BY <1>2, <1>3, <1>5
<1>8. Shorter(Stream, Stream')
    <2>1. Len(Stream') + 1 = Len(Stream)
        BY <1>3, <1>5, <1>6, <1>7
    <2>2. ASSUME NEW i \in 1 .. Len(Stream')
          PROVE  Stream'[i] = Stream[i + 1]
        <3>1. CASE i <= Len(clientQueue')
            <4>1. i \in 1 .. Len(clientQueue') /\ i + 1 \in 1 .. Len(clientQueue)
                BY <1>3, <1>6, <1>7, <3>1
            <4> QED BY <1>3, <1>5, <1>6, <4>1
        <3>2. CASE i > Len(clientQueue')
            <4>1. PICK j \in 1 .. Len(socket) : i = Len(clientQueue') + j
                <5>1. /\ i - Len(clientQueue') \in 1 .. Len(socket)
                      /\ i = Len(clientQueue') + (i - Len(clientQueue'))
                    BY <1>6, <1>7, <3>2
                <5> QED BY <5>1
            <4>2. i + 1 = Len(clientQueue) + j
                <5>1. Len(clientQueue') + 1 = Len(clientQueue) /\ j \in Nat
                    BY <1>3, <1>7
                <5> QED BY <1>7, <4>1, <5>1
            <4> QED BY <1>5, <1>6, <4>1, <4>2
        <3> QED BY <1>6, <1>7, <3>1, <3>2
    <2> QED BY <2>1, <2>2 DEF Shorter
<1>9. CASE Raises(m)
    <2>1. control' = "prompt" /\ inQueue' = inQueue /\ ~m.isReply
        BY <1>1, <1>9 DEF Raises
    <2>2. ShellTypes'
        BY <1>1, <1>3, <2>1, FiledStays DEF ShellInv, ShellTypes
    <2>3. /\ Placed(Stream, Held, given, made, gone)
          /\ \A a \in made : a.isReply
        BY DEF ShellInv, Answers
    <2>4. Placed(Stream', Held, given, made, gone)
        BY <1>5, <1>6, <1>7, <1>8, <2>1, <2>3, HeadIsTaken
    <2> QED BY <1>1, <2>1, <2>2, <2>4, HeldStays, AnswersStay DEF ShellInv
<1>10. CASE ~Raises(m)
    <2>1. control' = control /\ inQueue' = Put(inQueue, m)
        BY <1>1, <1>10
    <2>2. ASSUME m.isReply, NEW i \in 1 .. Len(inQueue), inQueue[i].key = Key(m)
          PROVE  (IF IsAck(m) THEN inQueue[i].ack ELSE inQueue[i].reply) = Nothing
        <3> DEFINE x == IF IsAck(m) THEN inQueue[i].ack ELSE inQueue[i].reply
        <3>1. SUFFICES ASSUME x # Nothing PROVE FALSE
            OBVIOUS
        <3>2. Holds(inQueue[i], x) /\ IsAck(x) = IsAck(m)
            BY <1>2, <3>1 DEF Holds, Filed, IsAck
        <3>3. x \in Held /\ Key(x) = Key(m) /\ (x.isReply => x \in made)
            BY <2>2, <3>2, SameEntry
        <3>4. x.isReply = m.isReply /\ x.snr = m.snr
            BY <3>3 DEF Key
        <3>5. m \in made /\ m \notin Held
            BY <1>7, <2>2 DEF ShellInv, Placed, OnePlace
        <3>6. x = m
            BY <2>2, <3>2, <3>3, <3>4, <3>5 DEF ShellInv, Answers
        <3> QED BY <3>3, <3>5, <3>6
    <2>3. /\ Filed(Put(inQueue, m))
          /\ \E i \in 1 .. Len(Put(inQueue, m)) : Holds(Put(inQueue, m)[i], m)
          /\ \A x : (\E i \in 1 .. Len(Put(inQueue, m)) : Holds(Put(inQueue, m)[i], x)) =>
                        x = m \/ \E i \in 1 .. Len(inQueue) : Holds(inQueue[i], x)
          /\ \A x : (\E i \in 1 .. Len(inQueue) : Holds(inQueue[i], x)) /\ x.isReply =>
                        \E i \in 1 .. Len(Put(inQueue, m)) : Holds(Put(inQueue, m)[i], x)
        BY <1>2, <1>4, <2>2, PutHolds
    <2>4. /\ \A x : x \in Held <=> \E i \in 1 .. Len(inQueue) : Holds(inQueue[i], x)
          /\ \A x : x \in Held' <=> \E i \in 1 .. Len(inQueue') : Holds(inQueue'[i], x)
        <3>1. Filed(inQueue')
            BY <2>1, <2>3
        <3> QED BY <1>2, <3>1, HeldIs, HeldNextIs
    <2>5. ShellTypes'
        <3>1. Filed(inQueue)'
            BY <2>1, <2>3 DEF Filed
        <3> QED BY <1>1, <1>3, <2>1, <3>1 DEF ShellInv, ShellTypes
    <2>6. /\ m \in Held'
          /\ \A x \in Held' : x = m \/ x \in Held
          /\ \A x \in Held : x.isReply => x \in Held'
        BY <2>1, <2>3, <2>4
    <2>7. /\ Placed(Stream, Held, given, made, gone)
          /\ \A a \in made : a.isReply
        BY DEF ShellInv, Answers
    <2>8. Placed(Stream', Held', given, made, gone)
        BY <1>5, <1>6, <1>7, <1>8, <2>6, <2>7, HeadIsTaken
    <2> QED BY <1>1, <2>5, <2>8, AnswersStay DEF ShellInv
<1> QED BY <1>9, <1>10

\* A wait without messages looks for the first complete entry.
LEMMA FirstComplete ==
    ASSUME NEW queue, Filed(queue), NEW n, n = SelectInSeq(queue, Complete)
    PROVE  /\ n \in 0 .. Len(queue)
           /\ n = 0 => \A i \in 1 .. Len(queue) : ~Complete(queue[i])
           /\ n # 0 => Complete(queue[n])
<1> DEFINE found == {i \in 1 .. Len(queue) : Complete(queue[i])}
<1>1. n = IF found # {} THEN Min(found) ELSE 0
    BY DEF SelectInSeq
<1>2. found \in SUBSET Nat /\ Len(queue) \in Nat
    BY DEF Filed
<1>3. CASE found = {}
    BY <1>1, <1>2, <1>3
<1>4. CASE found # {}
    <2>1. Min(found) \in found
        BY <1>2, <1>4, LeastOf
    <2> QED BY <1>1, <1>2, <1>4, <2>1
<1> QED BY <1>3, <1>4

\* What ends a wait is complete.
LEMMA FoundIs ==
    ASSUME NEW queue, Filed(queue), NEW msgs
    PROVE  \A n \in Found(queue, msgs) : n \in 1 .. Len(queue) /\ Complete(queue[n])
<1>1. queue \in Seq(Entry) /\ Len(queue) \in Nat
    BY DEF Filed
<1>2. CASE msgs = {}
    <2>1. PICK n : n = SelectInSeq(queue, Complete)
        OBVIOUS
    <2>2. Found(queue, msgs) = IF n = 0 THEN {} ELSE {n}
        BY <1>2, <2>1 DEF Found
    <2>3. n \in 0 .. Len(queue) /\ (n # 0 => Complete(queue[n]))
        BY <2>1, FirstComplete
    <2> QED BY <1>1, <2>2, <2>3
<1>3. CASE msgs # {}
    <2> DEFINE All == {Place(queue, KeyFor(nr)) : nr \in msgs}
    <2>1. Found(queue, msgs) = IF \A n \in All : n # 0 /\ Complete(queue[n]) THEN All ELSE {}
        BY <1>3 DEF Found
    <2>2. \A n \in All : n \in 0 .. Len(queue)
        BY <1>1, PlaceIs
    <2> QED BY <1>1, <2>1, <2>2
<1> QED BY <1>2, <1>3

\* What wait() returns comes out of entries that are taken out, and they only.
LEMMA WaitReturnsIs ==
    ASSUME ShellInv, WaitReturns, NEW places, places = Found(inQueue, asked)
    PROVE  /\ \A n \in places : n \in 1 .. Len(inQueue) /\ Complete(inQueue[n])
           /\ \A n \in places :
                  /\ Answer(inQueue[n]) \in given'
                  /\ Answer(inQueue[n]).isReply => Answer(inQueue[n]) \notin given
                  /\ Holds(inQueue[n], Answer(inQueue[n])) /\ Final(Answer(inQueue[n]))
                  /\ Answer(inQueue[n]) \in Messages /\ Key(Answer(inQueue[n])) = inQueue[n].key
           /\ \A x \in given' \ given : \E n \in places : x = Answer(inQueue[n])
           /\ given \subseteq given' /\ given' \subseteq Messages
           /\ Filed(inQueue')
           /\ \A x : x \in Held' <=> \E i \in 1 .. Len(inQueue) : i \notin places /\ Holds(inQueue[i], x)
           /\ UNCHANGED <<dest, stage, clientQueue, socket, asked, made, gone>>
           /\ control' = "prompt" /\ outcome' = "answers" /\ places # {}
<1>1. /\ given' = given \cup {Answer(inQueue[n]) : n \in places}
      /\ inQueue' = Without(inQueue, places) /\ places # {}
      /\ UNCHANGED <<dest, stage, clientQueue, socket, asked, made, gone>>
      /\ control' = "prompt" /\ outcome' = "answers"
    BY DEF WaitReturns, peerVars
<1>2. Filed(inQueue) /\ given \subseteq Messages
    BY DEF ShellInv, ShellTypes
<1>3. \A n \in places : n \in 1 .. Len(inQueue) /\ Complete(inQueue[n])
    BY <1>2, FoundIs
<1>4. \A n \in places :
          /\ Holds(inQueue[n], Answer(inQueue[n])) /\ Final(Answer(inQueue[n]))
          /\ Answer(inQueue[n]) \in Messages /\ Key(Answer(inQueue[n])) = inQueue[n].key
    BY <1>2, <1>3, AnswerIs
<1>5. /\ Filed(inQueue')
      /\ \A x : x \in Held' <=> \E i \in 1 .. Len(inQueue) : i \notin places /\ Holds(inQueue[i], x)
    <2>1. places \subseteq 1 .. Len(inQueue)
        BY <1>3
    <2>2. /\ Filed(Without(inQueue, places))
          /\ \A x : (\E i \in 1 .. Len(Without(inQueue, places)) : Holds(Without(inQueue, places)[i], x))
                        <=> \E i \in 1 .. Len(inQueue) : i \notin places /\ Holds(inQueue[i], x)
        BY <1>2, <2>1, WithoutHolds
    <2>3. Filed(inQueue')
        BY <1>1, <2>2
    <2>4. \A x : x \in Held' <=> \E i \in 1 .. Len(inQueue') : Holds(inQueue'[i], x)
        BY <2>3, HeldNextIs
    <2> QED BY <1>1, <2>2, <2>3, <2>4
<1>6. ASSUME NEW n \in places, Answer(inQueue[n]).isReply PROVE Answer(inQueue[n]) \notin given
    BY <1>3, <1>4, <1>6, SameEntry DEF ShellInv, Placed, OnePlace
<1>7. \A n \in places : Answer(inQueue[n]) \in given'
    BY <1>1
<1>8. \A x \in given' \ given : \E n \in places : x = Answer(inQueue[n])
    BY <1>1
<1>9. given \subseteq given' /\ given' \subseteq Messages
    BY <1>1, <1>2, <1>4
<1> QED BY <1>1, <1>3, <1>4, <1>5, <1>6, <1>7, <1>8, <1>9

\* The other messages of an entry are an ACK of zero, and its final answer is returned.
LEMMA WaitReturnsKeeps ==
    ASSUME ShellInv, WaitReturns
    PROVE  ShellInv'
<1>1. PICK places : places = Found(inQueue, asked)
    OBVIOUS
<1>2. /\ \A n \in places : n \in 1 .. Len(inQueue) /\ Complete(inQueue[n])
      /\ \A n \in places :
             /\ Answer(inQueue[n]) \in given'
             /\ Holds(inQueue[n], Answer(inQueue[n])) /\ Final(Answer(inQueue[n]))
             /\ Key(Answer(inQueue[n])) = inQueue[n].key
      /\ \A x \in given' \ given : \E n \in places : x = Answer(inQueue[n])
      /\ given \subseteq given' /\ given' \subseteq Messages
      /\ Filed(inQueue')
      /\ \A x : x \in Held' <=> \E i \in 1 .. Len(inQueue) : i \notin places /\ Holds(inQueue[i], x)
      /\ UNCHANGED <<dest, stage, clientQueue, socket, asked, made, gone>>
      /\ control' = "prompt"
    BY <1>1, WaitReturnsIs
<1>3. /\ Filed(inQueue) /\ Stream \in Seq(Messages)
      /\ \A x : x \in Held <=> \E i \in 1 .. Len(inQueue) : Holds(inQueue[i], x)
    BY HeldIs, StreamIs DEF ShellInv, ShellTypes
<1>4. Held' \subseteq Held
    BY <1>2, <1>3
<1>5. ASSUME NEW x \in given' \ given
      PROVE  x \in Held /\ x \notin Held' /\ Final(x)
    <2>1. PICK n \in places : x = Answer(inQueue[n])
        BY <1>2
    <2>2. x \in Held /\ Final(x) /\ Key(x) = inQueue[n].key /\ n \in 1 .. Len(inQueue)
        BY <1>2, <1>3, <2>1
    <2>3. ASSUME NEW i \in 1 .. Len(inQueue), i \notin places, Holds(inQueue[i], x)
          PROVE  FALSE
        <3>1. inQueue[i].key = inQueue[n].key
            BY <2>2, <2>3, SameEntry
        <3>2. i = n
            BY <1>3, <2>2, <3>1 DEF Filed
        <3> QED BY <2>3, <3>2
    <2> QED BY <1>2, <2>2, <2>3
<1>6. ASSUME NEW x \in Held \ Held', x.isReply
      PROVE  x \in given' \/ (~Final(x) /\ \E r \in given' : r.isReply /\ r.snr = x.snr)
    <2>1. PICK i \in 1 .. Len(inQueue) : i \in places /\ Holds(inQueue[i], x)
        BY <1>2, <1>3
    <2>2. PICK r : r = Answer(inQueue[i])
        OBVIOUS
    <2>3. /\ r \in given' /\ Holds(inQueue[i], r) /\ Final(r)
          /\ Key(r) = inQueue[i].key /\ Key(x) = inQueue[i].key
        BY <1>2, <2>1, <2>2, SameEntry
    <2>4. r.isReply /\ r.snr = x.snr
        <3>1. Key(r) = Key(x)
            BY <2>3
        <3> QED BY <1>6, <3>1 DEF Key
    <2>5. r \in made /\ x \in made
        BY <1>6, <2>1, <2>3, <2>4, SameEntry
    <2>6. Final(x) => x = r
        BY <2>3, <2>4, <2>5 DEF ShellInv, Answers, Final
    <2> QED BY <2>3, <2>4, <2>6
<1>7. ASSUME NEW x \in given' \ given, NEW a \in Held', x \in made, a \in made
      PROVE  x.snr # a.snr
    <2>1. PICK n \in places : x = Answer(inQueue[n])
        BY <1>2
    <2>2. PICK i \in 1 .. Len(inQueue) : i \notin places /\ Holds(inQueue[i], a)
        BY <1>2
    <2>3. n \in 1 .. Len(inQueue) /\ Key(x) = inQueue[n].key /\ Key(a) = inQueue[i].key
        BY <1>2, <2>1, <2>2, SameEntry
    <2>4. x.snr = a.snr => Key(x) = Key(a)
        <3>1. x.isReply /\ a.isReply /\ x.source = dest[x.snr] /\ a.source = dest[a.snr]
            BY <1>7 DEF ShellInv, Answers
        <3> QED BY <3>1 DEF Key
    <2>5. inQueue[n].key # inQueue[i].key
        BY <1>3, <2>2, <2>3 DEF Filed
    <2> QED BY <2>3, <2>4, <2>5
<1>8. Placed(Stream, Held', given', made, gone)
    <2>1. /\ Placed(Stream, Held, given, made, gone)
          /\ \A a \in made : a.isReply
        BY DEF ShellInv, Answers
    <2>2. PICK held2, ret2 : held2 = Held' /\ ret2 = given'
        OBVIOUS
    <2>3. held2 \subseteq Held /\ given \subseteq ret2
        BY <1>2, <1>4, <2>2
    <2>4. \A x \in ret2 \ given : x \in Held /\ x \notin held2 /\ Final(x)
        BY <1>5, <2>2
    <2>5. \A x \in Held \ held2 :
              x.isReply => x \in ret2 \/ (~Final(x) /\ \E r \in ret2 : r.isReply /\ r.snr = x.snr)
        BY <1>6, <2>2
    <2>6. \A x \in ret2 \ given, a \in held2 : x \in made /\ a \in made => x.snr # a.snr
        BY <1>7, <2>2
    <2>7. Placed(Stream, held2, ret2, made, gone)
        BY <1>3, <2>1, <2>3, <2>4, <2>5, <2>6, AnswersAreReturned
    <2> QED BY <2>2, <2>7
<1>9. ShellTypes'
    BY <1>2 DEF ShellInv, ShellTypes
<1> QED BY <1>2, <1>8, <1>9, StreamStays, AnswersStay DEF ShellInv

\* Every step keeps the invariant.
LEMMA StepKeepsShell == ShellInv /\ [ShellNext]_shellVars => ShellInv'
<1> SUFFICES ASSUME ShellInv, [ShellNext]_shellVars PROVE ShellInv'
    OBVIOUS
<1> USE DEF waitVars, peerVars
<1>1. /\ control \in {"prompt", "listen", "parse"} /\ DOMAIN dest = 1 .. Len(dest)
      /\ asked \subseteq DOMAIN dest /\ Len(socket) \in Nat
    BY DEF ShellInv, ShellTypes
<1>2. ASSUME NEW nr \in DOMAIN dest, NEW form \in {"ack0", "ack1", "reply", "unread"},
             PeerAnswers(nr, form)
      PROVE  ShellInv'
    BY <1>2, PeerAnswersKeeps DEF AnswerForms
<1>3. ASSUME NEW source \in Peers, NEW form \in {"command", "unread"}, PeerSends(source, form)
      PROVE  ShellInv'
    BY <1>3, PeerSendsKeeps
<1>4. CASE ConnectionLost
    BY <1>4, EndsKeeps DEF ConnectionLost
<1>5. CASE Connect
    BY <1>5, EndsKeeps DEF Connect
<1>6. CASE Disconnect
    BY <1>6, EndsKeeps DEF Disconnect
<1>7. CASE IsConnected
    <2>1. PICK n \in 1 .. Len(socket) : Arrives(n)
        BY <1>7 DEF IsConnected
    <2>2. n \in 0 .. Len(socket)
        BY <1>1
    <2>3. UNCHANGED <<dest, stage, inQueue, control, asked, given, made, gone>>
        BY <1>7 DEF IsConnected
    <2> QED BY <1>1, <2>1, <2>2, <2>3, ArrivesKeeps
<1>8. CASE AckOrReply
    <2>1. PICK n \in 1 .. Len(socket) : Arrives(n)
        BY <1>8 DEF AckOrReply
    <2>2. n \in 0 .. Len(socket)
        BY <1>1
    <2>3. UNCHANGED <<dest, stage, inQueue, control, asked, given, made, gone>>
        BY <1>8 DEF AckOrReply
    <2> QED BY <1>1, <2>1, <2>2, <2>3, ArrivesKeeps
<1>9. ASSUME NEW device \in Peers, Send(device) PROVE ShellInv'
    BY <1>9, SendKeeps
<1>10. ASSUME NEW msgs \in SUBSET (DOMAIN dest), WaitStarts(msgs) PROVE ShellInv'
    <2>1. /\ control' = "listen" /\ asked' \subseteq DOMAIN dest
          /\ UNCHANGED <<dest, stage, clientQueue, socket, inQueue, given, made, gone>>
        BY <1>10 DEF WaitStarts
    <2> QED BY <2>1, NothingMoves
<1>16. CASE WaitHasMessages
    <2>1. /\ control' = "parse"
          /\ UNCHANGED <<dest, stage, clientQueue, socket, inQueue, asked, given, made, gone>>
        BY <1>16 DEF WaitHasMessages, peerVars
    <2> QED BY <1>1, <2>1, NothingMoves
<1>11. CASE WaitListens
    <2>1. PICK n \in 0 .. Len(socket) : Arrives(n)
        BY <1>1, <1>11 DEF WaitListens
    <2>2. /\ control' \in {"listen", "parse"}
          /\ UNCHANGED <<dest, stage, inQueue, asked, given, made, gone>>
        BY <1>11 DEF WaitListens
    <2> QED BY <2>1, <2>2, ArrivesKeeps
<1>12. CASE ParseMessage
    BY <1>12, ParseMessageKeeps
<1>13. CASE WaitReturns
    BY <1>13, WaitReturnsKeeps
<1>14. CASE WaitFindsNothing
    <2>1. /\ control' \in {"prompt", "listen"}
          /\ UNCHANGED <<dest, stage, clientQueue, socket, inQueue, asked, given, made, gone>>
        BY <1>14 DEF WaitFindsNothing
    <2> QED BY <1>1, <2>1, NothingMoves
<1>15. CASE UNCHANGED shellVars
    <2>1. UNCHANGED <<dest, stage, clientQueue, socket, inQueue, control, asked, given, made, gone>>
        BY <1>15 DEF shellVars
    <2> QED BY <1>1, <2>1, NothingMoves
<1> QED BY <1>2, <1>3, <1>4, <1>5, <1>6, <1>7, <1>8, <1>9, <1>10, <1>11, <1>16, <1>12, <1>13, <1>14,
           <1>15 DEF ShellNext

\* The invariant holds at all times.
LEMMA ShellStaysWell == ShellSpec => []ShellInv
BY InitShell, StepKeepsShell, PTL DEF ShellSpec

-----------------------------------------------------------------------------
(* Nothing is lost                                                           *)

\* How often a message is in a queue.
LEMMA CountedOnce ==
    ASSUME NEW s \in Seq(Messages), NEW m, NEW i \in 1 .. Len(s), s[i] = m,
           \A j \in 1 .. Len(s) : s[j] = m => i = j
    PROVE  Cardinality({n \in DOMAIN s : s[n] = m}) = 1
<1>1. {n \in DOMAIN s : s[n] = m} = {i}
    OBVIOUS
<1> QED BY <1>1, FS_Singleton

\* A message that is not there counts nothing.
LEMMA NotCounted ==
    ASSUME NEW s \in Seq(Messages), NEW m, \A j \in 1 .. Len(s) : s[j] # m
    PROVE  Cardinality({n \in DOMAIN s : s[n] = m}) = 0
<1>1. {n \in DOMAIN s : s[n] = m} = {}
    OBVIOUS
<1> QED BY <1>1, FS_EmptySet

\* The same of a set.
LEMMA SetsCount ==
    ASSUME NEW m, NEW S
    PROVE  /\ m \in S => Cardinality({m} \cap S) = 1
           /\ m \notin S => Cardinality({m} \cap S) = 0
<1>1. (m \in S => {m} \cap S = {m}) /\ (m \notin S => {m} \cap S = {})
    OBVIOUS
<1> QED BY <1>1, FS_EmptySet, FS_Singleton

\* In one place only, by the three parts of Placed.
LEMMA ShellLosesNothing == ShellInv => NothingLost
<1> SUFFICES ASSUME ShellInv, NEW m \in made \ gone
             PROVE  LET places ==
                            Cardinality({n \in DOMAIN socket : socket[n] = m})
                            + Cardinality({n \in DOMAIN clientQueue : clientQueue[n] = m})
                            + Cardinality({m} \cap Held) + Cardinality({m} \cap given)
                    IN  \/ places = 1
                        \/ /\ places = 0 /\ ~Final(m)
                           /\ \E r \in given : AnswersTo(r, m.snr)
    BY DEF NothingLost
<1> DEFINE inSocket == Cardinality({n \in DOMAIN socket : socket[n] = m})
           inClient == Cardinality({n \in DOMAIN clientQueue : clientQueue[n] = m})
           inShell == Cardinality({m} \cap Held)
           atProgram == Cardinality({m} \cap given)
<1>1. clientQueue \in Seq(Messages) /\ socket \in Seq(Messages)
    BY DEF ShellInv, ShellTypes
<1>2. /\ Stream \in Seq(Messages) /\ Len(Stream) = Len(clientQueue) + Len(socket)
      /\ \A i \in 1 .. Len(clientQueue) : Stream[i] = clientQueue[i]
      /\ \A i \in 1 .. Len(socket) : Stream[Len(clientQueue) + i] = socket[i]
      /\ Len(clientQueue) \in Nat /\ Len(socket) \in Nat
    BY <1>1, StreamIs
<1>3. /\ \A i \in 1 .. Len(clientQueue) : i \in 1 .. Len(Stream)
      /\ \A i \in 1 .. Len(socket) : Len(clientQueue) + i \in 1 .. Len(Stream)
    BY <1>2
<1>4. /\ m \in Held => inShell = 1
      /\ m \notin Held => inShell = 0
      /\ m \in given => atProgram = 1
      /\ m \notin given => atProgram = 0
    BY SetsCount
<1>5. m.isReply /\ m.snr \in 1 .. Len(dest)
    BY DEF ShellInv, Answers
<1>6. (\A i \in 1 .. Len(Stream) : Stream[i] # m) => inSocket = 0 /\ inClient = 0
    <2>1. SUFFICES ASSUME \A i \in 1 .. Len(Stream) : Stream[i] # m
                   PROVE  inSocket = 0 /\ inClient = 0
        OBVIOUS
    <2>2. \A i \in 1 .. Len(clientQueue) : clientQueue[i] # m
        BY <1>2, <1>3, <2>1
    <2>3. \A i \in 1 .. Len(socket) : socket[i] # m
        BY <1>2, <1>3, <2>1
    <2> QED BY <1>1, <2>2, <2>3, NotCounted
<1>7. ASSUME NEW i \in 1 .. Len(Stream), Stream[i] = m
      PROVE  /\ m \notin Held /\ m \notin given
             /\ \/ inSocket = 0 /\ inClient = 1
                \/ inSocket = 1 /\ inClient = 0
    <2>1. /\ m \notin Held /\ m \notin given
          /\ \A j \in 1 .. Len(Stream) : Stream[j] = m => i = j
        BY <1>5, <1>7 DEF ShellInv, Placed, OnePlace
    <2>2. CASE i <= Len(clientQueue)
        <3>1. i \in 1 .. Len(clientQueue) /\ clientQueue[i] = m
            BY <1>2, <1>7, <2>2
        <3>2. \A j \in 1 .. Len(clientQueue) : clientQueue[j] = m => i = j
            BY <1>2, <1>3, <2>1
        <3>3. \A j \in 1 .. Len(socket) : socket[j] # m
            <4>1. \A j \in 1 .. Len(socket) : i # Len(clientQueue) + j
                BY <1>2, <2>2
            <4> QED BY <1>2, <1>3, <2>1, <4>1
        <3>4. inClient = 1
            BY <1>1, <3>1, <3>2, CountedOnce
        <3>5. inSocket = 0
            BY <1>1, <3>3, NotCounted
        <3> QED BY <2>1, <3>4, <3>5
    <2>3. CASE i > Len(clientQueue)
        <3>1. PICK k \in 1 .. Len(socket) : i = Len(clientQueue) + k
            <4>1. /\ i - Len(clientQueue) \in 1 .. Len(socket)
                  /\ i = Len(clientQueue) + (i - Len(clientQueue))
                BY <1>2, <2>3
            <4> QED BY <4>1
        <3>2. socket[k] = m
            BY <1>2, <1>7, <3>1
        <3>3. \A j \in 1 .. Len(socket) : socket[j] = m => k = j
            <4>1. \A j \in 1 .. Len(socket) : i = Len(clientQueue) + j => k = j
                BY <1>2, <3>1
            <4> QED BY <1>2, <1>3, <2>1, <4>1
        <3>4. \A j \in 1 .. Len(clientQueue) : clientQueue[j] # m
            <4>1. \A j \in 1 .. Len(clientQueue) : i # j
                BY <1>2, <2>3
            <4> QED BY <1>2, <1>3, <2>1, <4>1
        <3>5. inSocket = 1
            BY <1>1, <3>2, <3>3, CountedOnce
        <3>6. inClient = 0
            BY <1>1, <3>4, NotCounted
        <3> QED BY <2>1, <3>5, <3>6
    <2> QED BY <1>2, <2>2, <2>3
<1>8. m \in Held \cup given => \A i \in 1 .. Len(Stream) : Stream[i] # m
    BY <1>7
<1>9. m \in Held => m \notin given
    BY <1>5 DEF ShellInv, Placed, OnePlace
<1>10. \/ \E i \in 1 .. Len(Stream) : Stream[i] = m
       \/ m \in Held \/ m \in given
       \/ ~Final(m) /\ \E r \in given : r.isReply /\ r.snr = m.snr
    BY DEF ShellInv, Placed, SomePlace
<1>11. ASSUME NEW r \in given, r.isReply, r.snr = m.snr
       PROVE  AnswersTo(r, m.snr)
    <2>1. r \in made
        BY <1>11 DEF ShellInv, Placed, OnePlace
    <2> QED BY <1>11, <2>1 DEF ShellInv, Answers, AnswersTo
<1> HIDE DEF inSocket, inClient, inShell, atProgram
<1>12. CASE \E i \in 1 .. Len(Stream) : Stream[i] = m
    <2>1. inSocket + inClient + inShell + atProgram = 1
        BY <1>4, <1>7, <1>12
    <2> QED BY <2>1 DEF inSocket, inClient, inShell, atProgram
<1>13. CASE m \in Held \cup given
    <2>1. inSocket + inClient + inShell + atProgram = 1
        BY <1>4, <1>6, <1>8, <1>9, <1>13
    <2> QED BY <2>1 DEF inSocket, inClient, inShell, atProgram
<1>14. CASE /\ \A i \in 1 .. Len(Stream) : Stream[i] # m
            /\ m \notin Held /\ m \notin given
    <2>1. inSocket + inClient + inShell + atProgram = 0
        BY <1>4, <1>6, <1>14
    <2>2. ~Final(m) /\ \E r \in given : AnswersTo(r, m.snr)
        BY <1>10, <1>11, <1>14
    <2> QED BY <2>1, <2>2 DEF inSocket, inClient, inShell, atProgram
<1> QED BY <1>12, <1>13, <1>14

(* Every answer of a device that no connection took with it is in one place, the   *)
(* socket, the client, the shell or the program, except an ACK of zero whose reply *)
(* the program has (DcpShell._inQueue, _parseAvailableMessages(), wait()).         *)
THEOREM NothingIsLost == ShellSpec => []NothingLost
BY ShellStaysWell, ShellLosesNothing, PTL

-----------------------------------------------------------------------------
(* What a wait promises                                                      *)

\* An entry that holds a final message is complete.
LEMMA FinalCompletes ==
    ASSUME NEW queue, Filed(queue), NEW i \in 1 .. Len(queue), NEW m, Holds(queue[i], m), Final(m)
    PROVE  Complete(queue[i])
<1>1. CASE queue[i].reply = m
    BY <1>1 DEF Holds, Complete
<1>2. CASE queue[i].ack = m
    <2>1. IsAck(m)
        BY <1>2 DEF Filed, Holds
    <2> QED BY <1>2, <2>1 DEF IsAck, Final, Complete
<1> QED BY <1>1, <1>2 DEF Holds

\* The entry a wait for messages takes out for one of them, and its answer.
LEMMA AnswerFor ==
    ASSUME ShellInv, WaitReturns, NEW nr \in asked, NEW n, n = Place(inQueue, KeyFor(nr))
    PROVE  /\ n \in Found(inQueue, asked)
           /\ Answer(inQueue[n]) \in given' \ given
           /\ AnswersTo(Answer(inQueue[n]), nr) /\ Final(Answer(inQueue[n]))
<1> DEFINE All == {Place(inQueue, KeyFor(s)) : s \in asked}
<1>1. Found(inQueue, asked) = IF \A k \in All : k # 0 /\ Complete(inQueue[k]) THEN All ELSE {}
    BY DEF Found
<1>2. Found(inQueue, asked) # {}
    BY DEF WaitReturns
<1>3. Found(inQueue, asked) = All /\ \A k \in All : k # 0
    BY <1>1, <1>2
<1>4. n \in Found(inQueue, asked) /\ n # 0
    BY <1>3
<1>5. inQueue[n].key = KeyFor(nr)
    <2>1. inQueue \in Seq(Entry)
        BY DEF ShellInv, ShellTypes, Filed
    <2> QED BY <1>4, <2>1, PlaceIs
<1>6. /\ Answer(inQueue[n]) \in given'
      /\ Answer(inQueue[n]).isReply => Answer(inQueue[n]) \notin given
      /\ Final(Answer(inQueue[n]))
      /\ Answer(inQueue[n]) \in Messages /\ Key(Answer(inQueue[n])) = inQueue[n].key
    BY <1>4, WaitReturnsIs
<1>7. AnswersTo(Answer(inQueue[n]), nr)
    <2>1. Key(Answer(inQueue[n])) = <<TRUE, nr, dest[nr]>>
        BY <1>5, <1>6 DEF KeyFor
    <2> QED BY <2>1 DEF Key, AnswersTo
<1> QED BY <1>4, <1>6, <1>7 DEF AnswersTo

\* The messages that were asked for and their answers correspond.
LEMMA WaitAnswersEach ==
    ASSUME ShellInv, WaitReturns, asked # {}
    PROVE  /\ \A nr \in asked : \E m \in given' \ given : AnswersTo(m, nr) /\ Final(m)
           /\ Cardinality(given' \ given) = Cardinality(asked)
<1>1. \A nr \in asked :
          /\ Answer(inQueue[Place(inQueue, KeyFor(nr))]) \in given' \ given
          /\ AnswersTo(Answer(inQueue[Place(inQueue, KeyFor(nr))]), nr)
          /\ Final(Answer(inQueue[Place(inQueue, KeyFor(nr))]))
    BY AnswerFor
<1>2. ASSUME NEW x \in given' \ given
      PROVE  \E nr \in asked : x = Answer(inQueue[Place(inQueue, KeyFor(nr))])
    <2>1. PICK n \in Found(inQueue, asked) : x = Answer(inQueue[n])
        BY <1>2, WaitReturnsIs
    <2>2. \E nr \in asked : n = Place(inQueue, KeyFor(nr))
        <3> DEFINE All == {Place(inQueue, KeyFor(s)) : s \in asked}
        <3>1. Found(inQueue, asked) = IF \A k \in All : k # 0 /\ Complete(inQueue[k]) THEN All ELSE {}
            BY DEF Found
        <3>2. n \in All
            BY <3>1
        <3> QED BY <3>2
    <2> QED BY <2>1, <2>2
<1>3. PICK new : new = given' \ given
    OBVIOUS
<1>4. PICK f : f = [nr \in asked |-> Answer(inQueue[Place(inQueue, KeyFor(nr))])]
    OBVIOUS
<1>5. f \in Bijection(asked, new)
    <2>1. f \in [asked -> new]
        BY <1>1, <1>3, <1>4
    <2>2. ASSUME NEW a \in asked, NEW b \in asked, f[a] = f[b]
          PROVE  a = b
        <3>1. AnswersTo(f[a], a) /\ AnswersTo(f[b], b)
            BY <1>1, <1>4
        <3> QED BY <2>2, <3>1 DEF AnswersTo
    <2>3. \A x \in new : \E nr \in asked : f[nr] = x
        BY <1>2, <1>3, <1>4
    <2>4. f \in Injection(asked, new)
        BY <2>1, <2>2 DEF Injection, IsInjective
    <2>5. f \in Surjection(asked, new)
        BY <2>1, <2>3 DEF Surjection
    <2> QED BY <2>4, <2>5 DEF Bijection
<1>6. IsFiniteSet(asked)
    <2>1. asked \subseteq 1 .. Len(dest) /\ Len(dest) \in Nat
        BY DEF ShellInv, ShellTypes
    <2>2. IsFiniteSet(1 .. Len(dest))
        BY <2>1, FS_Interval
    <2> QED BY <2>1, <2>2, FS_Subset
<1>7. Cardinality(new) = Cardinality(asked)
    <2>1. ExistsBijection(asked, new)
        BY <1>5 DEF ExistsBijection
    <2> QED BY <1>6, <2>1, FS_Bijection
<1> QED BY <1>1, <1>3, <1>7

\* A wait that ends for the time has something to wait for.
LEMMA WaitLacksOne ==
    ASSUME ShellInv, WaitFindsNothing,
           NEW here, here = {m \in Held \cup ToSet(clientQueue) : m \notin given /\ Final(m)}
    PROVE  IF asked = {} THEN here = {}
           ELSE \E nr \in asked : ~ \E m \in here : AnswersTo(m, nr)
<1>1. Found(inQueue, asked) = {} /\ clientQueue = <<>>
    BY DEF WaitFindsNothing
<1>2. Filed(inQueue) /\ inQueue \in Seq(Entry)
    BY DEF ShellInv, ShellTypes, Filed
<1>3. \A m \in here : \E i \in 1 .. Len(inQueue) : Holds(inQueue[i], m) /\ Complete(inQueue[i])
    <2>1. ToSet(clientQueue) = {}
        BY <1>1 DEF ToSet
    <2>2. \A m \in here : m \in Held /\ Final(m)
        BY <2>1
    <2>3. \A m \in here : \E i \in 1 .. Len(inQueue) : Holds(inQueue[i], m)
        BY <1>2, <2>2, HeldIs
    <2> QED BY <1>2, <2>2, <2>3, FinalCompletes
<1>4. CASE asked = {}
    <2>1. PICK n : n = SelectInSeq(inQueue, Complete)
        OBVIOUS
    <2>2. n = 0
        BY <1>1, <1>4, <2>1 DEF Found
    <2>3. \A i \in 1 .. Len(inQueue) : ~Complete(inQueue[i])
        BY <1>2, <2>1, <2>2, FirstComplete
    <2> QED BY <1>3, <1>4, <2>3
<1>5. CASE asked # {}
    <2> DEFINE All == {Place(inQueue, KeyFor(s)) : s \in asked}
    <2>1. Found(inQueue, asked) = IF \A k \in All : k # 0 /\ Complete(inQueue[k]) THEN All ELSE {}
        BY <1>5 DEF Found
    <2>2. All # {}
        BY <1>5
    <2>3. PICK nr \in asked :
              \/ Place(inQueue, KeyFor(nr)) = 0
              \/ ~Complete(inQueue[Place(inQueue, KeyFor(nr))])
        BY <1>1, <2>1, <2>2
    <2>4. PICK n : n = Place(inQueue, KeyFor(nr))
        OBVIOUS
    <2>5. /\ n \in 0 .. Len(inQueue)
          /\ n = 0 => \A i \in 1 .. Len(inQueue) : inQueue[i].key # KeyFor(nr)
          /\ n # 0 => inQueue[n].key = KeyFor(nr)
        BY <1>2, <2>4, PlaceIs
    <2>6. ASSUME NEW m \in here, AnswersTo(m, nr)
          PROVE  FALSE
        <3>1. PICK i \in 1 .. Len(inQueue) : Holds(inQueue[i], m) /\ Complete(inQueue[i])
            BY <1>3
        <3>2. m \in Messages /\ Key(m) = inQueue[i].key
            BY <3>1, SameEntry
        <3>3. Key(m) = KeyFor(nr)
            BY <2>6, <3>2 DEF AnswersTo, Key, KeyFor, Messages
        <3>4. n # 0 /\ inQueue[n].key = inQueue[i].key
            BY <2>5, <3>2, <3>3
        <3>5. n = i
            BY <1>2, <2>5, <3>4 DEF Filed
        <3> QED BY <2>3, <2>4, <3>1, <3>4, <3>5
    <2> QED BY <1>5, <2>6
<1> QED BY <1>4, <1>5

\* A wait ends in three ways only.
LEMMA StepKeepsWord ==
    ShellInv /\ [ShellNext]_shellVars =>
        [(control # "prompt" /\ control' = "prompt") => EndsWell]_shellVars
<1> SUFFICES ASSUME ShellInv, ShellNext, control # "prompt", control' = "prompt"
             PROVE  EndsWell
    OBVIOUS
<1>1. CASE WaitReturns
    <2>1. outcome' = "answers"
        BY <1>1 DEF WaitReturns
    <2> QED BY <1>1, <2>1, WaitAnswersEach DEF EndsWell
<1>2. CASE WaitFindsNothing
    <2>1. outcome' = "timeout"
        BY <1>2 DEF WaitFindsNothing
    <2>2. PICK here : here = {m \in Held \cup ToSet(clientQueue) : m \notin given /\ Final(m)}
        OBVIOUS
    <2>3. IF asked = {} THEN here = {}
          ELSE \E nr \in asked : ~ \E m \in here : AnswersTo(m, nr)
        BY <1>2, <2>2, WaitLacksOne
    <2> QED BY <2>1, <2>2, <2>3 DEF EndsWell
<1>3. CASE ParseMessage
    <2>1. outcome' = "raised"
        BY <1>3 DEF ParseMessage
    <2> QED BY <2>1 DEF EndsWell
<1>4. CASE ~WaitReturns /\ ~WaitFindsNothing /\ ~ParseMessage
    <2>1. control' = control \/ control = "prompt" \/ control' \in {"listen", "parse"}
        BY <1>4 DEF ShellNext, PeerAnswers, PeerSends, ConnectionLost, Connect, Disconnect,
                    IsConnected, Send, AckOrReply, WaitStarts, WaitHasMessages, WaitListens, waitVars
    <2> QED BY <2>1
<1> QED BY <1>1, <1>2, <1>3, <1>4

(* A wait for messages ends with one new and final answer to each of them, and a wait ends *)
(* for the time only when something it was called for had not arrived (DcpShell.wait(),    *)
(* Client::waitForReadyRead()).                                                            *)
THEOREM WaitsKeepTheirWord == ShellSpec => WaitKeepsItsWord
BY ShellStaysWell, StepKeepsWord, PTL DEF ShellSpec, WaitKeepsItsWord

-----------------------------------------------------------------------------
(* Lines and copies are counted.                                             *)

\* The copies of one line, and how many of the first l lines have text.
fan == Len(Destinations)
UpTo(l) == {i \in Texts : i <= l}
Count(l) == Cardinality(UpTo(l))

LEMMA FanType == fan \in Nat /\ DOMAIN Destinations = 1 .. fan
BY SendAssumption DEF SendAssumption, fan

(* A prefix of the lines has finitely many with text.                        *)
LEMMA CountType ==
    ASSUME input \in Seq(BOOLEAN), NEW l \in Nat
    PROVE  /\ IsFiniteSet(Texts) /\ IsFiniteSet(UpTo(l))
           /\ Count(l) \in Nat /\ Cardinality(Texts) \in Nat
           /\ Count(l) <= Cardinality(Texts)
<1>1. Len(input) \in Nat /\ DOMAIN input = 1 .. Len(input)
    OBVIOUS
<1>2. PICK n \in Nat : n = Len(input)
    BY <1>1
<1>3. IsFiniteSet(1 .. n)
    BY <1>2, FS_Interval
<1>4. Texts \subseteq 1 .. n /\ UpTo(l) \subseteq Texts
    BY <1>1, <1>2 DEF Texts, UpTo
<1>5. IsFiniteSet(Texts)
    BY <1>3, <1>4, FS_Subset
<1>6. IsFiniteSet(UpTo(l)) /\ Cardinality(UpTo(l)) <= Cardinality(Texts)
    BY <1>4, <1>5, FS_Subset
<1> QED BY <1>5, <1>6, FS_CardinalityType DEF Count

(* One more line counts if it has text.                                      *)
LEMMA CountNext ==
    ASSUME input \in Seq(BOOLEAN), NEW l \in Nat
    PROVE  /\ l + 1 \in Texts => Count(l + 1) = Count(l) + 1
           /\ l + 1 \notin Texts => Count(l + 1) = Count(l)
<1>1. \A i \in Texts : i \in Nat
    BY DEF Texts
<1>2. CASE l + 1 \in Texts
    <2>1. UpTo(l + 1) = UpTo(l) \cup {l + 1} /\ l + 1 \notin UpTo(l)
        BY <1>1, <1>2 DEF UpTo
    <2>2. Cardinality(UpTo(l) \cup {l + 1}) = Cardinality(UpTo(l)) + 1
        BY <2>1, CountType, FS_AddElement
    <2> QED BY <1>2, <2>1, <2>2 DEF Count
<1>3. CASE l + 1 \notin Texts
    <2>1. UpTo(l + 1) = UpTo(l)
        BY <1>1, <1>3 DEF UpTo
    <2> QED BY <1>3, <2>1 DEF Count
<1> QED BY <1>2, <1>3

(* No line has text before the first, and all that have are up to the last.  *)
LEMMA CountEnds ==
    ASSUME input \in Seq(BOOLEAN)
    PROVE  Count(0) = 0 /\ Count(Len(input)) = Cardinality(Texts)
<1>1. \A i \in Texts : i \in Nat /\ 1 <= i /\ i <= Len(input)
    BY DEF Texts
<1>2. UpTo(0) = {} /\ UpTo(Len(input)) = Texts
    BY <1>1 DEF UpTo
<1> QED BY <1>2, FS_EmptySet DEF Count

(* Later lines with text have larger numbers.                                *)
LEMMA CountRises ==
    ASSUME input \in Seq(BOOLEAN), NEW i \in Texts, NEW j \in Texts, i < j
    PROVE  Count(i) < Count(j)
<1>1. \A k \in Texts : k \in Nat
    BY DEF Texts
<1>2. UpTo(i) \subseteq UpTo(j) /\ j \in UpTo(j) /\ j \notin UpTo(i)
    BY <1>1 DEF UpTo
<1>3. IsFiniteSet(UpTo(j))
    BY <1>1, CountType
<1>4. Cardinality(UpTo(i)) <= Cardinality(UpTo(j))
      /\ (Cardinality(UpTo(i)) = Cardinality(UpTo(j)) => UpTo(i) = UpTo(j))
    BY <1>2, <1>3, FS_Subset
<1>5. Count(i) \in Nat /\ Count(j) \in Nat
    BY <1>1, CountType
<1> QED BY <1>2, <1>4, <1>5 DEF Count

LEMMA TextLineIs ==
    ASSUME input \in Seq(BOOLEAN), NEW i \in Texts
    PROVE  TextLine(Count(i)) = i
<1>1. \A j \in Texts : j \in Nat /\ Count(j) = Cardinality({k \in Texts : k <= j})
    BY DEF Count, UpTo, Texts
<1>2. ASSUME NEW j \in Texts, Count(j) = Count(i)
      PROVE  j = i
    <2>1. Count(i) \in Nat
        BY <1>1, CountType
    <2>2. ~(j < i) /\ ~(i < j)
        <3>1. ~(Count(j) < Count(i)) /\ ~(Count(i) < Count(j))
            BY <1>2, <2>1
        <3> QED BY <3>1, CountRises, Zenon
    <2>3. i \in Nat /\ j \in Nat
        BY <1>1, Zenon
    <2> QED BY <2>2, <2>3
<1>3. \A j \in Texts : Cardinality({k \in Texts : k <= j}) = Count(i) <=> j = i
    BY <1>1, <1>2
<1> QED BY <1>3, Zenon DEF TextLine

(* What is to be sent as the i-th copy after c lines with text.              *)
LEMMA DivideCopies ==
    ASSUME NEW c \in Nat, NEW f \in Nat, NEW i \in 1 .. f
    PROVE  /\ (c * f + i - 1) \div f = c
           /\ (c * f + i - 1) % f = i - 1
<1>1. PICK r \in Nat : r = i - 1 /\ r < f
    OBVIOUS
<1>2. PICK p \in Nat : p = c * f
    OBVIOUS
<1>3. c * f + i - 1 = p + r
    BY <1>1, <1>2
<1>4. (p + r) \div f = c /\ (p + r) % f = r
    BY <1>1, <1>2
<1> QED BY <1>1, <1>3, <1>4

-----------------------------------------------------------------------------
(* Sequences by their elements.                                              *)

LEMMA FirstAreAlike ==
    ASSUME NEW S, NEW s \in Seq(S), NEW t \in Seq(S), Len(s) <= Len(t),
           \A i \in 1 .. Len(s) : s[i] = t[i]
    PROVE  IsPrefix(s, t)
<1>1. Len(s) \in Nat /\ Len(t) \in Nat
    OBVIOUS
<1>2. PICK n \in Nat : n = Len(s)
    BY <1>1
<1>3. PICK part : part = SubSeq(t, 1, n)
    OBVIOUS
<1>4. PICK same : same = SubSeq(s, 1, n)
    OBVIOUS
<1>5. part \in Seq(S) /\ Len(part) = n /\ \A i \in 1 .. n : part[i] = t[i]
    <2>1. n <= Len(t) /\ 1 \in Int /\ n \in Int /\ \A i \in 1 .. n : t[i] \in S
        BY <1>1, <1>2
    <2>2. /\ SubSeq(t, 1, n) \in Seq(S)
          /\ Len(SubSeq(t, 1, n)) = IF 1 <= n THEN n - 1 + 1 ELSE 0
          /\ \A i \in 1 .. n - 1 + 1 : SubSeq(t, 1, n)[i] = t[1 + i - 1]
        BY <2>1, SubSeqProperties
    <2>3. /\ part \in Seq(S)
          /\ Len(part) = IF 1 <= n THEN n - 1 + 1 ELSE 0
          /\ \A i \in 1 .. n - 1 + 1 : part[i] = t[1 + i - 1]
        BY <1>3, <2>2, Zenon
    <2> QED BY <2>3
<1>6. same = s
    BY <1>2, <1>4, SubSeqFull
<1>7. part = s
    BY <1>2, <1>5, SeqEqual
<1> QED BY <1>2, <1>3, <1>4, <1>6, <1>7 DEF IsPrefix

-----------------------------------------------------------------------------
(* The invariant. What the hub was sent and what the socket holds are the    *)
(* beginning of what is to be sent, as far as lines were read, while the     *)
(* connection is up; when it was lost, what was sent is a beginning.         *)
All == <<Registration>> \o Wanted
Total == Cardinality(Texts) * fan
Sent == {All[i] : i \in 1 .. 1 + Total}

SendTypes ==
    /\ input \in Seq(BOOLEAN)
    /\ line \in 0 .. Len(input)
    /\ snr = Count(line) * fan
    /\ wire \in Seq(Sent) /\ buffer \in Seq(Sent)

InOrder ==
    /\ Len(wire) <= 1 + Total
    /\ \A i \in 1 .. Len(wire) : wire[i] = All[i]
    /\ link = "up" =>
           /\ Len(wire) + Len(buffer) = 1 + snr
           /\ \A i \in 1 .. Len(buffer) : buffer[i] = All[Len(wire) + i]

Course ==
    /\ turn = "connect" => link = "none" /\ line = 0
    /\ link = "none" => /\ turn \in {"connect", "ended"} /\ exit # 0
                       /\ wire = <<>> /\ buffer = <<>> /\ ~broken
    /\ link \in {"none", "up", "lost", "down"}
    /\ link = "up" => ~broken
    /\ link = "lost" => broken
    /\ link = "down" => broken \/ turn = "ended"
    /\ turn \in {"linger", "leave"} => line = Len(input)
    /\ (turn = "leave" \/ exit = 0) => clock >= MinConnection
    /\ exit = -1 <=> turn # "ended"
    /\ (exit = 0 /\ ~broken) => Len(wire) = 1 + Total

SendInv == SendTypes /\ InOrder /\ Course

(* What is to be sent: the registration, then the copies of each line.       *)
LEMMA AllIs ==
    ASSUME input \in Seq(BOOLEAN)
    PROVE  /\ Total \in Nat /\ All \in Seq(Sent) /\ Len(All) = 1 + Total
           /\ All[1] = Registration
           /\ \A k \in 1 .. Total : All[1 + k] = Wanted[k]
<1>1. Cardinality(Texts) \in Nat /\ fan \in Nat
    BY CountType, FanType
<1>2. Total \in Nat
    BY <1>1 DEF Total
<1>3. PICK n \in Nat : n = Total
    BY <1>2
<1>4. PICK wanted : wanted = Wanted
    OBVIOUS
<1>5. DOMAIN wanted = 1 .. n
    BY <1>3, <1>4 DEF Wanted, Total, fan
<1>6. PICK S : S = {wanted[k] : k \in 1 .. n} \cup {Registration}
    OBVIOUS
<1>7. wanted \in Seq(S) /\ Len(wanted) = n
    <2>1. wanted = [k \in 1 .. n |-> wanted[k]]
        BY <1>4, <1>5 DEF Wanted
    <2>2. \A k \in 1 .. n : wanted[k] \in S
        BY <1>6
    <2> QED BY <1>3, <2>1, <2>2
<1>8. PICK first : first = <<Registration>>
    OBVIOUS
<1>9. first \in Seq(S) /\ Len(first) = 1 /\ first[1] = Registration
    BY <1>6, <1>8
<1>10. PICK all : all = first \o wanted
    OBVIOUS
<1>11. /\ all \in Seq(S) /\ Len(all) = 1 + n
       /\ all[1] = Registration
       /\ \A k \in 1 .. n : all[1 + k] = wanted[k]
    <2>1. /\ all \in Seq(S) /\ Len(all) = Len(first) + Len(wanted)
          /\ \A i \in 1 .. Len(first) : all[i] = first[i]
          /\ \A i \in 1 .. Len(wanted) : all[Len(first) + i] = wanted[i]
        <3>1. wanted \in Seq(S) /\ first \in Seq(S)
            BY <1>7, <1>9, Zenon
        <3> QED BY <1>10, <3>1, Joined
    <2>2. 1 \in 1 .. Len(first)
        BY <1>9
    <2> QED BY <1>7, <1>9, <2>1, <2>2
<1>12. all = All
    BY <1>4, <1>8, <1>10 DEF All
<1>13. all \in Seq({all[i] : i \in 1 .. 1 + n})
    <2>1. Len(all) \in Nat /\ all = [i \in 1 .. Len(all) |-> all[i]]
        BY <1>11
    <2>2. \A i \in 1 .. Len(all) : all[i] \in {all[j] : j \in 1 .. 1 + n}
        BY <1>11
    <2> QED BY <2>1, <2>2
<1>14. Sent = {all[i] : i \in 1 .. 1 + n}
    BY <1>3, <1>12 DEF Sent
<1> QED BY <1>2, <1>3, <1>4, <1>11, <1>12, <1>13, <1>14

(* The copies of a line are the next of what is to be sent.                  *)
LEMMA CopiesAreNext ==
    ASSUME SendTypes, NEW l \in Nat, l = line + 1, l \in Texts,
           NEW copies, copies = Copies(l, snr)
    PROVE  /\ copies \in Seq(Sent) /\ Len(copies) = fan
           /\ snr \in Nat /\ snr + fan <= Total
           /\ snr + fan = Count(l) * fan
           /\ \A i \in 1 .. fan : copies[i] = All[1 + snr + i]
<1>1. input \in Seq(BOOLEAN) /\ line \in Nat /\ fan \in Nat
    BY FanType DEF SendTypes
<1>2. PICK c \in Nat : c = Count(line)
    BY <1>1, CountType
<1>3. Count(l) = c + 1 /\ c + 1 <= Cardinality(Texts) /\ Cardinality(Texts) \in Nat
    BY <1>1, <1>2, CountNext, CountType
<1>4. snr = c * fan
    BY <1>2 DEF SendTypes
<1>5. snr \in Nat /\ (c + 1) * fan = snr + fan
    BY <1>1, <1>4
<1>6. PICK rest \in Nat : Cardinality(Texts) = (c + 1) + rest
    <2>1. Cardinality(Texts) - (c + 1) \in Nat
        BY <1>3
    <2>2. Cardinality(Texts) = (c + 1) + (Cardinality(Texts) - (c + 1))
        BY <1>3
    <2> QED BY <2>1, <2>2
<1>7. snr + fan <= Total
    <2>1. ((c + 1) + rest) * fan = (c + 1) * fan + rest * fan /\ rest * fan \in Nat
        BY <1>1, <1>6
    <2>2. Total = ((c + 1) + rest) * fan
        BY <1>6, Zenon DEF Total
    <2>3. (c + 1) * fan \in Nat
        BY <1>1
    <2> QED BY <1>5, <2>1, <2>2, <2>3
<1>8. DOMAIN copies = 1 .. fan
    BY FanType DEF Copies
<1>9. ASSUME NEW i \in 1 .. fan
      PROVE  copies[i] = Wanted[snr + i] /\ snr + i \in 1 .. Total
    <2>1. snr + i \in 1 .. Total /\ (snr + i) - 1 = c * fan + i - 1
        <3>1. Total \in Nat
            BY <1>1, AllIs
        <3>2. snr + i \in 1 .. Total
            BY <1>1, <1>5, <1>7, <3>1
        <3> QED BY <1>4, <3>2
    <2>2. ((snr + i) - 1) \div fan = c /\ ((snr + i) - 1) % fan = i - 1
        BY <1>1, <2>1, DivideCopies
    <2>3. Wanted[snr + i] = [snr |-> snr + i,
                             line |-> TextLine((((snr + i) - 1) \div fan) + 1),
                             to |-> Destinations[(((snr + i) - 1) % fan) + 1]]
        BY <2>1 DEF Wanted, Total, fan
    <2>4. TextLine(c + 1) = l /\ (i - 1) + 1 = i
        BY <1>1, <1>3, TextLineIs
    <2>5. Wanted[snr + i] = [snr |-> snr + i, line |-> l, to |-> Destinations[i]]
        BY <2>2, <2>3, <2>4, Zenon
    <2>6. copies[i] = [snr |-> snr + i, line |-> l, to |-> Destinations[i]]
        BY FanType DEF Copies
    <2> QED BY <2>1, <2>5, <2>6, Zenon
<1>10. ASSUME NEW i \in 1 .. fan
       PROVE  copies[i] = All[1 + snr + i] /\ 1 + snr + i \in 1 .. 1 + Total
    <2>1. All[1 + (snr + i)] = Wanted[snr + i]
        BY <1>1, <1>9, AllIs
    <2>2. 1 + (snr + i) = 1 + snr + i /\ Total \in Nat
        BY <1>1, <1>5, AllIs
    <2> QED BY <1>9, <2>1, <2>2
<1>11. \A i \in 1 .. fan : copies[i] \in Sent
    BY <1>10, Zenon DEF Sent
<1>12. copies \in Seq(Sent) /\ Len(copies) = fan
    <2>1. copies = [i \in 1 .. fan |-> copies[i]]
        BY <1>8 DEF Copies
    <2> QED BY <1>1, <1>11, <2>1
<1> QED BY <1>3, <1>5, <1>7, <1>10, <1>12

-----------------------------------------------------------------------------
(* The steps.                                                                *)

(* What is to be sent is settled with the input.                             *)
LEMMA AllStays ==
    ASSUME input' = input
    PROVE  Texts' = Texts /\ Total' = Total /\ All' = All /\ Sent' = Sent
<1>1. Texts' = Texts
    BY DEF Texts
<1>2. Total' = Total /\ Wanted' = Wanted
    BY <1>1, Zenon DEF Total, Wanted, TextLine, fan
<1>3. All' = All
    BY <1>2, Zenon DEF All, Registration
<1> QED BY <1>1, <1>2, <1>3, Zenon DEF Sent

LEMMA InitSend == SendInit => SendInv
<1> SUFFICES ASSUME SendInit PROVE SendInv
    OBVIOUS
<1>1. input \in Seq(BOOLEAN)
    BY SendAssumption DEF SendInit, SendAssumption
<1>2. Total \in Nat
    BY <1>1, AllIs
<1>3. SendTypes
    BY <1>1, CountEnds, FanType DEF SendInit, SendTypes
<1>4. InOrder
    BY <1>2 DEF SendInit, InOrder
<1>5. Course
    BY DEF SendInit, Course
<1> QED BY <1>3, <1>4, <1>5 DEF SendInv

(* The last message is one of those to be sent.                              *)
LEMMA NumberInBounds ==
    ASSUME SendTypes
    PROVE  snr \in Nat /\ snr <= Total
<1>1. line \in Nat /\ fan \in Nat
    BY FanType DEF SendTypes
<1>2. PICK c \in Nat : c = Count(line) /\ c <= Cardinality(Texts) /\ Cardinality(Texts) \in Nat
    BY <1>1, CountType DEF SendTypes
<1>3. PICK rest \in Nat : Cardinality(Texts) = c + rest
    <2>1. Cardinality(Texts) - c \in Nat /\ Cardinality(Texts) = c + (Cardinality(Texts) - c)
        BY <1>2
    <2> QED BY <2>1
<1>4. snr = c * fan /\ Total = (c + rest) * fan
    BY <1>2, <1>3, Zenon DEF SendTypes, Total
<1>5. (c + rest) * fan = c * fan + rest * fan /\ rest * fan \in Nat /\ c * fan \in Nat
    BY <1>1
<1> QED BY <1>4, <1>5

(* Steps that read no line and leave input and number alone.                 *)
LEMMA LineStays ==
    ASSUME SendTypes, UNCHANGED <<input, line, snr>>,
           wire' \in Seq(Sent), buffer' \in Seq(Sent)
    PROVE  SendTypes'
<1>1. Texts' = Texts /\ Sent' = Sent
    BY AllStays
<1>2. Count(line)' = Count(line)
    BY <1>1, Zenon DEF Count, UpTo
<1> QED BY <1>1, <1>2, Zenon DEF SendTypes, fan

(* A wait writes the first n messages of the buffer.                         *)
LEMMA FlushKeeps ==
    ASSUME SendTypes, InOrder, NEW n \in 0 .. Len(buffer), Flushes(n),
           UNCHANGED <<input, line, snr>>
    PROVE  /\ SendTypes'
           /\ link' = link \/ link' = "down" => InOrder'
           /\ link = "up" => Len(wire') = Len(wire) + n
           /\ link # "up" => wire' = wire
<1>1. PICK first, rest : first = SubSeq(buffer, 1, n) /\ rest = SubSeq(buffer, n + 1, Len(buffer))
    OBVIOUS
<1>2. /\ first \in Seq(Sent) /\ Len(first) = n
      /\ \A i \in 1 .. n : first[i] = buffer[i]
      /\ rest \in Seq(Sent) /\ Len(rest) = Len(buffer) - n
      /\ \A i \in 1 .. Len(rest) : rest[i] = buffer[n + i]
    BY <1>1, Divided DEF SendTypes
<1>3. buffer' = rest /\ wire' = IF link = "up" THEN wire \o first ELSE wire
    BY <1>1, Zenon DEF Flushes
<1>4. wire \in Seq(Sent) /\ buffer \in Seq(Sent) /\ Len(wire) \in Nat /\ Len(buffer) \in Nat
    BY DEF SendTypes
<1>5. PICK all : all = wire \o first
    OBVIOUS
<1>6. /\ all \in Seq(Sent) /\ Len(all) = Len(wire) + n
      /\ \A i \in 1 .. Len(wire) : all[i] = wire[i]
      /\ \A i \in 1 .. n : all[Len(wire) + i] = first[i]
    <2>1. /\ all \in Seq(Sent) /\ Len(all) = Len(wire) + Len(first)
          /\ \A i \in 1 .. Len(wire) : all[i] = wire[i]
          /\ \A i \in 1 .. Len(first) : all[Len(wire) + i] = first[i]
        <3>1. wire \in Seq(Sent) /\ first \in Seq(Sent)
            BY <1>2, <1>4, Zenon
        <3> QED BY <1>5, <3>1, Joined
    <2> QED BY <1>2, <2>1, Zenon
<1>7. wire' = IF link = "up" THEN all ELSE wire
    BY <1>3, <1>5
<1>8. SendTypes'
    BY <1>2, <1>3, <1>4, <1>6, <1>7, LineStays
<1>9. Total' = Total /\ All' = All /\ Total \in Nat
    BY AllStays, AllIs DEF SendTypes
<1>10. ASSUME link = "up"
       PROVE  /\ Len(all) <= 1 + Total
              /\ \A i \in 1 .. Len(all) : all[i] = All[i]
              /\ Len(all) + Len(rest) = 1 + snr
              /\ \A i \in 1 .. Len(rest) : rest[i] = All[Len(all) + i]
    <2>1. /\ Len(wire) + Len(buffer) = 1 + snr
          /\ \A i \in 1 .. Len(buffer) : buffer[i] = All[Len(wire) + i]
          /\ \A i \in 1 .. Len(wire) : wire[i] = All[i]
        BY <1>10 DEF InOrder
    <2>2. snr \in Nat /\ snr <= Total
        BY NumberInBounds
    <2>3. Len(all) + Len(rest) = 1 + snr /\ Len(all) <= 1 + Total
        BY <1>2, <1>4, <1>6, <1>9, <2>1, <2>2
    <2>4. ASSUME NEW i \in 1 .. Len(all)
          PROVE  all[i] = All[i]
        <3>1. CASE i \in 1 .. Len(wire)
            BY <1>6, <2>1, <3>1
        <3>2. CASE i \notin 1 .. Len(wire)
            <4>1. PICK j \in 1 .. n : i = Len(wire) + j
                <5>1. i - Len(wire) \in 1 .. n /\ i = Len(wire) + (i - Len(wire))
                    BY <1>4, <1>6, <3>2
                <5> QED BY <5>1
            <4>2. j \in 1 .. Len(buffer)
                BY <1>4
            <4> QED BY <1>2, <1>6, <2>1, <4>1, <4>2
        <3> QED BY <3>1, <3>2
    <2>5. ASSUME NEW i \in 1 .. Len(rest)
          PROVE  rest[i] = All[Len(all) + i]
        <3>1. n + i \in 1 .. Len(buffer) /\ Len(wire) + (n + i) = Len(all) + i
            BY <1>2, <1>4, <1>6
        <3> QED BY <1>2, <2>1, <3>1
    <2> QED BY <2>3, <2>4, <2>5
<1>11. ASSUME link' = link \/ link' = "down"
       PROVE  InOrder'
    <2>1. CASE link = "up"
        <3>1. wire' = all /\ buffer' = rest /\ snr' = snr
            BY <1>3, <1>7, <2>1
        <3> QED BY <1>9, <1>10, <2>1, <3>1 DEF InOrder
    <2>2. CASE link # "up"
        <3>1. wire' = wire /\ link' # "up"
            BY <1>7, <1>11, <2>2
        <3> QED BY <1>9, <3>1 DEF InOrder
    <2> QED BY <2>1, <2>2
<1> QED BY <1>6, <1>7, <1>8, <1>11

LEMMA ConnectKeeps == ASSUME SendInv, ConnectFirst PROVE SendInv'
<1>1. /\ UNCHANGED <<input, line, snr, buffer, clock, broken>>
      /\ turn = "connect" /\ link = "none" /\ line = 0 /\ exit = -1
      /\ wire = <<>> /\ buffer = <<>> /\ ~broken
    BY DEF ConnectFirst, SendInv, Course
<1>2. input \in Seq(BOOLEAN) /\ wire \in Seq(Sent) /\ buffer \in Seq(Sent)
    BY DEF SendInv, SendTypes
<1>3. /\ Total' = Total /\ All' = All /\ Total \in Nat
      /\ All \in Seq(Sent) /\ Len(All) = 1 + Total /\ All[1] = Registration
    BY <1>1, <1>2, AllStays, AllIs
<1>4. snr = 0
    BY <1>1, <1>2, CountEnds, FanType DEF SendInv, SendTypes
<1>5. CASE link' = "up" /\ wire' = <<Registration>> /\ turn' = "read" /\ UNCHANGED exit
    <2>1. PICK w : w = <<Registration>>
        OBVIOUS
    <2>2. Len(w) = 1 /\ w[1] = All[1] /\ w \in Seq(Sent)
        <3>1. All[1] \in Sent
            BY <1>3
        <3> QED BY <1>3, <2>1, <3>1
    <2>3. wire' = w /\ buffer' = <<>>
        BY <1>1, <1>5, <2>1
    <2>4. SendTypes'
        BY <1>1, <1>2, <2>2, <2>3, LineStays DEF SendInv
    <2>5. InOrder'
        <3>1. /\ Len(w) = 1 /\ \A i \in 1 .. Len(w) : w[i] = All[i]
            BY <2>2
        <3>2. link' = "up" /\ snr' = 0 /\ Len(<<>>) = 0
            BY <1>1, <1>4, <1>5
        <3>3. Len(w) <= 1 + Total
            BY <1>3, <3>1
        <3>4. Len(w) + Len(<<>>) = 1 + 0 /\ \A i \in 1 .. Len(<<>>) : <<>>[i] = All[Len(w) + i]
            BY <3>1
        <3> QED BY <1>3, <2>3, <3>1, <3>2, <3>3, <3>4 DEF InOrder
    <2>6. Course'
        BY <1>1, <1>5 DEF Course
    <2> QED BY <2>4, <2>5, <2>6 DEF SendInv
<1>6. CASE Exits(1) /\ UNCHANGED <<link, wire>>
    <2>1. turn' = "ended" /\ exit' = 1 /\ link' = "none" /\ wire' = <<>> /\ buffer' = <<>>
        BY <1>1, <1>6 DEF Exits
    <2>2. SendTypes'
        BY <1>1, <1>2, <2>1, LineStays DEF SendInv
    <2>3. InOrder'
        BY <1>3, <2>1 DEF InOrder
    <2>4. Course'
        BY <1>1, <2>1 DEF Course
    <2> QED BY <2>2, <2>3, <2>4 DEF SendInv
<1> QED BY <1>5, <1>6 DEF ConnectFirst

LEMMA ReadLineKeeps == ASSUME SendInv, ReadLine PROVE SendInv'
<1>1. /\ UNCHANGED <<input, link, wire, clock, exit, broken>>
      /\ turn = "read" /\ line < Len(input) /\ line' = line + 1
    BY DEF ReadLine
<1>2. /\ input \in Seq(BOOLEAN) /\ wire \in Seq(Sent) /\ buffer \in Seq(Sent)
      /\ snr = Count(line) * fan /\ line \in Nat /\ Len(input) \in Nat
    BY DEF SendInv, SendTypes
<1>3. Texts' = Texts /\ Total' = Total /\ All' = All /\ Sent' = Sent
    BY <1>1, AllStays
<1>4. \A l : Count(l)' = Count(l)
    BY <1>3, Zenon DEF Count, UpTo
<1>5. line' \in 0 .. Len(input') /\ line' \in DOMAIN input
    BY <1>1, <1>2
<1>6. CASE ~input[line']
    <2>1. turn' = "drain" /\ UNCHANGED <<buffer, snr>>
        BY <1>6 DEF ReadLine
    <2>2. line + 1 \notin Texts
        BY <1>1, <1>6 DEF Texts
    <2>3. Count(line') = Count(line)
        BY <1>1, <1>2, <2>2, CountNext
    <2>4. snr' = (Count(line) * fan)'
        BY <1>2, <1>4, <2>1, <2>3 DEF fan
    <2>5. SendTypes'
        BY <1>1, <1>2, <1>3, <1>5, <2>1, <2>4 DEF SendTypes
    <2>6. InOrder'
        BY <1>1, <1>3, <2>1 DEF SendInv, InOrder
    <2>7. Course'
        BY <1>1, <1>3, <2>1 DEF SendInv, Course
    <2> QED BY <2>5, <2>6, <2>7 DEF SendInv
<1>7. CASE input[line']
    <2>1. PICK copies : copies = Copies(line', snr)
        OBVIOUS
    <2>2. turn' = "write" /\ snr' = snr + fan
          /\ buffer' = IF link = "down" THEN buffer ELSE buffer \o copies
        BY <1>7, <2>1 DEF ReadLine, Written, fan
    <2>3. line' \in Texts /\ line' \in Nat
        BY <1>2, <1>5, <1>7 DEF Texts
    <2>4. /\ copies \in Seq(Sent) /\ Len(copies) = fan
          /\ snr \in Nat /\ snr + fan <= Total
          /\ snr + fan = Count(line') * fan
          /\ \A i \in 1 .. fan : copies[i] = All[1 + snr + i]
        BY <1>1, <2>1, <2>3, CopiesAreNext DEF SendInv
    <2>5. PICK all : all = buffer \o copies
        OBVIOUS
    <2>6. /\ all \in Seq(Sent) /\ Len(all) = Len(buffer) + fan
          /\ \A i \in 1 .. Len(buffer) : all[i] = buffer[i]
          /\ \A i \in 1 .. fan : all[Len(buffer) + i] = copies[i]
        <3>1. /\ all \in Seq(Sent) /\ Len(all) = Len(buffer) + Len(copies)
              /\ \A i \in 1 .. Len(buffer) : all[i] = buffer[i]
              /\ \A i \in 1 .. Len(copies) : all[Len(buffer) + i] = copies[i]
            <4>1. buffer \in Seq(Sent) /\ copies \in Seq(Sent)
                BY <1>2, <2>4, Zenon
            <4> QED BY <2>5, <4>1, Joined
        <3> QED BY <2>4, <3>1, Zenon
    <2>7. buffer' = IF link = "down" THEN buffer ELSE all
        BY <2>2, <2>5
    <2>8. snr' = (Count(line) * fan)'
        BY <1>4, <2>2, <2>4 DEF fan
    <2>9. SendTypes'
        BY <1>1, <1>2, <1>3, <1>5, <2>6, <2>7, <2>8 DEF SendTypes
    <2>10. InOrder'
        <3>1. CASE link = "up"
            <4>1. /\ Len(wire) + Len(buffer) = 1 + snr
                  /\ \A i \in 1 .. Len(buffer) : buffer[i] = All[Len(wire) + i]
                  /\ Len(wire) \in Nat /\ Len(buffer) \in Nat /\ fan \in Nat
                BY <1>2, <3>1, FanType DEF SendInv, InOrder
            <4>2. Len(wire) + Len(all) = 1 + (snr + fan)
                BY <2>4, <2>6, <4>1
            <4>3. ASSUME NEW i \in 1 .. Len(all)
                  PROVE  all[i] = All[Len(wire) + i]
                <5>1. CASE i \in 1 .. Len(buffer)
                    BY <2>6, <4>1, <5>1
                <5>2. CASE i \notin 1 .. Len(buffer)
                    <6>1. PICK j \in 1 .. fan : i = Len(buffer) + j
                        <7>1. i - Len(buffer) \in 1 .. fan /\ i = Len(buffer) + (i - Len(buffer))
                            BY <2>6, <4>1, <5>2
                        <7> QED BY <7>1
                    <6>2. 1 + snr + j = Len(wire) + i
                        <7>1. /\ Len(wire) + Len(buffer) = 1 + snr /\ snr \in Nat /\ j \in Nat
                              /\ Len(wire) \in Nat /\ Len(buffer) \in Nat /\ i = Len(buffer) + j
                            BY <2>4, <4>1, <6>1
                        <7>2. \A a, b, c, d, e \in Nat : a + b = 1 + c => 1 + c + d = a + (b + d)
                            OBVIOUS
                        <7> QED BY <7>1, <7>2
                    <6> QED BY <2>4, <2>6, <6>1, <6>2
                <5> QED BY <5>1, <5>2
            <4>4. wire' = wire /\ buffer' = all /\ snr' = snr + fan
                BY <1>1, <2>2, <2>7, <3>1
            <4>5. Len(wire) <= 1 + Total /\ \A i \in 1 .. Len(wire) : wire[i] = All[i]
                BY DEF SendInv, InOrder
            <4> QED BY <1>3, <4>2, <4>3, <4>4, <4>5 DEF InOrder
        <3>2. CASE link # "up"
            BY <1>1, <1>3, <3>2 DEF SendInv, InOrder
        <3> QED BY <3>1, <3>2
    <2>11. Course'
        <3>1. link # "none"
            BY <1>1 DEF SendInv, Course
        <3> QED BY <1>1, <1>3, <2>2, <3>1 DEF SendInv, Course
    <2> QED BY <2>9, <2>10, <2>11 DEF SendInv
<1> QED BY <1>6, <1>7

(* The socket notices the loss and drops what it holds.                      *)
LEMMA NoticeKeeps ==
    ASSUME SendTypes, InOrder, Notices, UNCHANGED <<input, line, snr>>
    PROVE  SendTypes' /\ InOrder'
<1>1. link' = "down" /\ buffer' = <<>> /\ wire' = wire /\ <<>> \in Seq(Sent)
    BY DEF Notices
<1>2. SendTypes'
    BY <1>1, LineStays DEF SendTypes
<1>3. InOrder'
    BY <1>1, AllStays DEF InOrder
<1> QED BY <1>2, <1>3

(* The waits, with the turn taken after them.                                *)
LEMMA WaitKeeps ==
    ASSUME SendInv, Waits, UNCHANGED <<input, line, snr, exit, broken>>,
           turn \in {"write", "drain", "linger"}, turn' \in {"write", "drain", "read", "linger", "leave"},
           turn' \in {"linger", "leave"} => line = Len(input),
           turn' = "leave" => clock' >= MinConnection
    PROVE  SendInv'
<1>1. link \in {"up", "lost", "down"} /\ exit = -1 /\ exit' = -1
    BY DEF SendInv, Course
<1>2. CASE Notices
    <2>1. link = "lost" /\ link' = "down"
        BY <1>2 DEF Notices
    <2> QED BY <1>1, <1>2, <2>1, NoticeKeeps DEF SendInv, Course
<1>3. CASE \E n \in 0 .. Len(buffer) : Flushes(n) /\ UNCHANGED link
    <2>1. SendTypes' /\ InOrder' /\ link' = link
        BY <1>3, FlushKeeps DEF SendInv
    <2> QED BY <1>1, <2>1 DEF SendInv, Course
<1> QED BY <1>2, <1>3 DEF Waits

LEMMA WriteAllKeeps == ASSUME SendInv, WriteAll PROVE SendInv'
<1>1. turn = "write" /\ UNCHANGED <<input, line, snr, broken>>
    BY DEF WriteAll
<1>2. Len(buffer) \in Nat
    BY DEF SendInv, SendTypes
<1>3. CASE buffer = <<>> /\ turn' = "drain" /\ UNCHANGED <<link, buffer, wire, exit>>
    <2>1. SendTypes'
        BY <1>1, <1>3, LineStays DEF SendInv, SendTypes
    <2>2. InOrder'
        BY <1>1, <1>3, AllStays DEF SendInv, InOrder
    <2>3. Course'
        BY <1>1, <1>3 DEF SendInv, Course
    <2> QED BY <2>1, <2>2, <2>3 DEF SendInv
<1>4. CASE (\E n \in 1 .. Len(buffer) : Flushes(n)) /\ UNCHANGED <<turn, link, exit>>
    <2>1. Waits
        BY <1>2, <1>4 DEF Waits
    <2> QED BY <1>1, <1>4, <2>1, WaitKeeps
<1>5. CASE Exits(1) /\ UNCHANGED <<link, buffer, wire, clock>>
    <2>1. SendTypes'
        BY <1>1, <1>5, LineStays DEF SendInv, SendTypes
    <2>2. InOrder'
        BY <1>1, <1>5, AllStays DEF SendInv, InOrder
    <2>3. Course'
        BY <1>1, <1>5 DEF SendInv, Course, Exits
    <2> QED BY <2>1, <2>2, <2>3 DEF SendInv
<1> QED BY <1>3, <1>4, <1>5 DEF WriteAll

LEMMA LeaveKeeps == ASSUME SendInv, Leave PROVE SendInv'
<1>1. /\ turn = "leave" /\ link' = "down" /\ line = Len(input) /\ exit = -1
      /\ clock >= MinConnection
      /\ UNCHANGED <<input, line, snr, clock, broken>>
    BY DEF Leave, SendInv, Course
<1>2. link # "none" /\ Len(buffer) \in 0 .. Len(buffer)
    BY <1>1 DEF SendInv, SendTypes, Course
<1>3. CASE Flushes(Len(buffer)) /\ Exits(0)
    <2>1. /\ SendTypes' /\ InOrder'
          /\ link = "up" => Len(wire') = Len(wire) + Len(buffer)
        BY <1>1, <1>2, <1>3, FlushKeeps DEF SendInv
    <2>2. link = "up" => Len(wire') = 1 + Total
        <3>1. snr = Total
            BY <1>1, CountEnds, Zenon DEF SendInv, SendTypes, Total
        <3> QED BY <2>1, <3>1 DEF SendInv, InOrder
    <2>3. Total' = Total
        BY <1>1, AllStays
    <2>4. turn' = "ended" /\ exit' = 0
        BY <1>3 DEF Exits
    <2>5. link = "up" \/ broken
        BY <1>1, <1>2 DEF SendInv, Course
    <2>6. Course'
        BY <1>1, <2>2, <2>3, <2>4, <2>5 DEF Course
    <2> QED BY <2>1, <2>6 DEF SendInv
<1>4. CASE Exits(1) /\ UNCHANGED <<buffer, wire>>
    <2>1. SendTypes'
        BY <1>1, <1>4, LineStays DEF SendInv, SendTypes
    <2>2. InOrder'
        BY <1>1, <1>4, AllStays DEF SendInv, InOrder
    <2>3. Course'
        BY <1>1, <1>4 DEF SendInv, Course, Exits
    <2> QED BY <2>1, <2>2, <2>3 DEF SendInv
<1> QED BY <1>3, <1>4 DEF Leave

LEMMA StepKeepsSend == ASSUME SendInv, [SendNext]_sendVars PROVE SendInv'
<1>1. CASE LinkLost
    <2>1. /\ link = "up" /\ link' = "lost" /\ broken' /\ exit = -1
          /\ UNCHANGED <<input, line, turn, buffer, wire, snr, clock, exit>>
        BY <1>1 DEF LinkLost
    <2>2. SendTypes'
        BY <2>1, LineStays DEF SendInv, SendTypes
    <2>3. InOrder'
        BY <2>1, AllStays DEF SendInv, InOrder
    <2>4. Course'
        BY <2>1 DEF SendInv, Course
    <2> QED BY <2>2, <2>3, <2>4 DEF SendInv
<1>2. CASE EndOfInput \/ UNCHANGED sendVars
    <2>1. UNCHANGED <<input, line, link, buffer, wire, snr, clock, exit, broken>>
        BY <1>2 DEF EndOfInput, sendVars
    <2>2. SendTypes'
        BY <2>1, LineStays DEF SendInv, SendTypes
    <2>3. InOrder'
        BY <2>1, AllStays DEF SendInv, InOrder
    <2>4. Total' = Total
        BY <2>1, AllStays
    <2>5. Course'
        BY <1>2, <2>1, <2>4 DEF SendInv, Course, EndOfInput, sendVars
    <2> QED BY <2>2, <2>3, <2>5 DEF SendInv
<1>3. CASE Drain \/ Linger
    <2>1. CASE Drain
        BY <2>1, WaitKeeps DEF Drain
    <2>2. CASE Linger
        <3>1. line = Len(input)
            BY <2>2 DEF Linger, SendInv, Course
        <3> QED BY <2>2, <3>1, WaitKeeps DEF Linger
    <2> QED BY <1>3, <2>1, <2>2
<1> QED BY <1>1, <1>2, <1>3, ConnectKeeps, ReadLineKeeps, WriteAllKeeps, LeaveKeeps DEF SendNext

(* The hub is sent the registration and then each line with text to each     *)
(* destination, in order and under a number of its own, whatever the input   *)
(* and the destinations are; a run that succeeds on a connection that held   *)
(* has sent all of it.                                                       *)
THEOREM AllLinesAreSent == SendSpec => []SendsAll
<1>1. SendInv => SendsAll
    <2> SUFFICES ASSUME SendInv PROVE SendsAll
        OBVIOUS
    <2>1. /\ All \in Seq(Sent) /\ Len(All) = 1 + Total /\ wire \in Seq(Sent)
          /\ Len(wire) <= 1 + Total /\ \A i \in 1 .. Len(wire) : wire[i] = All[i]
        BY AllIs DEF SendInv, SendTypes, InOrder
    <2>2. IsPrefix(wire, All)
        BY <2>1, FirstAreAlike
    <2>3. ASSUME exit = 0, ~broken
          PROVE  wire = All /\ clock >= MinConnection
        <3>1. Len(wire) = Len(All) /\ clock >= MinConnection
            BY <2>1, <2>3 DEF SendInv, Course
        <3> QED BY <2>1, <3>1, SeqEqual
    <2> QED BY <2>2, <2>3 DEF SendsAll, All
<1>2. SendInv /\ [SendNext]_sendVars => SendInv'
    BY StepKeepsSend
<1> QED BY <1>1, <1>2, InitSend, PTL DEF SendSpec
=============================================================================
