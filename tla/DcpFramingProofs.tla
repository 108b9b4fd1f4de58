-------------------------- MODULE DcpFramingProofs --------------------------
(* Theorems about DcpFraming: what the hub and the client cut out of their   *)
(* byte streams, for all packets, sizes and ways in which the bytes arrive.  *)
EXTENDS DcpFraming, SequenceTheorems, TLAPS

-----------------------------------------------------------------------------
(* quint32.                                                                  *)

\* The size of a header is a quint32, and an int holds what the hub takes.
LEMMA SizesFit ==
    /\ MaxInt \in Nat /\ WordSize \in Nat /\ MaxPacketSize \in Nat
    /\ Words = 0 .. WordSize - 1
    /\ 3 <= MaxPacketSize /\ MaxPacketSize <= 2 + MaxInt /\ 2 + MaxInt < WordSize
<1>1. MaxInt \in Nat /\ MaxPacketSize \in 3 .. 2 + MaxInt
    BY FramingAssumption
       DEF FramingAssumption, FullHeaderSize, PacketHeaderSize, MessageHeaderSize
<1> QED BY <1>1 DEF WordSize, Words

\* The remainders of a number below the modulus and of one that passes it once.
LEMMA Remainder ==
    ASSUME NEW size \in Nat, size > 0, NEW n \in Nat
    PROVE  /\ n % size \in 0 .. size - 1
           /\ n < size => n % size = n
           /\ size <= n /\ n < 2 * size => n % size = n - size
OBVIOUS

\* A sum of a header size and a quint32 is a quint32, and wraps to less than the header size.
LEMMA SumOfSizes ==
    ASSUME NEW header \in 0 .. 3, NEW word \in Words
    PROVE  /\ Word(header + word) \in Words
           /\ header + word < WordSize => Word(header + word) = header + word
           /\ header + word >= WordSize => Word(header + word) < header
<1>1. /\ WordSize \in Nat /\ WordSize > 3 /\ Words = 0 .. WordSize - 1
      /\ header + word \in Nat /\ header + word < 2 * WordSize
    BY SizesFit
<1>2. PICK n \in Nat : n = header + word
    BY <1>1
<1>3. PICK size \in Nat : size = WordSize
    BY <1>1
<1>4. /\ n % size \in 0 .. size - 1
      /\ n < size => n % size = n
      /\ size <= n /\ n < 2 * size => n % size = n - size
    BY <1>1, <1>3, Remainder
<1>5. Word(header + word) = n % size
    BY <1>2, <1>3 DEF Word
<1> QED BY <1>1, <1>2, <1>3, <1>4, <1>5

-----------------------------------------------------------------------------
(* Streams.  The packets behind the first `from' of `packets' lie one behind *)
(* the other in `stream' and fill it: start[i] cells come before the end of  *)
(* packet i.                                                                 *)
Starts(stream, packets, from, start) ==
    /\ start[from] = 0 /\ start[Len(packets)] = Len(stream)
    /\ \A i, j \in from .. Len(packets) : i <= j => start[i] <= start[j]
    /\ \A i \in from + 1 .. Len(packets) :
           /\ start[i] = start[i - 1] + Len(packets[i])
           /\ \A k \in 1 .. Len(packets[i]) : stream[start[i - 1] + k] = packets[i][k]

Laid(stream, packets, from) ==
    /\ from <= Len(packets)
    /\ \E start \in [from .. Len(packets) -> 0 .. Len(stream)] :
           Starts(stream, packets, from, start)

Bytes == Seq(Words)

\* A part of a byte sequence.
LEMMA PartOfBytes ==
    ASSUME NEW s \in Bytes, NEW m \in Nat, NEW n \in Nat,
           1 <= m, m <= n + 1, n <= Len(s)
    PROVE  /\ SubSeq(s, m, n) \in Bytes
           /\ Len(SubSeq(s, m, n)) = n - m + 1
           /\ \A i \in 1 .. n - m + 1 : SubSeq(s, m, n)[i] = s[m + i - 1]
<1>1. Len(s) \in Nat /\ m \in Int /\ n \in Int
    BY DEF Bytes
<1>2. \A i \in m .. n : s[i] \in Words
    BY <1>1 DEF Bytes
<1>3. /\ SubSeq(s, m, n) \in Seq(Words)
      /\ Len(SubSeq(s, m, n)) = IF m <= n THEN n - m + 1 ELSE 0
      /\ \A i \in 1 .. n - m + 1 : SubSeq(s, m, n)[i] = s[m + i - 1]
    BY <1>1, <1>2, SubSeqProperties
<1>4. Len(SubSeq(s, m, n)) = n - m + 1
    BY <1>1, <1>3
<1> QED BY <1>3, <1>4 DEF Bytes

\* What is left of a byte sequence without its first l cells.
LEMMA RestOfBytes ==
    ASSUME NEW s \in Bytes, NEW l \in Nat, l <= Len(s),
           NEW rest, rest = SubSeq(s, l + 1, Len(s))
    PROVE  /\ rest \in Bytes
           /\ Len(rest) = Len(s) - l
           /\ \A i \in 1 .. Len(s) - l : rest[i] = s[l + i]
<1>1. PICK m \in Nat : m = l + 1
    OBVIOUS
<1>2. PICK n \in Nat : n = Len(s)
    BY DEF Bytes
<1>3. rest = SubSeq(s, m, n)
    BY <1>1, <1>2
<1>4. /\ rest \in Bytes
      /\ Len(rest) = n - m + 1
      /\ \A i \in 1 .. n - m + 1 : rest[i] = s[m + i - 1]
    <2>1. 1 <= m /\ m <= n + 1 /\ n <= Len(s)
        BY <1>1, <1>2
    <2>2. /\ SubSeq(s, m, n) \in Bytes
          /\ Len(SubSeq(s, m, n)) = n - m + 1
          /\ \A i \in 1 .. n - m + 1 : SubSeq(s, m, n)[i] = s[m + i - 1]
        BY <2>1, PartOfBytes, Zenon
    <2> QED BY <1>3, <2>2, Zenon
<1>5. n - m + 1 = Len(s) - l /\ \A i \in 1 .. n - m + 1 : m + i - 1 = l + i
    BY <1>1, <1>2
<1>6. ASSUME NEW i \in 1 .. Len(s) - l
      PROVE  rest[i] = s[l + i]
    BY <1>4, <1>5
<1> QED BY <1>4, <1>5, <1>6

\* A byte sequence up to its cell n, without the cells of the packet header.
LEMMA BytesFromThird ==
    ASSUME NEW s \in Bytes, NEW n \in Nat, 2 <= n, n <= Len(s),
           NEW part, part = SubSeq(s, 3, n)
    PROVE  /\ part \in Bytes /\ Len(part) = n - 2
           /\ \A k \in 1 .. n - 2 : part[k] = s[2 + k]
<1>1. PICK m \in Nat : m = 3
    OBVIOUS
<1>2. 1 <= m /\ m <= n + 1
    BY <1>1
<1>3. /\ SubSeq(s, m, n) \in Bytes
      /\ Len(SubSeq(s, m, n)) = n - m + 1
      /\ \A k \in 1 .. n - m + 1 : SubSeq(s, m, n)[k] = s[m + k - 1]
    BY <1>2, PartOfBytes, Zenon
<1>4. /\ part \in Bytes /\ Len(part) = n - m + 1
      /\ \A k \in 1 .. n - m + 1 : part[k] = s[m + k - 1]
    BY <1>1, <1>3
<1>5. n - m + 1 = n - 2
    BY <1>1
<1>6. ASSUME NEW k \in 1 .. n - 2
      PROVE  part[k] = s[2 + k]
    <2>1. k \in 1 .. n - m + 1 /\ m + k - 1 = 2 + k
        BY <1>1
    <2> QED BY <1>4, <2>1
<1> QED BY <1>4, <1>5, <1>6

\* Nothing lies in an empty stream.
LEMMA NothingLaid ==
    Laid(<<>>, <<>>, 0)
<1> DEFINE start == [i \in 0 .. 0 |-> 0]
<1>1. start \in [0 .. Len(<<>>) -> 0 .. Len(<<>>)]
    OBVIOUS
<1>2. Starts(<<>>, <<>>, 0, start)
    BY DEF Starts
<1> QED BY <1>1, <1>2 DEF Laid

(* A packet that is written lies at the end of the stream.                   *)
LEMMA WrittenIsLaid ==
    ASSUME NEW stream \in Bytes, NEW packets \in Seq(Bytes), NEW from \in Nat,
           Laid(stream, packets, from), NEW packet \in Bytes
    PROVE  Laid(stream \o packet, Append(packets, packet), from)
<1> DEFINE s2 == stream \o packet
           p2 == Append(packets, packet)
           n == Len(packets)
<1>1. /\ n \in Nat /\ Len(p2) = n + 1 /\ from <= n
      /\ p2[n + 1] = packet
      /\ \A i \in 1 .. n : p2[i] = packets[i]
    BY AppendProperties DEF Laid
<1>2. /\ Len(stream) \in Nat /\ Len(packet) \in Nat
      /\ s2 \in Bytes /\ Len(s2) = Len(stream) + Len(packet)
      /\ \A k \in 1 .. Len(stream) : s2[k] = stream[k]
      /\ \A k \in 1 .. Len(packet) : s2[Len(stream) + k] = packet[k]
    BY ConcatProperties DEF Bytes
<1>3. PICK start \in [from .. n -> 0 .. Len(stream)] : Starts(stream, packets, from, start)
    BY DEF Laid
<1> DEFINE next == [i \in from .. n + 1 |-> IF i <= n THEN start[i] ELSE Len(s2)]
<1>4. next \in [from .. Len(p2) -> 0 .. Len(s2)]
    BY <1>1, <1>2, <1>3
<1>5. next[from] = 0 /\ next[n + 1] = Len(s2)
    BY <1>1, <1>3 DEF Starts
<1>6. ASSUME NEW i \in from .. n + 1, NEW j \in from .. n + 1, i <= j
      PROVE  next[i] <= next[j]
    <2>1. CASE j <= n
        BY <1>1, <1>3, <1>6, <2>1 DEF Starts
    <2>2. CASE j = n + 1
        <3>1. next[i] \in 0 .. Len(s2)
            BY <1>1, <1>4
        <3> QED BY <1>2, <1>5, <2>2, <3>1
    <2> QED BY <1>1, <2>1, <2>2
<1>7. ASSUME NEW i \in from + 1 .. n + 1
      PROVE  /\ next[i] = next[i - 1] + Len(p2[i])
             /\ \A k \in 1 .. Len(p2[i]) : s2[next[i - 1] + k] = p2[i][k]
    <2>1. CASE i <= n
        <3>1. /\ i \in from + 1 .. n /\ i \in 1 .. n
              /\ i \in from .. n /\ i - 1 \in from .. n /\ p2[i] = packets[i]
            BY <1>1, <2>1
        <3>2. next[i] = start[i] /\ next[i - 1] = start[i - 1]
            BY <1>1, <3>1
        <3>3. /\ start[i] = start[i - 1] + Len(packets[i])
              /\ \A k \in 1 .. Len(packets[i]) : stream[start[i - 1] + k] = packets[i][k]
            BY <1>3, <3>1 DEF Starts
        <3>4. /\ start[i - 1] \in Nat /\ start[i] \in Nat /\ start[i] <= Len(stream)
              /\ Len(packets[i]) \in Nat
            BY <1>2, <1>3, <3>1 DEF Bytes
        <3>5. \A k \in 1 .. Len(packets[i]) : start[i - 1] + k \in 1 .. Len(stream)
            BY <1>2, <3>3, <3>4
        <3> QED BY <1>2, <3>1, <3>2, <3>3, <3>5
    <2>2. CASE i = n + 1
        <3>1. next[i - 1] = Len(stream)
            BY <1>1, <1>3, <2>2 DEF Starts
        <3> QED BY <1>1, <1>2, <1>5, <2>2, <3>1
    <2>3. i <= n \/ i = n + 1
        BY <1>1
    <2> HIDE DEF next, s2, p2
    <2> QED BY <2>1, <2>2, <2>3
<1>8. Starts(s2, p2, from, next)
    <2> HIDE DEF next, s2, p2
    <2> QED BY <1>1, <1>5, <1>6, <1>7 DEF Starts
<1> QED BY <1>1, <1>4, <1>8 DEF Laid

(* The first packet in a stream is there from its first cell to its last,    *)
(* and without it the others lie in what is left.                            *)
LEMMA FirstIsLaid ==
    ASSUME NEW stream \in Bytes, NEW packets \in Seq(Bytes), NEW from \in Nat,
           Laid(stream, packets, from), from < Len(packets),
           NEW packet, packet = packets[from + 1]
    PROVE  /\ Len(packet) <= Len(stream)
           /\ \A k \in 1 .. Len(packet) : stream[k] = packet[k]
           /\ Laid(SubSeq(stream, Len(packet) + 1, Len(stream)), packets, from + 1)
<1> DEFINE n == Len(packets)
           len == Len(packet)
           rest == SubSeq(stream, len + 1, Len(stream))
<1>1. n \in Nat /\ Len(stream) \in Nat /\ packet \in Bytes /\ len \in Nat
    BY DEF Bytes
<1>2. PICK start \in [from .. n -> 0 .. Len(stream)] : Starts(stream, packets, from, start)
    BY DEF Laid
<1>3. start[from] = 0 /\ start[from + 1] = len
    BY <1>1, <1>2 DEF Starts
<1>4. len <= Len(stream)
    BY <1>1, <1>2, <1>3 DEF Starts
<1>5. \A k \in 1 .. len : stream[k] = packet[k]
    <2>1. \A k \in 1 .. len : stream[start[from] + k] = packet[k]
        BY <1>1, <1>2 DEF Starts
    <2> QED BY <1>1, <1>3, <2>1
<1>6. /\ rest \in Bytes /\ Len(rest) = Len(stream) - len
      /\ \A k \in 1 .. Len(rest) : rest[k] = stream[len + k]
    <2>1. PICK r \in {rest} : r = SubSeq(stream, len + 1, Len(stream))
        OBVIOUS
    <2>2. PICK l \in Nat : l = len
        BY <1>1
    <2>3. r = SubSeq(stream, l + 1, Len(stream)) /\ l <= Len(stream)
        BY <1>4, <2>1, <2>2
    <2>4. /\ r \in Bytes /\ Len(r) = Len(stream) - l
          /\ \A i \in 1 .. Len(stream) - l : r[i] = stream[l + i]
        BY <2>3, RestOfBytes
    <2> HIDE DEF rest
    <2> QED BY <2>1, <2>2, <2>4
<1> DEFINE next == [i \in from + 1 .. n |-> start[i] - len]
<1>7. ASSUME NEW i \in from + 1 .. n
      PROVE  start[i] \in len .. Len(stream)
    <2>1. i \in from .. n /\ from + 1 \in from .. n /\ from + 1 <= i
        BY <1>1
    <2>2. start[from + 1] <= start[i]
        BY <1>2, <2>1 DEF Starts
    <2> QED BY <1>1, <1>2, <1>3, <2>1, <2>2
<1>8. next \in [from + 1 .. n -> 0 .. Len(rest)]
    <2>1. \A i \in from + 1 .. n : start[i] - len \in 0 .. Len(rest)
        <3> HIDE DEF rest
        <3> QED BY <1>1, <1>6, <1>7
    <2> HIDE DEF rest
    <2> QED BY <2>1
<1>9. next[from + 1] = 0 /\ next[n] = Len(rest)
    <2>1. start[n] = Len(stream)
        BY <1>2 DEF Starts
    <2>2. from + 1 \in from + 1 .. n /\ n \in from + 1 .. n
        BY <1>1
    <2>3. next[from + 1] = start[from + 1] - len /\ next[n] = start[n] - len
        BY <2>2
    <2> HIDE DEF next, rest
    <2> QED BY <1>1, <1>3, <1>6, <2>1, <2>3
<1>10. ASSUME NEW i \in from + 1 .. n, NEW j \in from + 1 .. n, i <= j
       PROVE  next[i] <= next[j]
    <2>1. i \in from .. n /\ j \in from .. n
        BY <1>1
    <2>2. start[i] <= start[j]
        BY <1>2, <1>10, <2>1 DEF Starts
    <2>3. start[i] \in Int /\ start[j] \in Int
        BY <1>1, <1>7
    <2> QED BY <1>1, <2>2, <2>3
<1>11. ASSUME NEW i \in from + 2 .. n
       PROVE  /\ next[i] = next[i - 1] + Len(packets[i])
              /\ \A k \in 1 .. Len(packets[i]) : rest[next[i - 1] + k] = packets[i][k]
    <2>1. /\ i \in from + 1 .. n /\ i - 1 \in from + 1 .. n
          /\ packets[i] \in Bytes /\ Len(packets[i]) \in Nat
        BY <1>1 DEF Bytes
    <2>2. next[i] = start[i] - len /\ next[i - 1] = start[i - 1] - len
        BY <2>1
    <2>3. /\ start[i] = start[i - 1] + Len(packets[i])
          /\ \A k \in 1 .. Len(packets[i]) : stream[start[i - 1] + k] = packets[i][k]
        BY <1>2, <2>1 DEF Starts
    <2>4. start[i - 1] \in len .. Len(stream) /\ start[i] \in len .. Len(stream)
        BY <1>7, <2>1
    <2>9. start[i - 1] \in Nat /\ start[i] \in Nat
        BY <1>1, <2>4
    <2> HIDE DEF next, rest
    <2>5. ASSUME NEW k \in 1 .. Len(packets[i])
          PROVE  rest[next[i - 1] + k] = packets[i][k]
        <3>4. k \in Nat /\ 1 <= k /\ k <= Len(packets[i])
            BY <2>1
        <3>5. start[i - 1] >= len /\ start[i - 1] + Len(packets[i]) <= Len(stream)
            BY <1>1, <2>3, <2>4
        <3>3. (start[i - 1] - len) + k \in 1 .. Len(stream) - len
            BY <1>1, <2>1, <2>9, <3>4, <3>5
        <3>1. next[i - 1] + k \in 1 .. Len(rest)
            BY <1>6, <2>2, <3>3
        <3>2. len + (next[i - 1] + k) = start[i - 1] + k
            BY <1>1, <2>1, <2>2, <2>4, <2>9
        <3> QED BY <1>6, <2>3, <3>1, <3>2
    <2> QED BY <1>1, <2>1, <2>2, <2>3, <2>4, <2>5
<1>12. Starts(rest, packets, from + 1, next)
    <2> HIDE DEF next, rest
    <2> QED BY <1>1, <1>9, <1>10, <1>11 DEF Starts
<1>13. Laid(rest, packets, from + 1)
    <2> HIDE DEF next, rest
    <2> QED BY <1>1, <1>8, <1>12 DEF Laid
<1> QED BY <1>4, <1>5, <1>13

(* Where no packet lies, there is nothing.                                   *)
LEMMA NothingLeft ==
    ASSUME NEW stream \in Bytes, NEW packets \in Seq(Bytes), NEW from \in Nat,
           Laid(stream, packets, from), Len(stream) > 0
    PROVE  from < Len(packets)
<1>1. Len(packets) \in Nat /\ Len(stream) \in Nat /\ from <= Len(packets)
    BY DEF Laid, Bytes
<1>2. from # Len(packets)
    BY <1>1 DEF Laid, Starts
<1> QED BY <1>1, <1>2

\* It does not matter in which order three byte sequences are joined.
LEMMA BytesAssociate ==
    ASSUME NEW s \in Bytes, NEW t \in Bytes, NEW u \in Bytes
    PROVE  (s \o t) \o u = s \o (t \o u)
BY ConcatAssociative DEF Bytes

(* Bytes that arrive move from one end of the way to the other.              *)
LEMMA ArrivalKeepsStream ==
    ASSUME NEW in \in Bytes, NEW way \in Bytes, NEW n \in 1 .. Len(way)
    PROVE  /\ in \o SubSeq(way, 1, n) \in Bytes
           /\ SubSeq(way, n + 1, Len(way)) \in Bytes
           /\ (in \o SubSeq(way, 1, n)) \o SubSeq(way, n + 1, Len(way)) = in \o way
<1>8. PICK come : come = SubSeq(way, 1, n)
    OBVIOUS
<1>7. PICK left : left = SubSeq(way, n + 1, Len(way))
    OBVIOUS
<1>1. Len(way) \in Nat /\ n \in Nat /\ 1 <= n /\ n <= Len(way)
    BY DEF Bytes
<1>2. come \in Bytes
    <2>1. 1 <= 1 /\ 1 <= n + 1 /\ n <= Len(way)
        BY <1>1
    <2>2. SubSeq(way, 1, n) \in Bytes
        BY <1>1, <2>1, PartOfBytes, Zenon
    <2> QED BY <1>8, <2>2, Zenon
<1>3. left \in Bytes
    BY <1>1, <1>7, RestOfBytes
<1>4. come \o left = way
    <2>1. /\ 1 \in 1 .. Len(way) + 1 /\ n \in 1 - 1 .. Len(way) /\ Len(way) \in n .. Len(way)
        BY <1>1
    <2>2. SubSeq(way, 1, n) \o SubSeq(way, n + 1, Len(way)) = SubSeq(way, 1, Len(way))
        BY <2>1, ConcatAdjacentSubSeq DEF Bytes
    <2>3. SubSeq(way, 1, Len(way)) = way
        BY SubSeqFull DEF Bytes
    <2> QED BY <1>7, <1>8, <2>2, <2>3
<1>5. in \o come \in Bytes
    BY <1>2, ConcatProperties DEF Bytes
<1>6. (in \o come) \o left = in \o (come \o left)
    BY <1>2, <1>3, BytesAssociate, Zenon
<1> QED BY <1>3, <1>4, <1>5, <1>6, <1>7, <1>8

-----------------------------------------------------------------------------
(* Packets.                                                                  *)
WellFormed(packet) ==
    /\ packet \in Bytes
    /\ Len(packet) >= FullHeaderSize
    /\ Len(packet) = FullHeaderSize + packet[PacketHeaderSize + 1]

\* The message of a packet can be read: its size fits an int.
Fits(packet) == Len(packet) <= PacketHeaderSize + MaxInt

(* A packet has its length where the hub looks for it.                       *)
LEMMA PacketIsWellFormed ==
    ASSUME NEW msgSize \in Words, NEW offset \in Words, NEW data \in Bytes,
           Len(data) \in Words,
           NEW packet, packet = Packet(msgSize, offset, data)
    PROVE  /\ WellFormed(packet)
           /\ packet[1] = msgSize /\ packet[2] = offset /\ packet[3] = Len(data)
<1>1. PICK header \in Bytes : header = <<msgSize, offset, Len(data)>>
    <2>1. <<msgSize, offset, Len(data)>> \in Bytes
        BY DEF Bytes
    <2> QED BY <2>1
<1>2. Len(header) = 3 /\ header[1] = msgSize /\ header[2] = offset /\ header[3] = Len(data)
    BY <1>1
<1>3. packet = header \o data
    BY <1>1 DEF Packet
<1>4. /\ packet \in Bytes /\ Len(packet) = 3 + Len(data)
      /\ \A k \in 1 .. 3 : packet[k] = header[k]
    <2>1. Len(data) \in Nat /\ header \in Seq(Words) /\ data \in Seq(Words)
        BY DEF Bytes
    <2>2. /\ packet \in Seq(Words) /\ Len(packet) = Len(header) + Len(data)
          /\ \A k \in 1 .. Len(header) + Len(data) :
                 packet[k] = IF k <= Len(header) THEN header[k] ELSE data[k - Len(header)]
        BY <1>3, <2>1, ConcatProperties
    <2> QED BY <1>2, <2>1, <2>2 DEF Bytes
<1>5. Len(data) \in Nat
    BY DEF Bytes
<1> QED BY <1>2, <1>4, <1>5
        DEF WellFormed, FullHeaderSize, PacketHeaderSize, MessageHeaderSize

(* The hub finds the length of a packet whose size does not wrap at its head.*)
LEMMA SizeOfPacket ==
    ASSUME NEW packet, WellFormed(packet), Len(packet) < WordSize
    PROVE  PacketSize(packet) = Len(packet)
<1>1. packet[3] \in Words
    BY DEF WellFormed, Bytes, FullHeaderSize, PacketHeaderSize, MessageHeaderSize
<1>2. Len(packet) = 3 + packet[3] /\ PacketSize(packet) = Word(3 + packet[3])
    BY DEF WellFormed, PacketSize, FullHeaderSize, PacketHeaderSize, MessageHeaderSize
<1> QED BY <1>1, <1>2, SumOfSizes

(* What a reader finds at the head of its buffer.  `in' is what has arrived, *)
(* `way' what is still to come: the header of the first packet that was not  *)
(* read, and, when there is enough, this packet.                             *)
LEMMA HeadOfBuffer ==
    ASSUME NEW in \in Bytes, NEW way \in Bytes, NEW packets \in Seq(Bytes), NEW from \in Nat,
           Laid(in \o way, packets, from), Len(in) >= FullHeaderSize,
           \A i \in 1 .. Len(packets) : WellFormed(packets[i])
    PROVE  /\ from < Len(packets)
           /\ WellFormed(packets[from + 1])
           /\ \A k \in 1 .. FullHeaderSize : in[k] = packets[from + 1][k]
           /\ \A k \in 1 .. Len(in) : k <= Len(packets[from + 1]) => in[k] = packets[from + 1][k]
<1>1. /\ Len(in) \in Nat /\ Len(way) \in Nat
      /\ in \o way \in Bytes /\ Len(in \o way) = Len(in) + Len(way)
      /\ \A k \in 1 .. Len(in) : (in \o way)[k] = in[k]
    BY ConcatProperties DEF Bytes
<1>2. PICK stream \in Bytes : stream = in \o way
    BY <1>1
<1>3. Len(stream) > 0
    BY <1>1, <1>2 DEF FullHeaderSize, PacketHeaderSize, MessageHeaderSize
<1>4. from < Len(packets)
    BY <1>2, <1>3, NothingLeft
<1>5. PICK packet : packet = packets[from + 1]
    OBVIOUS
<1>6. WellFormed(packet) /\ Len(packet) \in Nat
    BY <1>4, <1>5 DEF WellFormed, Bytes
<1>7. \A k \in 1 .. Len(packet) : stream[k] = packet[k]
    <2>1. Laid(stream, packets, from)
        BY <1>2
    <2> QED BY <1>4, <1>5, <2>1, FirstIsLaid
<1>8. \A k \in 1 .. Len(in) : k <= Len(packet) => in[k] = packet[k]
    BY <1>1, <1>2, <1>6, <1>7
<1>9. \A k \in 1 .. FullHeaderSize : in[k] = packet[k]
    BY <1>1, <1>6, <1>8 DEF WellFormed, FullHeaderSize, PacketHeaderSize, MessageHeaderSize
<1> QED BY <1>4, <1>5, <1>6, <1>8, <1>9

(* What a reader cuts off when the first packet is there is that packet, and *)
(* the others lie in what remains.                                           *)
LEMMA CutFromBuffer ==
    ASSUME NEW in \in Bytes, NEW way \in Bytes, NEW packets \in Seq(Bytes), NEW from \in Nat,
           Laid(in \o way, packets, from), from < Len(packets),
           NEW packet, packet = packets[from + 1], Len(packet) <= Len(in),
           \A k \in 1 .. Len(packet) : in[k] = packet[k]
    PROVE  /\ SubSeq(in, 1, Len(packet)) = packet
           /\ SubSeq(in, Len(packet) + 1, Len(in)) \in Bytes
           /\ Laid(SubSeq(in, Len(packet) + 1, Len(in)) \o way, packets, from + 1)
<1>1. /\ Len(in) \in Nat /\ Len(way) \in Nat
      /\ packet \in Bytes
    BY DEF Bytes
<1>2. PICK len \in Nat : len = Len(packet)
    BY <1>1 DEF Bytes
<1>3. PICK first : first = SubSeq(in, 1, len)
    OBVIOUS
<1>4. first = packet
    <2>1. first \in Bytes /\ Len(first) = len /\ \A k \in 1 .. len : first[k] = in[1 + k - 1]
        <3>1. 1 <= 1 /\ 1 <= len + 1 /\ len <= Len(in) /\ len - 1 + 1 = len
            BY <1>2
        <3>2. /\ first \in Bytes /\ Len(first) = len - 1 + 1
              /\ \A k \in 1 .. len - 1 + 1 : first[k] = in[1 + k - 1]
            BY <1>3, <3>1, PartOfBytes
        <3> QED BY <3>1, <3>2
    <2>2. \A k \in 1 .. Len(first) : first[k] = packet[k]
        BY <1>2, <2>1
    <2>3. first \in Seq(Words) /\ packet \in Seq(Words) /\ Len(first) = Len(packet)
        BY <1>1, <1>2, <2>1 DEF Bytes
    <2> QED BY <2>2, <2>3, SeqEqual
<1>5. PICK rest : rest = SubSeq(in, len + 1, Len(in))
    OBVIOUS
<1>6. /\ rest \in Bytes /\ Len(rest) = Len(in) - len
      /\ \A k \in 1 .. Len(in) - len : rest[k] = in[len + k]
    <2>1. len <= Len(in)
        BY <1>2
    <2> QED BY <1>5, <2>1, RestOfBytes
<1>7. PICK stream \in Bytes : stream = in \o way
    BY ConcatProperties DEF Bytes
<1>8. /\ Len(stream) = Len(in) + Len(way)
      /\ \A k \in 1 .. Len(in) + Len(way) :
             stream[k] = IF k <= Len(in) THEN in[k] ELSE way[k - Len(in)]
    BY <1>7, ConcatProperties DEF Bytes
<1>9. PICK tail : tail = SubSeq(stream, len + 1, Len(stream))
    OBVIOUS
<1>10. /\ tail \in Bytes /\ Len(tail) = Len(stream) - len
       /\ \A k \in 1 .. Len(stream) - len : tail[k] = stream[len + k]
    <2>1. len <= Len(stream)
        BY <1>1, <1>2, <1>8
    <2> QED BY <1>9, <2>1, RestOfBytes
<1>11. PICK joined \in Bytes : joined = rest \o way
    BY <1>6, ConcatProperties DEF Bytes
<1>12. /\ Len(joined) = Len(rest) + Len(way)
       /\ \A k \in 1 .. Len(rest) + Len(way) :
              joined[k] = IF k <= Len(rest) THEN rest[k] ELSE way[k - Len(rest)]
    BY <1>6, <1>11, ConcatProperties DEF Bytes
<1>13. joined = tail
    <2>1. Len(joined) = Len(tail)
        BY <1>1, <1>2, <1>6, <1>8, <1>10, <1>12
    <2>2. ASSUME NEW k \in 1 .. Len(joined)
          PROVE  joined[k] = tail[k]
        <3>1. /\ k \in Nat /\ k \in 1 .. Len(rest) + Len(way)
              /\ k \in 1 .. Len(stream) - len /\ len + k \in 1 .. Len(in) + Len(way)
            BY <1>1, <1>2, <1>6, <1>8, <1>12
        <3>2. tail[k] = IF len + k <= Len(in) THEN in[len + k] ELSE way[(len + k) - Len(in)]
            BY <1>8, <1>10, <3>1
        <3>3. CASE k <= Len(rest)
            <4>1. k \in 1 .. Len(in) - len /\ len + k <= Len(in)
                BY <1>1, <1>6, <3>1, <3>3
            <4> QED BY <1>6, <1>12, <3>1, <3>2, <3>3, <4>1
        <3>4. CASE ~(k <= Len(rest))
            <4>1. ~(len + k <= Len(in)) /\ (len + k) - Len(in) = k - Len(rest)
                BY <1>1, <1>6, <3>1, <3>4
            <4> QED BY <1>12, <3>1, <3>2, <3>4, <4>1
        <3> QED BY <3>3, <3>4
    <2>3. joined \in Seq(Words) /\ tail \in Seq(Words)
        BY <1>10 DEF Bytes
    <2> QED BY <2>1, <2>2, <2>3, SeqEqual
<1>14. Laid(tail, packets, from + 1)
    BY <1>2, <1>7, <1>9, FirstIsLaid
<1> QED BY <1>2, <1>3, <1>4, <1>5, <1>6, <1>11, <1>13, <1>14

-----------------------------------------------------------------------------
(* The invariant.  What was written and not yet read lies in the bytes that  *)
(* have arrived or are on the way, packet behind packet, so each reader has  *)
(* the header of a packet at the head of its buffer.                         *)
Types ==
    /\ sent \in Seq(Bytes) /\ cut \in Seq(Bytes) /\ delivered \in Seq(Bytes)
    /\ toHub \in Bytes /\ hubIn \in Bytes /\ toClient \in Bytes /\ clientIn \in Bytes
    /\ inQueue \in Seq(Bytes)
    /\ hubOpen \in BOOLEAN

HeadersRight ==
    /\ \A i \in 1 .. Len(sent) : WellFormed(sent[i])
    /\ \A i \in 1 .. Len(delivered) : WellFormed(delivered[i]) /\ Fits(delivered[i])

HubInOrder ==
    /\ \A i \in 1 .. Len(cut) : NoneWraps(i) => i <= Len(sent) /\ cut[i] = sent[i]
    /\ NoneWraps(Len(cut) + 1) => Laid(hubIn \o toHub, sent, Len(cut))
    /\ \E m \in 0 .. Len(cut) : \A i \in 1 .. Len(cut) : NoneWraps(i) <=> i <= m

ClientInOrder ==
    AllInOnePacket =>
        /\ Len(inQueue) <= Len(delivered)
        /\ \A i \in 1 .. Len(inQueue) : inQueue[i] = MessageIn(delivered[i])
        /\ Laid(clientIn \o toClient, delivered, Len(inQueue))

FramingInv == Types /\ HeadersRight /\ HubInOrder /\ ClientInOrder /\ RefusedForSize

LEMMA InitFraming == Init => FramingInv
<1> SUFFICES ASSUME Init PROVE FramingInv
    OBVIOUS
<1>1. <<>> \in Bytes /\ <<>> \in Seq(Bytes) /\ Len(<<>>) = 0 /\ <<>> \o <<>> = <<>>
    BY DEF Bytes
<1>2. Types
    BY <1>1 DEF Init, Types
<1>3. HeadersRight
    BY <1>1 DEF Init, HeadersRight
<1>4. HubInOrder
    BY <1>1, NothingLaid DEF Init, HubInOrder
<1>5. ClientInOrder
    BY <1>1, NothingLaid DEF Init, ClientInOrder
<1>6. RefusedForSize
    BY <1>1 DEF Init, RefusedForSize
<1> QED BY <1>2, <1>3, <1>4, <1>5, <1>6 DEF FramingInv

-----------------------------------------------------------------------------
(* Steps.                                                                    *)

\* What a packet more does to a sequence of packets.
LEMMA OneMorePacket ==
    ASSUME NEW packets \in Seq(Bytes), NEW packet \in Bytes, NEW more,
           more = Append(packets, packet)
    PROVE  /\ more \in Seq(Bytes)
           /\ Len(more) = Len(packets) + 1
           /\ \A i \in 1 .. Len(packets) : more[i] = packets[i]
           /\ more[Len(packets) + 1] = packet
BY AppendProperties

\* What is appended to one end of the way does not matter at the other.
LEMMA WrittenOnTheWay ==
    ASSUME NEW in \in Bytes, NEW way \in Bytes, NEW packets \in Seq(Bytes), NEW from \in Nat,
           Laid(in \o way, packets, from), NEW packet \in Bytes
    PROVE  /\ way \o packet \in Bytes
           /\ Laid(in \o (way \o packet), Append(packets, packet), from)
<1>1. way \o packet \in Bytes /\ in \o way \in Bytes
    BY ConcatProperties DEF Bytes
<1>2. Laid((in \o way) \o packet, Append(packets, packet), from)
    BY <1>1, WrittenIsLaid
<1>3. (in \o way) \o packet = in \o (way \o packet)
    BY BytesAssociate
<1> QED BY <1>1, <1>2, <1>3

(* A device writes a packet.                                                 *)
LEMMA WrittenKeepsInv ==
    ASSUME FramingInv, NEW packet, WellFormed(packet), Written(packet)
    PROVE  FramingInv'
<1> USE DEF FramingInv
<1>1. /\ sent \in Seq(Bytes) /\ cut \in Seq(Bytes) /\ hubIn \in Bytes /\ toHub \in Bytes
      /\ Len(cut) \in Nat /\ Len(sent) \in Nat /\ packet \in Bytes
    BY DEF Types, WellFormed
<1>2. /\ sent' = Append(sent, packet) /\ toHub' = toHub \o packet
      /\ UNCHANGED <<hubIn, hubOpen, cut, delivered, toClient, clientIn, inQueue>>
    BY DEF Written, hub, link, client
<1>3. /\ sent' \in Seq(Bytes) /\ Len(sent') = Len(sent) + 1
      /\ \A i \in 1 .. Len(sent) : sent'[i] = sent[i]
      /\ sent'[Len(sent) + 1] = packet
    BY <1>1, <1>2, OneMorePacket
<1>4. /\ toHub' \in Bytes
      /\ NoneWraps(Len(cut) + 1) =>
             Laid(hubIn \o (toHub \o packet), Append(sent, packet), Len(cut))
    <2>1. toHub' \in Bytes
        BY <1>1, <1>2, ConcatProperties DEF Bytes
    <2> QED BY <1>1, <2>1, WrittenOnTheWay DEF HubInOrder
<1>10. ASSUME NEW n, NoneWraps(n)'
       PROVE  NoneWraps(n)
    <2>1. ASSUME NEW i \in DOMAIN sent, i <= n
          PROVE  Len(sent[i]) < WordSize
        <3>1. i \in DOMAIN sent' /\ sent'[i] = sent[i]
            BY <1>1, <1>3
        <3> QED BY <1>10, <2>1, <3>1 DEF NoneWraps
    <2> QED BY <2>1 DEF NoneWraps
<1>5. Types'
    BY <1>2, <1>3, <1>4 DEF Types
<1>6. HeadersRight'
    <2>1. ASSUME NEW i \in 1 .. Len(sent')
          PROVE  WellFormed(sent'[i])
        <3>1. i \in 1 .. Len(sent) \/ i = Len(sent) + 1
            BY <1>1, <1>3
        <3> QED BY <1>3, <3>1 DEF HeadersRight
    <2> QED BY <1>2, <2>1 DEF HeadersRight
<1>7. HubInOrder'
    <2>1. ASSUME NEW i \in 1 .. Len(cut'), NoneWraps(i)'
          PROVE  i <= Len(sent') /\ cut'[i] = sent'[i]
        <3>1. i \in 1 .. Len(cut) /\ i <= Len(sent) /\ cut[i] = sent[i]
            BY <1>2, <1>10, <2>1 DEF HubInOrder
        <3> QED BY <1>1, <1>2, <1>3, <3>1
    <2>2. ASSUME NoneWraps(Len(cut) + 1)'
          PROVE  Laid(hubIn' \o toHub', sent', Len(cut'))
        <3>1. NoneWraps(Len(cut) + 1)
            BY <1>2, <1>10, <2>2
        <3> QED BY <1>2, <1>4, <3>1
    <2>3. PICK m \in 0 .. Len(cut) : \A i \in 1 .. Len(cut) : NoneWraps(i) <=> i <= m
        BY DEF HubInOrder
    <2>4. ASSUME NEW i \in 1 .. Len(cut), NoneWraps(i)
          PROVE  NoneWraps(i)'
        <3>1. i \in Nat /\ i <= Len(sent)
            BY <2>4 DEF HubInOrder
        <3>2. \A k \in DOMAIN sent' : k <= i => k \in DOMAIN sent /\ sent'[k] = sent[k]
            BY <1>1, <1>3, <3>1
        <3> QED BY <2>4, <3>2 DEF NoneWraps
    <2>5. \A i \in 1 .. Len(cut') : NoneWraps(i)' <=> i <= m
        BY <1>2, <1>10, <2>3, <2>4
    <2>6. \E m2 \in 0 .. Len(cut') : \A i \in 1 .. Len(cut') : NoneWraps(i)' <=> i <= m2
        BY <1>2, <2>5
    <2> QED BY <1>2, <2>1, <2>2, <2>6 DEF HubInOrder
<1>8. ClientInOrder'
    BY <1>2 DEF ClientInOrder, AllInOnePacket
<1>9. RefusedForSize'
    <2>1. ASSUME ~hubOpen, NoneWraps(Len(cut))'
          PROVE  Len(cut) < Len(sent') /\ Len(sent'[Len(cut) + 1]) > MaxPacketSize
        <3>1. Len(cut) < Len(sent) /\ Len(sent[Len(cut) + 1]) > MaxPacketSize
            BY <1>2, <1>10, <2>1 DEF RefusedForSize
        <3>2. Len(cut) + 1 \in 1 .. Len(sent)
            BY <1>1, <3>1
        <3> QED BY <1>1, <1>3, <3>1, <3>2
    <2> QED BY <1>2, <2>1 DEF RefusedForSize
<1> QED BY <1>5, <1>6, <1>7, <1>8, <1>9

(* The hub writes a packet to the client, an answer or one it forwards.      *)
LEMMA DeliveryKeepsClient ==
    ASSUME FramingInv, NEW packet, WellFormed(packet), Fits(packet),
           delivered' = Append(delivered, packet), toClient' = toClient \o packet,
           UNCHANGED <<clientIn, inQueue>>
    PROVE  /\ delivered' \in Seq(Bytes) /\ toClient' \in Bytes
           /\ \A i \in 1 .. Len(delivered') : WellFormed(delivered'[i]) /\ Fits(delivered'[i])
           /\ ClientInOrder'
<1> USE DEF FramingInv
<1>1. /\ delivered \in Seq(Bytes) /\ clientIn \in Bytes /\ toClient \in Bytes
      /\ inQueue \in Seq(Bytes)
      /\ Len(delivered) \in Nat /\ Len(inQueue) \in Nat /\ packet \in Bytes
    BY DEF Types, WellFormed
<1>2. /\ delivered' \in Seq(Bytes) /\ Len(delivered') = Len(delivered) + 1
      /\ \A i \in 1 .. Len(delivered) : delivered'[i] = delivered[i]
      /\ delivered'[Len(delivered) + 1] = packet
    BY <1>1, OneMorePacket
<1>3. toClient' \in Bytes
    BY <1>1, ConcatProperties DEF Bytes
<1>4. ASSUME NEW i \in 1 .. Len(delivered')
      PROVE  WellFormed(delivered'[i]) /\ Fits(delivered'[i])
    <2>1. i \in 1 .. Len(delivered) \/ i = Len(delivered) + 1
        BY <1>1, <1>2
    <2> QED BY <1>2, <2>1 DEF HeadersRight
<1>5. ASSUME AllInOnePacket'
      PROVE  AllInOnePacket
    <2>1. DOMAIN delivered = 1 .. Len(delivered) /\ DOMAIN delivered' = 1 .. Len(delivered')
        BY <1>1, <1>2
    <2>2. ASSUME NEW i \in 1 .. Len(delivered)
          PROVE  InOnePacket(delivered[i])
        <3>1. i \in 1 .. Len(delivered') /\ delivered'[i] = delivered[i]
            BY <1>1, <1>2
        <3> QED BY <1>5, <2>1, <3>1 DEF AllInOnePacket
    <2> QED BY <2>1, <2>2 DEF AllInOnePacket
<1>6. ClientInOrder'
    <2> SUFFICES ASSUME AllInOnePacket'
                 PROVE  /\ Len(inQueue') <= Len(delivered')
                        /\ \A i \in 1 .. Len(inQueue') : inQueue'[i] = MessageIn(delivered'[i])
                        /\ Laid(clientIn' \o toClient', delivered', Len(inQueue'))
        BY DEF ClientInOrder
    <2>1. /\ Len(inQueue) <= Len(delivered)
          /\ \A i \in 1 .. Len(inQueue) : inQueue[i] = MessageIn(delivered[i])
          /\ Laid(clientIn \o toClient, delivered, Len(inQueue))
        BY <1>5 DEF ClientInOrder
    <2>2. Laid(clientIn \o (toClient \o packet), Append(delivered, packet), Len(inQueue))
        BY <1>1, <2>1, WrittenOnTheWay
    <2>3. \A i \in 1 .. Len(inQueue) : i \in 1 .. Len(delivered)
        BY <1>1, <2>1
    <2> QED BY <1>1, <1>2, <2>1, <2>2, <2>3
<1> QED BY <1>2, <1>3, <1>4, <1>6

(* What the library makes is well-formed.                                    *)
LEMMA MadeByLibrary ==
    ASSUME NEW data \in Bytes, 1 + Len(data) <= MaxInt,
           NEW packet, packet = Packet(Len(data), 0, data)
    PROVE  WellFormed(packet) /\ Fits(packet)
<1>1. Len(data) \in Nat
    BY DEF Bytes
<1>2. Len(data) \in Words /\ 0 \in Words
    BY <1>1, SizesFit
<1>3. WellFormed(packet) /\ packet[3] = Len(data)
    BY <1>2, PacketIsWellFormed
<1>4. Len(packet) = 3 + Len(data)
    BY <1>3 DEF WellFormed, FullHeaderSize, PacketHeaderSize, MessageHeaderSize
<1>5. Len(packet) <= 2 + MaxInt
    BY <1>1, <1>4, SizesFit
<1> QED BY <1>3, <1>5 DEF Fits, PacketHeaderSize

(* The hub answers.                                                          *)
LEMMA AnswerKeepsInv ==
    ASSUME FramingInv, NEW data \in AnswerData, sendMessage(data)
    PROVE  FramingInv'
<1>1. data \in Bytes /\ 1 + Len(data) <= MaxInt
    BY FramingAssumption DEF FramingAssumption, Bytes, MessageHeaderSize
<1>2. PICK packet : packet = Packet(Len(data), 0, data)
    OBVIOUS
<1>3. WellFormed(packet) /\ Fits(packet)
    BY <1>1, <1>2, MadeByLibrary
<1>4. /\ delivered' = Append(delivered, packet) /\ toClient' = toClient \o packet
      /\ UNCHANGED <<sent, toHub, hubIn, hubOpen, cut, clientIn, inQueue>>
    BY <1>2 DEF sendMessage, device, hub, client
<1>5. /\ delivered' \in Seq(Bytes) /\ toClient' \in Bytes
      /\ \A i \in 1 .. Len(delivered') : WellFormed(delivered'[i]) /\ Fits(delivered'[i])
      /\ ClientInOrder'
    BY <1>3, <1>4, DeliveryKeepsClient
<1>6. Types' /\ HeadersRight' /\ HubInOrder' /\ RefusedForSize'
    BY <1>4, <1>5 DEF FramingInv, Types, HeadersRight, HubInOrder, NoneWraps, RefusedForSize
<1> QED BY <1>5, <1>6 DEF FramingInv

(* Bytes arrive at the hub, or at the client.                                *)
LEMMA ArrivalAtHubKeepsInv ==
    ASSUME FramingInv, ArriveAtHub
    PROVE  FramingInv'
<1>1. PICK n \in 1 .. Len(toHub) :
          /\ hubIn' = hubIn \o SubSeq(toHub, 1, n)
          /\ toHub' = SubSeq(toHub, n + 1, Len(toHub))
    BY DEF ArriveAtHub
<1>2. UNCHANGED <<sent, hubOpen, cut, delivered, toClient, clientIn, inQueue>>
    BY DEF ArriveAtHub, link, client
<1>3. hubIn' \in Bytes /\ toHub' \in Bytes /\ hubIn' \o toHub' = hubIn \o toHub
    <2>1. hubIn \in Bytes /\ toHub \in Bytes
        BY DEF FramingInv, Types
    <2>2. /\ hubIn \o SubSeq(toHub, 1, n) \in Bytes
          /\ SubSeq(toHub, n + 1, Len(toHub)) \in Bytes
          /\ (hubIn \o SubSeq(toHub, 1, n)) \o SubSeq(toHub, n + 1, Len(toHub)) = hubIn \o toHub
        BY <2>1, ArrivalKeepsStream, Zenon
    <2> QED BY <1>1, <2>2, Zenon
<1>4. Types' /\ HeadersRight' /\ ClientInOrder' /\ RefusedForSize'
    BY <1>2, <1>3
       DEF FramingInv, Types, HeadersRight, ClientInOrder, AllInOnePacket, RefusedForSize,
           NoneWraps
<1>5. HubInOrder'
    BY <1>2, <1>3 DEF FramingInv, HubInOrder, NoneWraps
<1> QED BY <1>4, <1>5 DEF FramingInv

LEMMA ArrivalAtClientKeepsInv ==
    ASSUME FramingInv, ArriveAtClient
    PROVE  FramingInv'
<1>1. PICK n \in 1 .. Len(toClient) :
          /\ clientIn' = clientIn \o SubSeq(toClient, 1, n)
          /\ toClient' = SubSeq(toClient, n + 1, Len(toClient))
    BY DEF ArriveAtClient
<1>2. UNCHANGED <<sent, toHub, hubIn, hubOpen, cut, delivered, inQueue>>
    BY DEF ArriveAtClient, device, hub
<1>3. clientIn' \in Bytes /\ toClient' \in Bytes /\ clientIn' \o toClient' = clientIn \o toClient
    <2>1. clientIn \in Bytes /\ toClient \in Bytes
        BY DEF FramingInv, Types
    <2>2. /\ clientIn \o SubSeq(toClient, 1, n) \in Bytes
          /\ SubSeq(toClient, n + 1, Len(toClient)) \in Bytes
          /\ (clientIn \o SubSeq(toClient, 1, n)) \o SubSeq(toClient, n + 1, Len(toClient)) = clientIn \o toClient
        BY <2>1, ArrivalKeepsStream, Zenon
    <2> QED BY <1>1, <2>2, Zenon
<1>4. Types' /\ HeadersRight' /\ HubInOrder' /\ RefusedForSize'
    BY <1>2, <1>3 DEF FramingInv, Types, HeadersRight, HubInOrder, NoneWraps, RefusedForSize
<1>5. ClientInOrder'
    BY <1>2, <1>3 DEF FramingInv, ClientInOrder, AllInOnePacket
<1> QED BY <1>4, <1>5 DEF FramingInv

(* The hub reads a packet: as long as no size wrapped, it is the first that  *)
(* was sent and not cut out.                                                 *)
LEMMA NextAtHub ==
    ASSUME FramingInv, Len(hubIn) >= FullHeaderSize, NoneWraps(Len(cut) + 1)
    PROVE  /\ Len(cut) < Len(sent)
           /\ WellFormed(sent[Len(cut) + 1])
           /\ PacketSize(hubIn) = Len(sent[Len(cut) + 1])
           /\ \A k \in 1 .. Len(hubIn) :
                  k <= Len(sent[Len(cut) + 1]) => hubIn[k] = sent[Len(cut) + 1][k]
<1>1. /\ hubIn \in Bytes /\ toHub \in Bytes /\ sent \in Seq(Bytes) /\ Len(cut) \in Nat
      /\ Laid(hubIn \o toHub, sent, Len(cut))
      /\ \A i \in 1 .. Len(sent) : WellFormed(sent[i])
    BY DEF FramingInv, Types, HubInOrder, HeadersRight
<1>2. /\ Len(cut) < Len(sent) /\ WellFormed(sent[Len(cut) + 1])
      /\ \A k \in 1 .. FullHeaderSize : hubIn[k] = sent[Len(cut) + 1][k]
      /\ \A k \in 1 .. Len(hubIn) :
             k <= Len(sent[Len(cut) + 1]) => hubIn[k] = sent[Len(cut) + 1][k]
    BY <1>1, HeadOfBuffer
<1>3. PacketSize(hubIn) = PacketSize(sent[Len(cut) + 1])
    BY <1>2 DEF PacketSize, FullHeaderSize, PacketHeaderSize, MessageHeaderSize
<1>4. Len(sent[Len(cut) + 1]) < WordSize
    BY <1>1, <1>2 DEF NoneWraps
<1> QED BY <1>2, <1>3, <1>4, SizeOfPacket

\* What the hub cuts out is a packet that is not too large, where sizes wrapped, too.
LEMMA CutIsWellFormed ==
    ASSUME FramingInv, readNextPacket,
           NEW packet, packet = SubSeq(hubIn, 1, PacketSize(hubIn))
    PROVE  /\ WellFormed(packet) /\ Fits(packet)
           /\ Len(packet) = PacketSize(hubIn) /\ Len(packet) <= MaxPacketSize
           /\ hubIn' \in Bytes
<1>1. PICK in \in Bytes : in = hubIn
    BY DEF FramingInv, Types
<1>2. PICK size \in Nat : size = PacketSize(in) /\ size = Word(3 + in[3])
    <2>1. in[3] \in Words
        <3>1. Len(in) \in Nat /\ 3 \in 1 .. Len(in)
            BY <1>1 DEF readNextPacket, ReadFromSocket, PacketComplete, FullHeaderSize,
                        PacketHeaderSize, MessageHeaderSize, Bytes
        <3> QED BY <3>1 DEF Bytes
    <2>2. Word(3 + in[3]) \in Nat
        BY <2>1, SumOfSizes, SizesFit
    <2> QED BY <2>2 DEF PacketSize, FullHeaderSize, PacketHeaderSize, MessageHeaderSize
<1>3. size \in Nat /\ 3 <= size /\ size <= Len(in) /\ size <= MaxPacketSize /\ Len(in) \in Nat
    <2>1. size \in Nat /\ MaxPacketSize \in Nat /\ Len(in) \in Nat
        BY SizesFit DEF Bytes
    <2> QED BY <1>1, <1>2, <2>1
            DEF readNextPacket, ReadFromSocket, TooLarge, PacketComplete, FullHeaderSize,
                PacketHeaderSize, MessageHeaderSize
<1>4. in[3] \in Words /\ size = 3 + in[3]
    <2>1. in[3] \in Words
        BY <1>3 DEF Bytes
    <2>2. in[3] \in Nat /\ WordSize \in Nat /\ 3 \in 0 .. 3
        BY <2>1, SizesFit
    <2>3. /\ 3 + in[3] < WordSize => Word(3 + in[3]) = 3 + in[3]
          /\ 3 + in[3] >= WordSize => Word(3 + in[3]) < 3
        BY <2>1, <2>2, SumOfSizes
    <2> QED BY <1>2, <1>3, <2>1, <2>2, <2>3
<1>5. PICK part \in Bytes :
          /\ part = SubSeq(in, 1, size) /\ Len(part) = size
          /\ \A k \in 1 .. size : part[k] = in[k]
    <2>1. /\ SubSeq(in, 1, size) \in Bytes /\ Len(SubSeq(in, 1, size)) = size - 1 + 1
          /\ \A k \in 1 .. size - 1 + 1 : SubSeq(in, 1, size)[k] = in[1 + k - 1]
        <3>1. 1 <= 1 /\ 1 <= size + 1 /\ size <= Len(in) /\ 1 \in Nat /\ size \in Nat
            BY <1>3
        <3> QED BY <3>1, PartOfBytes, Zenon
    <2>2. PICK part \in Bytes :
              /\ part = SubSeq(in, 1, size) /\ Len(part) = size - 1 + 1
              /\ \A k \in 1 .. size - 1 + 1 : part[k] = in[1 + k - 1]
        BY <2>1, Zenon
    <2>3. size - 1 + 1 = size /\ \A k \in 1 .. size : 1 + k - 1 = k
        BY <1>3
    <2>4. Len(part) = size /\ \A k \in 1 .. size : part[k] = in[k]
        BY <2>2, <2>3, Zenon
    <2> QED BY <2>2, <2>4, Zenon
<1>6. part[3] = in[3]
    <2>1. 3 \in 1 .. size
        BY <1>3
    <2> QED BY <1>5, <2>1, Zenon
<1>7. hubIn' \in Bytes
    <2>1. SubSeq(in, size + 1, Len(in)) \in Bytes
        BY <1>3, RestOfBytes
    <2> QED BY <1>1, <1>2, <2>1 DEF readNextPacket, ReadFromSocket
<1>8. WellFormed(part)
    BY <1>3, <1>4, <1>5, <1>6
       DEF WellFormed, FullHeaderSize, PacketHeaderSize, MessageHeaderSize
<1>9. Fits(part) /\ Len(part) <= MaxPacketSize
    BY <1>3, <1>5, SizesFit DEF Fits, PacketHeaderSize
<1>10. part = packet /\ Len(part) = PacketSize(hubIn)
    BY <1>1, <1>2, <1>5, Zenon
<1> QED BY <1>7, <1>8, <1>9, <1>10, Zenon

LEMMA ReadingKeepsInv ==
    ASSUME FramingInv, readNextPacket
    PROVE  FramingInv'
<1>1. PICK packet : packet = SubSeq(hubIn, 1, PacketSize(hubIn))
    OBVIOUS
<1>2. /\ hubOpen /\ PacketComplete(hubIn)
      /\ cut' = Append(cut, packet) /\ delivered' = Append(delivered, packet)
      /\ toClient' = toClient \o packet
      /\ hubIn' = SubSeq(hubIn, PacketSize(hubIn) + 1, Len(hubIn))
      /\ UNCHANGED <<sent, toHub, hubOpen, clientIn, inQueue>>
    BY <1>1 DEF readNextPacket, ReadFromSocket, device, client
<1>3. /\ WellFormed(packet) /\ Fits(packet)
      /\ Len(packet) = PacketSize(hubIn) /\ Len(packet) <= MaxPacketSize
      /\ hubIn' \in Bytes
    BY <1>1, CutIsWellFormed
<1>4. /\ hubIn \in Bytes /\ toHub \in Bytes /\ sent \in Seq(Bytes) /\ cut \in Seq(Bytes)
      /\ Len(cut) \in Nat /\ Len(sent) \in Nat /\ packet \in Bytes
    BY <1>3 DEF FramingInv, Types, WellFormed
<1>5. /\ cut' \in Seq(Bytes) /\ Len(cut') = Len(cut) + 1
      /\ \A i \in 1 .. Len(cut) : cut'[i] = cut[i]
      /\ cut'[Len(cut) + 1] = packet
    BY <1>2, <1>4, OneMorePacket
<1>6. /\ delivered' \in Seq(Bytes) /\ toClient' \in Bytes
      /\ \A i \in 1 .. Len(delivered') : WellFormed(delivered'[i]) /\ Fits(delivered'[i])
      /\ ClientInOrder'
    BY <1>2, <1>3, DeliveryKeepsClient
<1>7. Types' /\ HeadersRight'
    BY <1>2, <1>3, <1>5, <1>6 DEF FramingInv, Types, HeadersRight
<1>8. ASSUME NoneWraps(Len(cut) + 1)
      PROVE  /\ Len(cut) < Len(sent) /\ packet = sent[Len(cut) + 1]
             /\ Laid(hubIn' \o toHub, sent, Len(cut) + 1)
    <2>1. PICK next : next = sent[Len(cut) + 1]
        OBVIOUS
    <2>2. Len(hubIn) >= FullHeaderSize /\ Len(hubIn) >= PacketSize(hubIn)
        BY <1>2 DEF PacketComplete
    <2>3. /\ Len(cut) < Len(sent) /\ PacketSize(hubIn) = Len(next)
          /\ \A k \in 1 .. Len(hubIn) : k <= Len(next) => hubIn[k] = next[k]
        BY <1>8, <2>1, <2>2, NextAtHub
    <2>4. Len(next) <= Len(hubIn) /\ \A k \in 1 .. Len(next) : hubIn[k] = next[k]
        <3>1. Len(next) \in Nat /\ Len(hubIn) \in Nat
            BY <1>4, <2>1, <2>3 DEF Bytes
        <3> QED BY <2>2, <2>3, <3>1
    <2>5. Laid(hubIn \o toHub, sent, Len(cut))
        BY <1>8 DEF FramingInv, HubInOrder
    <2>6. /\ SubSeq(hubIn, 1, Len(next)) = next
          /\ Laid(SubSeq(hubIn, Len(next) + 1, Len(hubIn)) \o toHub, sent, Len(cut) + 1)
        <3>1. PICK from \in Nat : from = Len(cut)
            BY <1>4
        <3>2. /\ Laid(hubIn \o toHub, sent, from) /\ from < Len(sent)
              /\ next = sent[from + 1]
            BY <2>1, <2>3, <2>5, <3>1
        <3>4. hubIn \in Bytes /\ toHub \in Bytes /\ sent \in Seq(Bytes)
            BY <1>4
        <3>3. /\ SubSeq(hubIn, 1, Len(next)) = next
              /\ SubSeq(hubIn, Len(next) + 1, Len(hubIn)) \in Bytes
              /\ Laid(SubSeq(hubIn, Len(next) + 1, Len(hubIn)) \o toHub, sent, from + 1)
            BY <2>4, <3>2, <3>4, CutFromBuffer, SMTT(60)
        <3> QED BY <3>1, <3>3
    <2> QED BY <1>1, <1>2, <2>1, <2>3, <2>6
<1>9. HubInOrder'
    <2>1. ASSUME NEW i \in 1 .. Len(cut'), NoneWraps(i)
          PROVE  i <= Len(sent) /\ cut'[i] = sent[i]
        <3>1. CASE i \in 1 .. Len(cut)
            BY <1>5, <2>1, <3>1 DEF FramingInv, HubInOrder
        <3>2. CASE i = Len(cut) + 1
            BY <1>4, <1>5, <1>8, <2>1, <3>2
        <3> QED BY <1>4, <1>5, <3>1, <3>2
    <2>2. ASSUME NoneWraps(Len(cut') + 1)
          PROVE  Laid(hubIn' \o toHub, sent, Len(cut'))
        <3>1. NoneWraps(Len(cut) + 1)
            BY <1>4, <1>5, <2>2 DEF NoneWraps
        <3> QED BY <1>5, <1>8, <3>1
    <2>3. \E m \in 0 .. Len(cut') : \A i \in 1 .. Len(cut') : NoneWraps(i) <=> i <= m
        <3>1. PICK m \in 0 .. Len(cut) : \A i \in 1 .. Len(cut) : NoneWraps(i) <=> i <= m
            BY DEF FramingInv, HubInOrder
        <3>2. CASE NoneWraps(Len(cut'))
            <4>1. \A i \in 1 .. Len(cut') : NoneWraps(i)
                BY <1>4, <1>5, <3>2 DEF NoneWraps
            <4>2. /\ Len(cut') \in 0 .. Len(cut')
                  /\ \A i \in 1 .. Len(cut') : NoneWraps(i) <=> i <= Len(cut')
                BY <1>4, <1>5, <4>1
            <4> QED BY <4>2, Zenon
        <3>3. CASE ~NoneWraps(Len(cut'))
            <4>1. \A i \in 1 .. Len(cut') : i \in 1 .. Len(cut) \/ i = Len(cut')
                BY <1>4, <1>5
            <4>2. m \in 0 .. Len(cut') /\ ~(Len(cut') <= m)
                BY <1>4, <1>5
            <4>3. \A i \in 1 .. Len(cut') : NoneWraps(i) <=> i <= m
                BY <3>1, <3>3, <4>1, <4>2
            <4> QED BY <4>2, <4>3
        <3> QED BY <3>2, <3>3
    <2> QED BY <1>2, <2>1, <2>2, <2>3 DEF HubInOrder, NoneWraps
<1>10. RefusedForSize'
    <2>1. DOMAIN cut = 1 .. Len(cut) /\ DOMAIN cut' = 1 .. Len(cut')
        BY <1>4, <1>5
    <2>2. ASSUME NEW i \in 1 .. Len(cut')
          PROVE  Len(cut'[i]) <= MaxPacketSize
        <3>1. i \in 1 .. Len(cut) \/ i = Len(cut) + 1
            BY <1>4, <1>5
        <3> QED BY <1>3, <1>5, <2>1, <3>1 DEF FramingInv, RefusedForSize
    <2> QED BY <1>2, <2>1, <2>2 DEF RefusedForSize
<1> QED BY <1>6, <1>7, <1>9, <1>10 DEF FramingInv

(* When the hub ends the connection while no size has wrapped but that of    *)
(* the packet it reads, this packet is too large.                            *)
LEMMA WrappingIsTooLarge ==
    ASSUME FramingInv, NoneWraps(Len(cut)), ~NoneWraps(Len(cut) + 1)
    PROVE  Len(cut) < Len(sent) /\ Len(sent[Len(cut) + 1]) > MaxPacketSize
<1>1. sent \in Seq(Bytes) /\ Len(cut) \in Nat /\ Len(sent) \in Nat
    BY DEF FramingInv, Types
<1>2. PICK i \in 1 .. Len(sent) : i <= Len(cut) + 1 /\ ~(Len(sent[i]) < WordSize)
    BY <1>1 DEF NoneWraps
<1>3. ~(i <= Len(cut))
    BY <1>1, <1>2 DEF NoneWraps
<1>4. i = Len(cut) + 1 /\ Len(sent[i]) \in Nat
    BY <1>1, <1>2, <1>3 DEF Bytes
<1> QED BY <1>1, <1>2, <1>4, SizesFit

(* The hub reads a packet whose size has wrapped.                            *)
LEMMA ClearingKeepsInv ==
    ASSUME FramingInv, ReadClearedPacket
    PROVE  FramingInv'
<1>1. /\ PacketComplete(hubIn) /\ PacketSize(hubIn) < FullHeaderSize
      /\ hubIn' = SubSeq(hubIn, PacketSize(hubIn) + 1, Len(hubIn))
      /\ hubOpen' \in BOOLEAN
      /\ UNCHANGED <<sent, toHub, cut, delivered, toClient, clientIn, inQueue>>
    BY DEF ReadClearedPacket, ReadFromSocket, device, link, client
<1>2. sent \in Seq(Bytes) /\ Len(cut) \in Nat /\ hubIn \in Bytes
    BY DEF FramingInv, Types
<1>3. hubIn' \in Bytes
    <2>1. PICK in \in Bytes : in = hubIn
        BY <1>2
    <2>2. Len(in) \in Nat /\ 3 <= Len(in) /\ PacketSize(in) <= Len(in)
        BY <1>1, <2>1
           DEF PacketComplete, FullHeaderSize, PacketHeaderSize, MessageHeaderSize, Bytes
    <2>3. in[3] \in Words
        BY <2>2 DEF Bytes
    <2>4. PICK size \in Words : size = PacketSize(in)
        BY <2>3, SumOfSizes
           DEF PacketSize, FullHeaderSize, PacketHeaderSize, MessageHeaderSize
    <2>5. size \in Nat /\ size <= Len(in)
        BY <2>2, <2>4, SizesFit
    <2>6. SubSeq(in, size + 1, Len(in)) \in Bytes
        BY <2>5, RestOfBytes
    <2> QED BY <1>1, <2>1, <2>4, <2>6
<1>4. Types' /\ HeadersRight' /\ ClientInOrder'
    BY <1>1, <1>3 DEF FramingInv, Types, HeadersRight, ClientInOrder, AllInOnePacket
<1>5. ~NoneWraps(Len(cut) + 1)
    <2> SUFFICES ASSUME NoneWraps(Len(cut) + 1)
                 PROVE  FALSE
        OBVIOUS
    <2>1. PICK packet : packet = sent[Len(cut) + 1]
        OBVIOUS
    <2>2. WellFormed(packet) /\ PacketSize(hubIn) = Len(packet)
        BY <1>1, <2>1, NextAtHub DEF PacketComplete
    <2>3. Len(packet) \in Nat /\ Len(packet) >= 3
        BY <2>2
           DEF WellFormed, FullHeaderSize, PacketHeaderSize, MessageHeaderSize, Bytes
    <2> QED BY <1>1, <2>2, <2>3 DEF FullHeaderSize, PacketHeaderSize, MessageHeaderSize
<1>6. HubInOrder'
    BY <1>1, <1>5 DEF FramingInv, HubInOrder, NoneWraps
<1>7. RefusedForSize'
    <2>1. NoneWraps(Len(cut)) => Len(cut) < Len(sent) /\ Len(sent[Len(cut) + 1]) > MaxPacketSize
        BY <1>5, WrappingIsTooLarge
    <2> QED BY <1>1, <2>1 DEF FramingInv, RefusedForSize, NoneWraps
<1> QED BY <1>4, <1>6, <1>7 DEF FramingInv

(* The hub ends the connection for the size of the packet it would read next.*)
LEMMA RefusalKeepsInv ==
    ASSUME FramingInv, RefusePacket
    PROVE  FramingInv'
<1>1. /\ TooLarge(hubIn) /\ hubOpen' = FALSE
      /\ UNCHANGED <<sent, toHub, hubIn, cut, delivered, toClient, clientIn, inQueue>>
    BY DEF RefusePacket, device, link, client
<1>2. NoneWraps(Len(cut)) => Len(cut) < Len(sent) /\ Len(sent[Len(cut) + 1]) > MaxPacketSize
    <2>1. CASE NoneWraps(Len(cut) + 1)
        BY <1>1, <2>1, NextAtHub DEF TooLarge
    <2> QED BY <2>1, WrappingIsTooLarge
<1>3. Types' /\ HeadersRight' /\ HubInOrder' /\ ClientInOrder'
    BY <1>1 DEF FramingInv, Types, HeadersRight, HubInOrder, NoneWraps, ClientInOrder,
                AllInOnePacket
<1>4. RefusedForSize'
    BY <1>1, <1>2 DEF FramingInv, RefusedForSize, NoneWraps
<1> QED BY <1>3, <1>4 DEF FramingInv

(* The client reads a message.  Whatever its size is taken to be, what is    *)
(* cut out and what is left are bytes.                                       *)
LEMMA MessageIsBytes ==
    ASSUME NEW in \in Bytes, MessageComplete(in),
           NEW end, end = Min({PacketHeaderSize + MessageSize(in), Len(in)})
    PROVE  /\ MessageSize(in) \in Words
           /\ end \in Nat /\ 2 <= end /\ end <= Len(in)
           /\ 2 + MessageSize(in) <= Len(in) => end = 2 + MessageSize(in)
           /\ \E raw \in Bytes :
                  /\ raw = SubSeq(in, PacketHeaderSize + 1, end)
                  /\ Len(raw) = end - 2
                  /\ \A k \in 1 .. end - 2 : raw[k] = in[2 + k]
           /\ SubSeq(in, end + 1, Len(in)) \in Bytes
<1>1. Len(in) \in Nat /\ Len(in) >= 3
    BY DEF MessageComplete, FullHeaderSize, PacketHeaderSize, MessageHeaderSize, Bytes
<1>2. in[1] \in Words
    BY <1>1 DEF Bytes
<1>3. PICK size \in Words : size = MessageSize(in)
    BY <1>2, SumOfSizes DEF MessageSize, MessageHeaderSize
<1>4. size \in Nat
    BY SizesFit
<1>5. end \in {2 + size, Len(in)} /\ end <= 2 + size /\ end <= Len(in)
    <2>1. PICK x \in {2 + size, Len(in)} : \A y \in {2 + size, Len(in)} : x <= y
        BY <1>1, <1>4
    <2>2. end = CHOOSE x1 \in {2 + size, Len(in)} : \A y \in {2 + size, Len(in)} : x1 <= y
        BY <1>3 DEF Min, PacketHeaderSize
    <2>3. end \in {2 + size, Len(in)} /\ \A y \in {2 + size, Len(in)} : end <= y
        BY <2>1, <2>2
    <2> QED BY <2>3
<1>6. end \in Nat /\ 2 <= end /\ (2 + size <= Len(in) => end = 2 + size)
    BY <1>1, <1>4, <1>5
<1>7. PICK raw : raw = SubSeq(in, 3, end)
    OBVIOUS
<1>8. raw \in Bytes /\ Len(raw) = end - 2 /\ \A k \in 1 .. end - 2 : raw[k] = in[2 + k]
    BY <1>5, <1>6, <1>7, BytesFromThird, Zenon
<1>9. SubSeq(in, end + 1, Len(in)) \in Bytes
    <2>1. PICK rest : rest = SubSeq(in, end + 1, Len(in))
        OBVIOUS
    <2>2. rest \in Bytes
        BY <1>5, <1>6, <2>1, RestOfBytes
    <2> QED BY <2>1, <2>2
<1>10. PacketHeaderSize + 1 = 3
    BY DEF PacketHeaderSize
<1>11. raw = SubSeq(in, PacketHeaderSize + 1, end)
    BY <1>7, <1>10
<1> QED BY <1>3, <1>5, <1>6, <1>8, <1>9, <1>11

\* What has arrived begins with the header of a packet, and with the packet as far as it goes.
Begins(in, packet) ==
    /\ \A k \in 1 .. FullHeaderSize : in[k] = packet[k]
    /\ \A k \in 1 .. Len(in) : k <= Len(packet) => in[k] = packet[k]

(* A message that is in one packet is read as it was written, and nothing of *)
(* the next one with it.                                                     *)
LEMMA WholeMessageIsRead ==
    ASSUME NEW in \in Bytes, MessageComplete(in),
           NEW end, end = Min({PacketHeaderSize + MessageSize(in), Len(in)}),
           NEW packet, WellFormed(packet), Fits(packet), InOnePacket(packet),
           Begins(in, packet)
    PROVE  /\ end = Len(packet)
           /\ in[2] = 0
           /\ Len(SubSeq(in, PacketHeaderSize + 1, end)) = Int32(MessageSize(in))
           /\ fromByteArray(SubSeq(in, PacketHeaderSize + 1, end)) = MessageIn(packet)
<1>1. in[1] = packet[1] /\ in[2] = packet[2] /\ in[3] = packet[3]
    BY DEF Begins, FullHeaderSize, PacketHeaderSize, MessageHeaderSize
<1>2. packet[3] \in Words
    BY DEF WellFormed, Bytes, FullHeaderSize, PacketHeaderSize, MessageHeaderSize
<1>3. PICK len \in Nat : len = Len(packet)
    BY DEF WellFormed, Bytes
<1>4. len = 3 + packet[3] /\ 3 <= len /\ len <= 2 + MaxInt /\ packet[3] \in Nat
    BY <1>2, <1>3, SizesFit
       DEF WellFormed, Fits, FullHeaderSize, PacketHeaderSize, MessageHeaderSize
<1>5. MessageEnd(in) = len /\ MessageSize(in) = len - 2 /\ in[2] = 0
    <2>1. in[1] = packet[3] /\ in[2] = 0
        BY <1>1 DEF InOnePacket
    <2>2. 3 + packet[3] < WordSize /\ 1 + packet[3] < WordSize
        BY <1>4, SizesFit
    <2>3. Word(3 + packet[3]) = 3 + packet[3] /\ Word(1 + packet[3]) = 1 + packet[3]
        BY <1>2, <2>2, SumOfSizes
    <2> QED BY <1>4, <2>1, <2>3
            DEF MessageEnd, MessageSize, FullHeaderSize, PacketHeaderSize, MessageHeaderSize
<1>6. len <= Len(in) /\ Len(in) \in Nat
    BY <1>5 DEF MessageComplete, Bytes
<1>7. end = len
    <2>1. 2 + MessageSize(in) <= Len(in) => end = 2 + MessageSize(in)
        BY MessageIsBytes, Zenon
    <2> QED BY <1>4, <1>5, <1>6, <2>1
<1>8. PICK raw \in Bytes :
          /\ raw = SubSeq(in, PacketHeaderSize + 1, end)
          /\ Len(raw) = end - 2
          /\ \A k \in 1 .. end - 2 : raw[k] = in[2 + k]
    BY MessageIsBytes
<1>9. Len(raw) = len - 2 /\ \A k \in 1 .. len - 2 : raw[k] = in[2 + k]
    BY <1>7, <1>8
<1>10. PICK message : message = SubSeq(packet, 3, len)
    OBVIOUS
<1>11. /\ message \in Bytes /\ Len(message) = len - 2
       /\ \A k \in 1 .. len - 2 : message[k] = packet[2 + k]
    <2>1. packet \in Bytes /\ 2 <= len /\ len <= Len(packet)
        BY <1>3, <1>4 DEF WellFormed
    <2> QED BY <1>10, <2>1, BytesFromThird, Zenon
<1>12. raw = message
    <2>1. ASSUME NEW k \in 1 .. len - 2
          PROVE  raw[k] = message[k]
        <3>1. 2 + k \in 1 .. Len(in) /\ 2 + k <= Len(packet)
            BY <1>3, <1>4, <1>6
        <3>2. in[2 + k] = packet[2 + k]
            BY <3>1 DEF Begins
        <3> QED BY <1>9, <1>11, <3>2
    <2>2. raw \in Seq(Words) /\ message \in Seq(Words)
        BY <1>11 DEF Bytes
    <2>3. Len(raw) = Len(message) /\ \A k \in 1 .. Len(raw) : raw[k] = message[k]
        BY <1>9, <1>11, <2>1
    <2> QED BY <2>2, <2>3, SeqEqual
<1>13. Len(raw) = Int32(MessageSize(in))
    BY <1>4, <1>5, <1>9, SizesFit DEF Int32
<1>14. fromByteArray(raw) = raw
    <2>1. 1 \in 1 .. len - 2 /\ Len(raw) = 1 + packet[3] /\ Len(raw) \in Nat
        BY <1>4, <1>9
    <2>2. raw[1] = packet[3]
        BY <1>1, <1>9, <2>1
    <2>3. 1 + packet[3] <= MaxInt /\ 1 + packet[3] < WordSize
        BY <1>4, SizesFit
    <2>4. Int32(Word(1 + raw[1])) = 1 + packet[3]
        BY <1>2, <2>2, <2>3, SumOfSizes DEF Int32
    <2>5. Len(raw) >= 1 /\ Len(raw) = Int32(Word(1 + raw[1]))
        BY <1>4, <2>1, <2>4
    <2> QED BY <2>5, Zenon DEF fromByteArray, MessageHeaderSize
<1>15. message = MessageIn(packet)
    BY <1>3, <1>10 DEF MessageIn, PacketHeaderSize
<1> QED BY <1>3, <1>5, <1>7, <1>8, <1>12, <1>13, <1>14, <1>15

\* What fromByteArray() returns is what it was given, or nothing.
LEMMA MessageFromBytes ==
    ASSUME NEW raw \in Bytes
    PROVE  fromByteArray(raw) \in Bytes
<1>1. <<>> \in Bytes
    BY DEF Bytes
<1> QED BY <1>1 DEF fromByteArray, Null

(* The client reads: what is left are bytes, and as long as nothing but      *)
(* whole messages was delivered, it reads the first it has not read.         *)
LEMMA MessageReadKeepsInv ==
    ASSUME FramingInv, readNextMessageFromSocket
    PROVE  FramingInv'
<1>1. PICK in : in = clientIn
    OBVIOUS
<1>2. /\ in \in Bytes /\ toClient \in Bytes /\ delivered \in Seq(Bytes)
      /\ inQueue \in Seq(Bytes) /\ Len(inQueue) \in Nat /\ Len(delivered) \in Nat
    BY <1>1 DEF FramingInv, Types
<1>3. MessageComplete(in)
    BY <1>1 DEF readNextMessageFromSocket
<1>4. PICK end : end = Min({PacketHeaderSize + MessageSize(in), Len(in)})
    OBVIOUS
<1>5. PICK rest : rest = SubSeq(in, end + 1, Len(in))
    OBVIOUS
<1>12. PICK raw \in Bytes : raw = SubSeq(in, PacketHeaderSize + 1, end)
    BY <1>2, <1>3, <1>4, MessageIsBytes, Zenon
<1>13. PICK read : read = fromByteArray(raw)
    OBVIOUS
<1>6. read \in Bytes /\ rest \in Bytes /\ end <= Len(in)
    BY <1>2, <1>3, <1>4, <1>5, <1>13, MessageIsBytes, MessageFromBytes, Zenon
<1>7. /\ inQueue' = IF in[2] # 0 \/ Len(raw) # Int32(MessageSize(in)) THEN inQueue
                    ELSE Append(inQueue, read)
      /\ clientIn' = rest
      /\ UNCHANGED <<sent, toHub, hubIn, hubOpen, cut, delivered, toClient>>
    BY <1>1, <1>4, <1>5, <1>12, <1>13
       DEF readNextMessageFromSocket, device, hub, link
<1>8. Types'
    <2>1. inQueue' \in Seq(Bytes)
        BY <1>2, <1>6, <1>7, OneMorePacket
    <2> QED BY <1>6, <1>7, <2>1 DEF FramingInv, Types
<1>9. HeadersRight' /\ HubInOrder' /\ RefusedForSize'
    BY <1>7 DEF FramingInv, HeadersRight, HubInOrder, NoneWraps, RefusedForSize
<1>10. ASSUME AllInOnePacket
       PROVE  /\ Len(inQueue') <= Len(delivered)
              /\ \A i \in 1 .. Len(inQueue') : inQueue'[i] = MessageIn(delivered[i])
              /\ Laid(rest \o toClient, delivered, Len(inQueue'))
    <2>1. /\ \A i \in 1 .. Len(inQueue) : inQueue[i] = MessageIn(delivered[i])
          /\ Laid(in \o toClient, delivered, Len(inQueue))
        BY <1>1, <1>10 DEF FramingInv, ClientInOrder
    <2>2. PICK packet : packet = delivered[Len(inQueue) + 1]
        OBVIOUS
    <2>3. /\ Len(in) >= FullHeaderSize
          /\ \A i \in 1 .. Len(delivered) : WellFormed(delivered[i]) /\ Fits(delivered[i])
        BY <1>3 DEF MessageComplete, FramingInv, HeadersRight
    <2>4. /\ Len(inQueue) < Len(delivered) /\ WellFormed(packet)
          /\ \A k \in 1 .. FullHeaderSize : in[k] = packet[k]
          /\ \A k \in 1 .. Len(in) : k <= Len(packet) => in[k] = packet[k]
        BY <1>2, <2>1, <2>2, <2>3, HeadOfBuffer
    <2>5. InOnePacket(packet) /\ Fits(packet)
        <3>1. Len(inQueue) + 1 \in DOMAIN delivered
            BY <1>2, <2>4
        <3> QED BY <1>2, <1>10, <2>2, <2>3, <3>1 DEF AllInOnePacket
    <2>6. /\ end = Len(packet) /\ in[2] = 0 /\ Len(raw) = Int32(MessageSize(in))
          /\ read = MessageIn(packet)
        <3>1. /\ end = Len(packet) /\ in[2] = 0
              /\ Len(SubSeq(in, PacketHeaderSize + 1, end)) = Int32(MessageSize(in))
              /\ fromByteArray(SubSeq(in, PacketHeaderSize + 1, end)) = MessageIn(packet)
            <4>1. in \in Bytes /\ WellFormed(packet) /\ Begins(in, packet)
                BY <1>2, <2>4 DEF Begins
            <4> QED BY <1>3, <1>4, <2>5, <4>1, WholeMessageIsRead, Zenon
        <3> QED BY <1>12, <1>13, <3>1, Zenon
    <2>7. inQueue' = Append(inQueue, read)
        BY <1>7, <2>6
    <2>8. /\ Len(inQueue') = Len(inQueue) + 1
          /\ \A i \in 1 .. Len(inQueue) : inQueue'[i] = inQueue[i]
          /\ inQueue'[Len(inQueue) + 1] = MessageIn(packet)
        BY <1>2, <1>6, <2>6, <2>7, OneMorePacket
    <2>9. Laid(rest \o toClient, delivered, Len(inQueue) + 1)
        <3>1. Len(packet) <= Len(in) /\ \A k \in 1 .. Len(packet) : in[k] = packet[k]
            <4>1. Len(packet) \in Nat /\ Len(in) \in Nat
                BY <1>2, <2>4 DEF WellFormed, Bytes
            <4>2. Len(packet) <= Len(in)
                BY <1>6, <2>6
            <4> QED BY <2>4, <4>1, <4>2
        <3>2. /\ SubSeq(in, 1, Len(packet)) = packet
              /\ SubSeq(in, Len(packet) + 1, Len(in)) \in Bytes
              /\ Laid(SubSeq(in, Len(packet) + 1, Len(in)) \o toClient, delivered, Len(inQueue) + 1)
            <4>1. PICK from \in Nat : from = Len(inQueue)
                BY <1>2
            <4>2. Laid(in \o toClient, delivered, from) /\ from < Len(delivered)
                BY <2>1, <2>4, <4>1
            <4>3. packet = delivered[from + 1]
                BY <2>2, <4>1
            <4>4. in \in Bytes /\ toClient \in Bytes /\ delivered \in Seq(Bytes)
                BY <1>2
            <4>5. /\ SubSeq(in, 1, Len(packet)) = packet
                  /\ SubSeq(in, Len(packet) + 1, Len(in)) \in Bytes
                  /\ Laid(SubSeq(in, Len(packet) + 1, Len(in)) \o toClient, delivered, from + 1)
                BY <3>1, <4>2, <4>3, <4>4, CutFromBuffer
            <4> QED BY <4>1, <4>5
        <3> QED BY <1>5, <2>6, <3>2, Zenon
    <2>10. ASSUME NEW i \in 1 .. Len(inQueue')
           PROVE  inQueue'[i] = MessageIn(delivered[i])
        <3>1. i \in 1 .. Len(inQueue) \/ i = Len(inQueue) + 1
            BY <1>2, <2>8
        <3> QED BY <2>1, <2>2, <2>8, <3>1
    <2>11. Len(inQueue') <= Len(delivered)
        BY <1>2, <2>4, <2>8
    <2> QED BY <2>8, <2>9, <2>10, <2>11
<1>11. ClientInOrder'
    BY <1>7, <1>10 DEF ClientInOrder, AllInOnePacket
<1> QED BY <1>8, <1>9, <1>11 DEF FramingInv

LEMMA StepKeepsFraming ==
    FramingInv /\ [Next]_vars => FramingInv'
<1> SUFFICES ASSUME FramingInv, [Next]_vars
             PROVE  FramingInv'
    OBVIOUS
<1>1. ASSUME NEW d \in Payloads, writeMessageToSocket(d)
      PROVE  FramingInv'
    <2>1. d \in Bytes /\ 1 + Len(d) <= MaxInt
        BY FramingAssumption DEF FramingAssumption, Bytes, MessageHeaderSize
    <2>2. PICK packet : packet = Packet(Len(d), 0, d)
        OBVIOUS
    <2>3. WellFormed(packet)
        BY <2>1, <2>2, MadeByLibrary
    <2>4. Written(packet)
        BY <1>1, <2>2 DEF writeMessageToSocket
    <2> QED BY <2>3, <2>4, WrittenKeepsInv
<1>2. ASSUME NEW p \in OtherPackets, OtherDeviceWrites(p)
      PROVE  FramingInv'
    <2>1. /\ p.msgSize \in Words /\ p.offset \in Words /\ p.data \in Bytes
          /\ Len(p.data) \in Words
        BY FramingAssumption DEF FramingAssumption, Bytes
    <2>2. PICK packet : packet = Packet(p.msgSize, p.offset, p.data)
        OBVIOUS
    <2>3. WellFormed(packet)
        BY <2>1, <2>2, PacketIsWellFormed
    <2>4. Written(packet)
        BY <1>2, <2>2 DEF OtherDeviceWrites
    <2> QED BY <2>3, <2>4, WrittenKeepsInv
<1>3. ASSUME NEW d \in AnswerData, sendMessage(d)
      PROVE  FramingInv'
    BY <1>3, AnswerKeepsInv
<1>4. CASE ArriveAtHub
    BY <1>4, ArrivalAtHubKeepsInv
<1>5. CASE readNextPacket
    BY <1>5, ReadingKeepsInv
<1>10. CASE ReadClearedPacket
    BY <1>10, ClearingKeepsInv
<1>6. CASE RefusePacket
    BY <1>6, RefusalKeepsInv
<1>7. CASE ArriveAtClient
    BY <1>7, ArrivalAtClientKeepsInv
<1>8. CASE readNextMessageFromSocket
    BY <1>8, MessageReadKeepsInv
<1>9. CASE UNCHANGED vars
    BY <1>9 DEF vars, device, hub, link, client, FramingInv, Types, HeadersRight,
                HubInOrder, ClientInOrder, AllInOnePacket, RefusedForSize, NoneWraps
<1> QED BY <1>1, <1>2, <1>3, <1>4, <1>5, <1>6, <1>7, <1>8, <1>9, <1>10 DEF Next

THEOREM FramingInvariant == Spec => []FramingInv
BY InitFraming, StepKeepsFraming, PTL DEF Spec

-----------------------------------------------------------------------------
(* What the connection promises.                                             *)

(* Whatever its header says, no packet above MaxPacketSize is taken, also    *)
(* where the quint32 sum of readNextPacket() wraps.  As long as the size of  *)
(* no packet it has taken wraps, the hub ends a connection only when the     *)
(* next packet is too large, a size that wraps included.                     *)
THEOREM OnlyTooLargeIsRefused == Spec => []RefusedForSize
<1>1. FramingInv => RefusedForSize
    BY DEF FramingInv
<1> QED BY <1>1, FramingInvariant, PTL

\* A sequence whose elements are the first of another is a prefix of it.
LEMMA PrefixByElements ==
    ASSUME NEW s \in Seq(Bytes), NEW t \in Seq(Bytes), Len(s) <= Len(t),
           \A i \in 1 .. Len(s) : s[i] = t[i]
    PROVE  IsPrefix(s, t)
<1>1. Len(s) \in Nat /\ Len(t) \in Nat
    OBVIOUS
<1>2. PICK n \in Nat : n = Len(s)
    BY <1>1
<1>3. PICK part : part = SubSeq(t, 1, n)
    OBVIOUS
<1>4. PICK same : same = SubSeq(s, 1, n)
    OBVIOUS
<1>5. part \in Seq(Bytes) /\ Len(part) = n /\ \A i \in 1 .. n : part[i] = t[i]
    <2>1. n <= Len(t) /\ 1 \in Int /\ n \in Int /\ \A i \in 1 .. n : t[i] \in Bytes
        BY <1>1, <1>2
    <2>2. /\ SubSeq(t, 1, n) \in Seq(Bytes)
          /\ Len(SubSeq(t, 1, n)) = IF 1 <= n THEN n - 1 + 1 ELSE 0
          /\ \A i \in 1 .. n - 1 + 1 : SubSeq(t, 1, n)[i] = t[1 + i - 1]
        BY <2>1, SubSeqProperties
    <2>3. /\ part \in Seq(Bytes)
          /\ Len(part) = IF 1 <= n THEN n - 1 + 1 ELSE 0
          /\ \A i \in 1 .. n - 1 + 1 : part[i] = t[1 + i - 1]
        BY <1>3, <2>2, Zenon
    <2> QED BY <2>3
<1>6. same = s
    BY <1>2, <1>4, SubSeqFull
<1>7. part = s
    BY <1>2, <1>5, SeqEqual
<1> QED BY <1>2, <1>3, <1>4, <1>6, <1>7 DEF IsPrefix

(* The client reads every message as it was delivered, none twice and none   *)
(* skipped, as long as no part of a larger message was delivered.            *)
THEOREM WholeMessagesAreRead == Spec => []ClientReadsWhole
<1>1. FramingInv => ClientReadsWhole
    <2> SUFFICES ASSUME FramingInv, AllInOnePacket
                 PROVE  IsPrefix(inQueue, [i \in DOMAIN delivered |-> MessageIn(delivered[i])])
        BY DEF ClientReadsWhole
    <2> DEFINE messages == [i \in DOMAIN delivered |-> MessageIn(delivered[i])]
    <2>1. /\ inQueue \in Seq(Bytes) /\ delivered \in Seq(Bytes)
          /\ Len(inQueue) <= Len(delivered)
          /\ \A i \in 1 .. Len(inQueue) : inQueue[i] = MessageIn(delivered[i])
          /\ \A i \in 1 .. Len(delivered) : WellFormed(delivered[i])
        BY DEF FramingInv, Types, HeadersRight, ClientInOrder
    <2>2. ASSUME NEW i \in 1 .. Len(delivered)
          PROVE  MessageIn(delivered[i]) \in Bytes
        <3>1. PICK packet : packet = delivered[i]
            OBVIOUS
        <3>2. WellFormed(packet)
            BY <2>1, <3>1
        <3>3. PICK n \in Nat : n = Len(packet)
            BY <3>2 DEF WellFormed, Bytes
        <3>4. packet \in Bytes /\ 2 <= n /\ n <= Len(packet)
            BY <3>2, <3>3 DEF WellFormed, FullHeaderSize, PacketHeaderSize, MessageHeaderSize
        <3>5. PICK part : part = SubSeq(packet, 3, n)
            OBVIOUS
        <3>6. part \in Bytes
            BY <3>4, <3>5, BytesFromThird, Zenon
        <3>7. PacketHeaderSize + 1 = 3
            BY DEF PacketHeaderSize
        <3> QED BY <3>1, <3>3, <3>5, <3>6, <3>7, Zenon DEF MessageIn
    <2>3. messages \in Seq(Bytes) /\ Len(messages) = Len(delivered)
          /\ \A i \in 1 .. Len(delivered) : messages[i] = MessageIn(delivered[i])
        <3>1. messages = [i \in 1 .. Len(delivered) |-> MessageIn(delivered[i])]
            BY <2>1
        <3>2. Len(delivered) \in Nat
            BY <2>1
        <3> QED BY <2>2, <3>1, <3>2
    <2>4. \A i \in 1 .. Len(inQueue) : inQueue[i] = messages[i]
        <3>1. \A i \in 1 .. Len(inQueue) : i \in 1 .. Len(delivered)
            BY <2>1
        <3> HIDE DEF messages
        <3> QED BY <2>1, <2>3, <3>1
    <2> HIDE DEF messages
    <2>5. IsPrefix(inQueue, messages)
        BY <2>1, <2>3, <2>4, PrefixByElements
    <2> QED BY <2>5 DEF messages
<1> QED BY <1>1, FramingInvariant, PTL

(* The packets cut out before a size wraps are the first that were written.  *)
Short(packets, n) == \A i \in DOMAIN packets : i <= n => Len(packets[i]) < WordSize

Unwrapped(c, s) == [i \in {j \in DOMAIN c : Short(s, j)} |-> c[i]]

FirstUnwrapped(c, s, m) ==
    /\ \A i \in 1 .. Len(c) : Short(s, i) <=> i <= m
    /\ \A i \in 1 .. Len(c) : Short(s, i) => i <= Len(s) /\ c[i] = s[i]

LEMMA UnwrappedPart ==
    ASSUME NEW c \in Seq(Bytes), NEW s \in Seq(Bytes), NEW m \in 0 .. Len(c),
           FirstUnwrapped(c, s, m), NEW u, u = Unwrapped(c, s)
    PROVE  /\ u \in Seq(Bytes) /\ Len(u) = m /\ m <= Len(s)
           /\ \A i \in 1 .. m : u[i] = s[i]
<1>1. Len(c) \in Nat /\ DOMAIN c = 1 .. Len(c) /\ m \in Nat /\ m <= Len(c) /\ Len(s) \in Nat
    OBVIOUS
<1>2. {j \in DOMAIN c : Short(s, j)} = 1 .. m
    BY <1>1 DEF FirstUnwrapped
<1>3. /\ \A i \in 1 .. m : i \in 1 .. Len(c) /\ Short(s, i) /\ c[i] \in Bytes
      /\ \A i \in 1 .. m : i <= Len(s) /\ c[i] = s[i]
    BY <1>1 DEF FirstUnwrapped
<1>4. u = [i \in 1 .. m |-> c[i]]
    BY <1>2, Zenon DEF Unwrapped
<1>5. u \in Seq(Bytes) /\ Len(u) = m /\ \A i \in 1 .. m : u[i] = c[i]
    BY <1>1, <1>3, <1>4
<1>6. m <= Len(s)
    <2>1. CASE m = 0
        BY <1>1, <2>1
    <2>2. CASE m > 0
        BY <1>1, <1>3, <2>2
    <2> QED BY <1>1, <2>1, <2>2
<1> QED BY <1>3, <1>5, <1>6

\* What is written stays written, and what is cut out stays cut out.
LEMMA StepGrows ==
    ASSUME FramingInv, [Next]_vars
    PROVE  /\ Len(sent) <= Len(sent') /\ \A i \in 1 .. Len(sent) : sent'[i] = sent[i]
           /\ Len(cut) <= Len(cut')
<1>1. /\ sent \in Seq(Bytes) /\ Len(sent) \in Nat
      /\ cut \in Seq(Bytes) /\ Len(cut) \in Nat
    BY DEF FramingInv, Types
<1>2. ASSUME NEW packet, WellFormed(packet), Written(packet)
      PROVE  /\ Len(sent) <= Len(sent') /\ \A i \in 1 .. Len(sent) : sent'[i] = sent[i]
             /\ Len(cut) <= Len(cut')
    <2>1. packet \in Bytes /\ sent' = Append(sent, packet) /\ cut' = cut
        BY <1>2 DEF WellFormed, Written, hub
    <2>2. Len(sent') = Len(sent) + 1 /\ \A i \in 1 .. Len(sent) : sent'[i] = sent[i]
        BY <1>1, <2>1, OneMorePacket
    <2> QED BY <1>1, <2>1, <2>2
<1>3. ASSUME NEW d \in Payloads, writeMessageToSocket(d)
      PROVE  \E packet : WellFormed(packet) /\ Written(packet)
    <2>1. d \in Bytes /\ 1 + Len(d) <= MaxInt
        BY FramingAssumption DEF FramingAssumption, Bytes, MessageHeaderSize
    <2>2. PICK packet : packet = Packet(Len(d), 0, d)
        OBVIOUS
    <2> QED BY <1>3, <2>1, <2>2, MadeByLibrary DEF writeMessageToSocket
<1>4. ASSUME NEW p \in OtherPackets, OtherDeviceWrites(p)
      PROVE  \E packet : WellFormed(packet) /\ Written(packet)
    <2>1. /\ p.msgSize \in Words /\ p.offset \in Words /\ p.data \in Bytes
          /\ Len(p.data) \in Words
        BY FramingAssumption DEF FramingAssumption, Bytes
    <2>2. PICK packet : packet = Packet(p.msgSize, p.offset, p.data)
        OBVIOUS
    <2> QED BY <1>4, <2>1, <2>2, PacketIsWellFormed DEF OtherDeviceWrites
<1>5. ASSUME readNextPacket
      PROVE  sent' = sent /\ Len(cut) <= Len(cut')
    <2>1. PICK packet : packet = SubSeq(hubIn, 1, PacketSize(hubIn))
        OBVIOUS
    <2>2. packet \in Bytes /\ cut' = Append(cut, packet) /\ sent' = sent
        BY <1>5, <2>1, CutIsWellFormed DEF readNextPacket, WellFormed, device
    <2>3. Len(cut') = Len(cut) + 1
        BY <1>1, <2>2, OneMorePacket
    <2> QED BY <1>1, <2>2, <2>3
<1>6. ASSUME \/ \E d \in AnswerData : sendMessage(d)
             \/ ArriveAtHub \/ ReadClearedPacket \/ RefusePacket
             \/ ArriveAtClient \/ readNextMessageFromSocket
             \/ UNCHANGED vars
      PROVE  sent' = sent /\ cut' = cut
    BY <1>6 DEF sendMessage, ArriveAtHub, ReadClearedPacket, RefusePacket, ArriveAtClient,
                readNextMessageFromSocket, vars, device, hub
<1>7. CASE \/ \E d \in Payloads : writeMessageToSocket(d)
           \/ \E p \in OtherPackets : OtherDeviceWrites(p)
    BY <1>2, <1>3, <1>4, <1>7, Zenon
<1>8. CASE \/ readNextPacket
           \/ \E d \in AnswerData : sendMessage(d)
           \/ ArriveAtHub \/ ReadClearedPacket \/ RefusePacket
           \/ ArriveAtClient \/ readNextMessageFromSocket
           \/ UNCHANGED vars
    <2>1. sent' = sent /\ Len(cut) <= Len(cut')
        BY <1>1, <1>5, <1>6, <1>8
    <2> QED BY <1>1, <2>1
<1> QED BY <1>7, <1>8, Zenon DEF Next

(* The bytes between a device and the hub implement a pipe of packets: each  *)
(* is cut out whole, once, and in the order in which they were written, up   *)
(* to the first whose size wraps in the sum of readNextPacket().             *)
THEOREM HubImplementsPipe == Spec => HubReadsPackets
<1>1. Init => HubPipe!Init
    <2> SUFFICES ASSUME Init
                 PROVE  sent = <<>> /\ CutUnwrapped = <<>>
        BY DEF HubPipe!Init
    <2>1. cut = <<>> /\ sent = <<>>
        BY DEF Init
    <2>2. {j \in DOMAIN cut : NoneWraps(j)} = {}
        BY <2>1
    <2>3. CutUnwrapped = [i \in {} |-> cut[i]]
        BY <2>2, Zenon DEF CutUnwrapped
    <2> QED BY <2>1, <2>3
<1>2. FramingInv /\ FramingInv' /\ [Next]_vars => [HubPipe!Next]_<<sent, CutUnwrapped>>
    <2> SUFFICES ASSUME FramingInv, FramingInv', [Next]_vars
                 PROVE  HubPipe!Next
        OBVIOUS
    <2>1. /\ sent \in Seq(Bytes) /\ cut \in Seq(Bytes)
          /\ sent' \in Seq(Bytes) /\ cut' \in Seq(Bytes)
        BY DEF FramingInv, Types
    <2>2. /\ Len(sent) <= Len(sent') /\ \A i \in 1 .. Len(sent) : sent'[i] = sent[i]
          /\ Len(cut) <= Len(cut')
        BY StepGrows
    <2>3. PICK m \in 0 .. Len(cut) : \A i \in 1 .. Len(cut) : Short(sent, i) <=> i <= m
        BY DEF FramingInv, HubInOrder, NoneWraps, Short
    <2>4. PICK n \in 0 .. Len(cut') : \A i \in 1 .. Len(cut') : Short(sent', i) <=> i <= n
        BY DEF FramingInv, HubInOrder, NoneWraps, Short
    <2>5. PICK u : u = Unwrapped(cut, sent)
        OBVIOUS
    <2>6. PICK v : v = Unwrapped(cut', sent')
        OBVIOUS
    <2>7. /\ u \in Seq(Bytes) /\ Len(u) = m /\ m <= Len(sent)
          /\ \A i \in 1 .. m : u[i] = sent[i]
        <3>1. FirstUnwrapped(cut, sent, m)
            BY <2>3 DEF FramingInv, HubInOrder, NoneWraps, Short, FirstUnwrapped
        <3> QED BY <2>1, <2>5, <3>1, UnwrappedPart
    <2>8. /\ v \in Seq(Bytes) /\ Len(v) = n /\ n <= Len(sent')
          /\ \A i \in 1 .. n : v[i] = sent'[i]
        <3>1. FirstUnwrapped(cut', sent', n)
            BY <2>4 DEF FramingInv, HubInOrder, NoneWraps, Short, FirstUnwrapped
        <3> QED BY <2>1, <2>6, <3>1, UnwrappedPart
    <2>9. m <= n
        <3>1. CASE m = 0
            BY <2>1, <3>1
        <3>2. CASE m > 0
            <4>1. m \in 1 .. Len(cut) /\ m \in 1 .. Len(cut') /\ m <= Len(sent)
                BY <2>1, <2>2, <2>7, <3>2
            <4>2. Short(sent, m)
                BY <2>1, <2>3, <4>1
            <4>3. ASSUME NEW i \in DOMAIN sent', i <= m
                  PROVE  Len(sent'[i]) < WordSize
                <5>1. i \in 1 .. Len(sent) /\ i \in DOMAIN sent
                    BY <2>1, <4>1, <4>3
                <5> QED BY <2>2, <4>2, <4>3, <5>1 DEF Short
            <4>4. Short(sent', m)
                BY <4>3 DEF Short
            <4> QED BY <2>4, <4>1, <4>4
        <3> QED BY <2>1, <3>1, <3>2
    <2>10. IsPrefix(sent, sent')
        BY <2>1, <2>2, PrefixByElements
    <2>11. IsPrefix(v, sent')
        BY <2>1, <2>8, PrefixByElements
    <2>12. IsPrefix(u, v)
        <3>1. \A i \in 1 .. Len(u) : i \in 1 .. m /\ i \in 1 .. n /\ i \in 1 .. Len(sent)
            BY <2>1, <2>7, <2>9
        <3>2. Len(u) <= Len(v) /\ \A i \in 1 .. Len(u) : u[i] = v[i]
            BY <2>2, <2>7, <2>8, <2>9, <3>1
        <3> QED BY <2>7, <2>8, <3>2, PrefixByElements
    <2>13. CutUnwrapped = u /\ CutUnwrapped' = v
        BY <2>5, <2>6 DEF CutUnwrapped, Unwrapped, NoneWraps, Short
    <2>14. ASSUME NEW s, NEW t, IsPrefix(s, t)
           PROVE  HubPipe!IsPrefix(s, t)
        BY <2>14 DEF IsPrefix, HubPipe!IsPrefix
    <2> QED BY <2>10, <2>11, <2>12, <2>13, <2>14, Zenon DEF HubPipe!Next
<1> QED BY <1>1, <1>2, FramingInvariant, PTL DEF Spec, HubReadsPackets, HubPipe!Spec
=============================================================================
