----------------------- MODULE DcpHubForwardingProofs -----------------------
(* What the hub forwards and answers, for any sockets, names and packets:    *)
(* the hub implements the switch of NameSwitch, it keeps the order of        *)
(* packets, and it answers every command with packets that stay together.    *)
EXTENDS DcpHubProofs

-----------------------------------------------------------------------------
(* The switch.                                                               *)
\* A function that differs from another at n only.
LEMMA ChangedAt ==
    ASSUME NEW S, NEW f, NEW g, NEW n \in S,
           f = [m \in S |-> f[m]], g = [m \in S |-> g[m]],
           \A m \in S \ {n} : g[m] = f[m]
    PROVE  g = [f EXCEPT ![n] = g[n]]
OBVIOUS

(* A connection that has something to write is the owner of a name.          *)
LEMMA WriterOwnsName ==
    ASSUME IInv, NEW s \in Sockets, tx[s] # <<>>
    PROVE  m_socketMap[s] \in Names /\ m_deviceMap[m_socketMap[s]] = s
<1>1. tx[s] \in Seq(Packet)
    BY DEF IInv, TypeOK
<1>2. 1 \in DOMAIN tx[s] /\ tx[s][1] \in Packet
    BY <1>1
<1>3. tx[s][1].dst = m_socketMap[s]
    BY <1>2 DEF IInv, NoMisdelivery
<1>4. m_socketMap[s] \in Fields
    BY <1>2, <1>3 DEF Packet
<1>5. m_socketMap[s] \in Names \cup {NoName, Absent}
    BY DEF IInv, TypeOK
<1> QED BY <1>4, <1>5, HubAssumption DEF HubAssumption, IInv, RegistryConsistent

(* The end of connections is the leave of their owners.                      *)
LEMMA GoneLeaves ==
    ASSUME IInv, NEW gone \in SUBSET Sockets, socketDisconnected(gone),
           \A s \in Sockets \ gone : tx'[s] = tx[s]
    PROVE  Switch!Leave(gone)
<1>1. m_deviceMap' = [n \in Names |-> IF m_deviceMap[n] \in gone THEN NoSocket
                                      ELSE m_deviceMap[n]]
    <2>1. ASSUME NEW n \in Names
          PROVE  (\E s \in gone : m_socketMap[s] = n) <=> m_deviceMap[n] \in gone
        <3>1. ASSUME NEW s \in gone, m_socketMap[s] = n
              PROVE  m_deviceMap[n] = s
            BY <3>1 DEF IInv, RegistryConsistent
        <3>2. ASSUME m_deviceMap[n] \in gone
              PROVE  m_socketMap[m_deviceMap[n]] = n
            BY <3>2, HubAssumption DEF IInv, RegistryConsistent, HubAssumption
        <3> QED BY <3>1, <3>2
    <2> QED BY <2>1 DEF socketDisconnected
<1>2. ASSUME NEW n \in Names
      PROVE  MailBox'[n] = IF m_deviceMap[n] \in gone THEN <<>> ELSE MailBox[n]
    <2>1. m_deviceMap[n] \in Sockets \cup {NoSocket}
        BY DEF IInv, TypeOK
    <2>2. NoSocket \notin gone
        BY HubAssumption DEF HubAssumption
    <2> QED BY <1>1, <2>1, <2>2 DEF MailBox
<1>3. MailBox' = [n \in Names |-> IF m_deviceMap[n] \in gone THEN <<>> ELSE MailBox[n]]
    BY <1>2 DEF MailBox
<1> QED BY <1>1, <1>3 DEF Switch!Leave

(* A packet that leaves a write buffer is taken from the mailbox of a name.  *)
LEMMA WriteTakes ==
    ASSUME IInv, NEW s \in Sockets, tx[s] # <<>>,
           tx' = [tx EXCEPT ![s] = Tail(@)], m_deviceMap' = m_deviceMap
    PROVE  Switch!Take(m_socketMap[s])
<1> DEFINE n == m_socketMap[s]
<1>1. n \in Names /\ m_deviceMap[n] = s /\ s # NoSocket
    BY WriterOwnsName, HubAssumption DEF HubAssumption
<1>2. MailBox[n] = tx[s] /\ MailBox'[n] = Tail(tx[s])
    BY <1>1 DEF MailBox, IInv, TypeOK
<1>3. ASSUME NEW m \in Names \ {n}
      PROVE  MailBox'[m] = MailBox[m]
    <2>1. m_deviceMap[m] # s
        BY <1>1 DEF IInv, RegistryConsistent
    <2> QED BY <2>1 DEF MailBox, IInv, TypeOK
<1>4. MailBox' = [MailBox EXCEPT ![n] = MailBox'[n]]
    <2>1. MailBox = [m \in Names |-> MailBox[m]] /\ MailBox' = [m \in Names |-> MailBox'[m]]
        BY DEF MailBox
    <2> HIDE DEF n
    <2> QED BY <1>1, <1>3, <2>1, ChangedAt
<1> QED BY <1>1, <1>2, <1>4 DEF Switch!Take

(* Registration gives a free name to a connection that has none, and nothing *)
(* is waiting for it.                                                        *)
LEMMA RegistrationJoins ==
    ASSUME IInv, NEW s \in Sockets, NEW name \in Fields, registerDeviceName(s, name)
    PROVE  /\ \/ m_deviceMap' = m_deviceMap
              \/ \E n \in Names, o \in Sockets : Switch!Join(n, o)
           /\ \A n \in Names : MailBox[n] = IF m_deviceMap'[n] = NoSocket THEN <<>>
                                            ELSE tx[m_deviceMap'[n]]
<1>1. CASE m_socketMap[s] # NoName
    BY <1>1 DEF registerDeviceName, registry, MailBox
<1>2. CASE m_socketMap[s] = NoName
    <2>1. /\ name \in Names
          /\ m_deviceMap[name] = NoSocket
          /\ m_deviceMap' = [m_deviceMap EXCEPT ![name] = s]
        BY <1>2 DEF registerDeviceName, MayRegister, SocketOf, Fields
    <2>2. \A m \in Names : m_deviceMap[m] # s
        BY <1>2, HubAssumption DEF HubAssumption, Fields, IInv, RegistryConsistent
    <2>3. Switch!Join(name, s)
        BY <2>1, <2>2 DEF Switch!Join
    <2>4. tx[s] = <<>>
        BY <1>2, WriterOwnsName, HubAssumption DEF HubAssumption, Fields
    <2>5. \A n \in Names : MailBox[n] = IF m_deviceMap'[n] = NoSocket THEN <<>>
                                        ELSE tx[m_deviceMap'[n]]
        BY <2>1, <2>4 DEF MailBox, IInv, TypeOK
    <2> QED BY <2>1, <2>3, <2>5
<1> QED BY <1>1, <1>2

(* The packets put into a write buffer are posted to the name it belongs to. *)
LEMMA AppendPosts ==
    ASSUME IInv, IInv', NEW n \in Names, NEW ps \in Seq(Packet),
           m_deviceMap'[n] \in Sockets,
           tx' = [tx EXCEPT ![m_deviceMap'[n]] = @ \o ps],
           \A i \in 1 .. Len(ps) : ps[i].dst = n,
           \A m \in Names : MailBox[m] = IF m_deviceMap'[m] = NoSocket THEN <<>>
                                         ELSE tx[m_deviceMap'[m]]
    PROVE  Switch!Post(n)
<1> DEFINE d == m_deviceMap'[n]
<1>1. d \in Sockets /\ d # NoSocket /\ tx[d] \in Seq(Packet)
    BY HubAssumption DEF HubAssumption, IInv, TypeOK
<1>2. MailBox[n] = tx[d] /\ MailBox'[n] = tx[d] \o ps
    BY <1>1 DEF MailBox, IInv, TypeOK
<1>3. ASSUME NEW m \in Names \ {n}
      PROVE  MailBox'[m] = MailBox[m]
    <2>1. m_deviceMap'[m] # d
        BY <1>1 DEF IInv, RegistryConsistent
    <2> QED BY <2>1 DEF MailBox, IInv, TypeOK
<1>4. MailBox' = [MailBox EXCEPT ![n] = MailBox'[n]]
    <2>1. MailBox = [m \in Names |-> MailBox[m]] /\ MailBox' = [m \in Names |-> MailBox'[m]]
        BY DEF MailBox
    <2> QED BY <1>3, <2>1, ChangedAt
<1> HIDE DEF d
<1>5. /\ Len(tx[d]) \in Nat /\ Len(ps) \in Nat
      /\ Len(tx[d] \o ps) = Len(tx[d]) + Len(ps)
      /\ \A i \in 1 .. Len(tx[d]) + Len(ps) :
             (tx[d] \o ps)[i] = IF i <= Len(tx[d]) THEN tx[d][i] ELSE ps[i - Len(tx[d])]
    BY <1>1, ConcatProperties
<1>6. ASSUME NEW i \in 1 .. Len(tx[d]) + Len(ps)
      PROVE  IF i <= Len(tx[d]) THEN (tx[d] \o ps)[i] = tx[d][i]
                                ELSE (tx[d] \o ps)[i].dst = n
    <2>1. CASE i <= Len(tx[d])
        BY <1>5, <2>1
    <2>2. CASE ~(i <= Len(tx[d]))
        <3>1. i - Len(tx[d]) \in 1 .. Len(ps) /\ (tx[d] \o ps)[i] = ps[i - Len(tx[d])]
            BY <1>5, <2>2
        <3> QED BY <2>2, <3>1
    <2> QED BY <2>1, <2>2
<1>7. /\ Len(MailBox[n]) <= Len(MailBox'[n])
      /\ \A i \in 1 .. Len(MailBox'[n]) :
             IF i <= Len(MailBox[n]) THEN MailBox'[n][i] = MailBox[n][i]
                                     ELSE MailBox'[n][i].dst = n
    BY <1>2, <1>5, <1>6
<1> QED BY <1>1, <1>4, <1>7 DEF Switch!Post, d

(* A packet handled by the hub is a packet handled by the switch.            *)
LEMMA PacketHandled ==
    ASSUME IInv, IInv', NEW s \in Sockets, HandlePacket(s)
    PROVE  Switch!Handle
<1> DEFINE p == Head(rx[s])
<1>1. /\ Reading(s)
      /\ registerDeviceName(s, p.src)
      /\ processPacket(p, m_deviceMap')
    BY DEF HandlePacket
<1>2. p \in Packet
    BY <1>1, ReadingHead DEF IInv
<1>3. p.src \in Fields
    BY <1>2 DEF Packet
<1> HIDE DEF p
<1>4. /\ \/ m_deviceMap' = m_deviceMap
         \/ \E n \in Names, o \in Sockets : Switch!Join(n, o)
      /\ \A n \in Names : MailBox[n] = IF m_deviceMap'[n] = NoSocket THEN <<>>
                                       ELSE tx[m_deviceMap'[n]]
    BY <1>1, <1>3, RegistrationJoins
<1>5. CASE tx' = tx
    <2>1. MailBox' = MailBox
        BY <1>4, <1>5 DEF MailBox
    <2> QED BY <1>4, <2>1 DEF Switch!Handle
<1>6. ASSUME NEW n \in Names, NEW ps \in Seq(Packet),
             m_deviceMap'[n] \in Sockets,
             tx' = [tx EXCEPT ![m_deviceMap'[n]] = @ \o ps],
             \A i \in 1 .. Len(ps) : ps[i].dst = n
      PROVE  Switch!Handle
    <2>1. Switch!Post(n)
        BY <1>4, <1>6, AppendPosts
    <2> QED BY <1>4, <2>1 DEF Switch!Handle
<1>7. m_deviceMap' \in [Names -> Sockets \cup {NoSocket}]
    BY DEF IInv, TypeOK
<1> QED BY <1>1, <1>2, <1>5, <1>6, <1>7, ProcessPacketEffect DEF IInv

(* Every step of the hub is a step of the switch, or changes nothing in it.  *)
LEMMA SwitchStep ==
    ASSUME IInv, IInv', [Next]_vars
    PROVE  [Switch!Next]_<<m_deviceMap, MailBox>>
<1>1. ASSUME UNCHANGED <<m_deviceMap, tx>>
      PROVE  UNCHANGED <<m_deviceMap, MailBox>>
    BY <1>1 DEF MailBox
<1>2. ASSUME NEW gone \in SUBSET Sockets, Switch!Leave(gone)
      PROVE  Switch!Next
    BY <1>2 DEF Switch!Next
<1>3. ASSUME NEW S \in SUBSET Sockets, disconnectFromHost(S)
      PROVE  Switch!Next
    <2> DEFINE gone == {s \in S : tx[s] = <<>>}
    <2>1. gone \in SUBSET Sockets /\ socketDisconnected(gone) /\ tx' = tx
        BY <1>3 DEF disconnectFromHost
    <2> HIDE DEF gone
    <2> QED BY <1>2, <2>1, GoneLeaves
<1>4. ASSUME NEW s \in Sockets, Disconnected(s)
      PROVE  Switch!Next
    <2>1. socketDisconnected({s}) /\ \A t \in Sockets \ {s} : tx'[t] = tx[t]
        BY <1>4 DEF Disconnected, IInv, TypeOK
    <2> QED BY <1>2, <2>1, GoneLeaves
<1>5. ASSUME NEW s \in Sockets, WriteOut(s)
      PROVE  Switch!Next
    <2>1. CASE Disconnected(s)
        BY <1>4, <2>1
    <2>2. CASE ~Disconnected(s)
        <3>1. /\ tx[s] # <<>>
              /\ tx' = [tx EXCEPT ![s] = Tail(@)]
              /\ m_deviceMap' = m_deviceMap
            BY <1>5, <2>2 DEF WriteOut, registry
        <3>2. Switch!Take(m_socketMap[s]) /\ m_socketMap[s] \in Names
            BY <3>1, WriteTakes, WriterOwnsName
        <3> QED BY <3>2 DEF Switch!Next
    <2> QED BY <2>1, <2>2
<1>6. ASSUME NEW s \in Sockets, HandlePacket(s)
      PROVE  Switch!Next
    BY <1>6, PacketHandled DEF Switch!Next
<1> QED
    <2>1. ASSUME Setup PROVE UNCHANGED <<m_deviceMap, tx>>
        BY <2>1 DEF Setup, setDeviceName, setDebugFlags, listen, registry, channels
    <2>2. ASSUME NEW s \in Sockets, \E t \in Traffic : PeerSend(s, t)
          PROVE  UNCHANGED <<m_deviceMap, tx>>
        BY <2>2 DEF PeerSend, registry
    <2>3. ASSUME NEW s \in Sockets, \/ newConnection(s)
                                    \/ DeferredDelete(s)
                                    \/ socketReadyRead(s)
                                    \/ waitForDisconnected(s)
                                    \/ WaitTimeout(s)
          PROVE  UNCHANGED <<m_deviceMap, tx>>
        BY <2>3 DEF newConnection, DeferredDelete, socketReadyRead, waitForDisconnected,
                    WaitTimeout, registry, channels
    <2>4. ASSUME EndOfInput \/ CloseServer \/ UNCHANGED vars
          PROVE  UNCHANGED <<m_deviceMap, tx>>
        BY <2>4 DEF EndOfInput, CloseServer, vars, registry, channels
    <2>5. ASSUME NEW s \in Sockets, \/ RejectOversize(s)
                                    \/ RejectDevice(s)
                                    \/ PeerClosed(s)
          PROVE  Switch!Next
        BY <1>3, <2>5 DEF RejectOversize, RejectDevice, PeerClosed
    <2>6. ASSUME close PROVE Switch!Next
        BY <1>3, <2>6 DEF close
    <2>7. ASSUME NEW s \in Sockets, PeerGone(s) PROVE Switch!Next
        BY <1>4, <2>7 DEF PeerGone
    <2> QED BY <1>1, <1>5, <1>6, <2>1, <2>2, <2>3, <2>4, <2>5, <2>6, <2>7
            DEF Next, Peers, EventLoop, Shutdown, Terminated

(* The hub does nothing the switch may not do: names and queued packets are  *)
(* given, moved and lost as NameSwitch says and in no other way.             *)
THEOREM HubImplementsSwitch == Spec => ImplementsSwitch
<1>1. Init => Switch!Init
    BY DEF Init, Switch!Init, MailBox
<1>2. IInv /\ IInv' /\ [Next]_vars => [Switch!Next]_<<m_deviceMap, MailBox>>
    BY SwitchStep
<1> QED BY <1>1, <1>2, Invariance, PTL DEF Spec, ImplementsSwitch, Switch!Spec

-----------------------------------------------------------------------------
(* The order of packets.                                                     *)
(* The invariant.  A buffer alone does not tell that the next packet of its  *)
(* origin is new: identities are given once, and a packet that waits to be   *)
(* handled has one that no packet has that was forwarded or waits elsewhere. *)
Forwarded(packet) == packet.from # NoSocket

\* Packets wait where they came in, under identities given already.
Numbered ==
    \A s \in Sockets :
        /\ \A i \in 1 .. Len(rx[s]) : rx[s][i].from = s /\ rx[s][i].id <= sent
        /\ \A i \in 1 .. Len(tx[s]) : Forwarded(tx[s][i]) => tx[s][i].id <= sent

ReadRises ==
    \A s \in Sockets : \A i, j \in 1 .. Len(rx[s]) : i < j => rx[s][i].id < rx[s][j].id

ReadApart ==
    \A s, t \in Sockets : \A i \in 1 .. Len(rx[s]), j \in 1 .. Len(rx[t]) :
        rx[s][i].id = rx[t][j].id => s = t

WrittenRises ==
    \A d \in Sockets : \A i, j \in 1 .. Len(tx[d]) :
        i < j /\ Forwarded(tx[d][i]) /\ tx[d][i].from = tx[d][j].from
            => tx[d][i].id < tx[d][j].id

WrittenFirst ==
    \A s, d \in Sockets : \A i \in 1 .. Len(tx[d]), j \in 1 .. Len(rx[s]) :
        /\ tx[d][i].from = s => tx[d][i].id < rx[s][j].id
        /\ Forwarded(tx[d][i]) => tx[d][i].id # rx[s][j].id

WrittenApart ==
    \A c, d \in Sockets : \A i \in 1 .. Len(tx[c]), j \in 1 .. Len(tx[d]) :
        Forwarded(tx[c][i]) /\ Forwarded(tx[d][j]) /\ tx[c][i].id = tx[d][j].id
            => c = d /\ i = j

ForwardInv ==
    Numbered /\ ReadRises /\ ReadApart /\ WrittenRises /\ WrittenFirst /\ WrittenApart

LEMMA ForwardInvSuffices ==
    ASSUME TypeOK, ForwardInv
    PROVE  ForwardedInOrder
<1>1. \A s \in Sockets : DOMAIN rx[s] = 1 .. Len(rx[s]) /\ DOMAIN tx[s] = 1 .. Len(tx[s])
    BY DEF TypeOK
<1>2. \A s \in Sockets : s # NoSocket
    BY HubAssumption DEF HubAssumption
<1>3. OrderPreserved
    BY <1>1, <1>2
    DEF ForwardInv, ReadRises, WrittenRises, WrittenFirst, Forwarded, OrderPreserved
<1>4. ForwardedOnce
    BY <1>1 DEF ForwardInv, WrittenApart, Forwarded, ForwardedOnce
<1> QED BY <1>3, <1>4 DEF ForwardedInOrder

\* What is said of a packet in a buffer.
LEMMA PacketTypes ==
    ASSUME TypeOK, NEW s \in Sockets
    PROVE  /\ Len(rx[s]) \in Nat /\ Len(tx[s]) \in Nat
           /\ \A i \in 1 .. Len(rx[s]) : rx[s][i] \in Packet /\ rx[s][i].id \in Nat
           /\ \A i \in 1 .. Len(tx[s]) : tx[s][i] \in Packet /\ tx[s][i].id \in Nat
<1>1. rx[s] \in Seq(Packet) /\ tx[s] \in Seq(Packet)
    BY DEF TypeOK
<1>2. \A p \in Packet : p.id \in Nat
    BY DEF Packet
<1> QED BY <1>1, <1>2

-----------------------------------------------------------------------------
(* Buffers that only lose packets at their ends stay in order.               *)
LEMMA LossKeepsOrder ==
    ASSUME TypeOK, TypeOK', ForwardInv, sent' = sent,
           NEW k \in [Sockets -> Nat], NEW l \in [Sockets -> Nat],
           \A s \in Sockets :
               /\ Len(rx'[s]) + k[s] <= Len(rx[s])
               /\ \A i \in 1 .. Len(rx'[s]) : rx'[s][i] = rx[s][i + k[s]]
               /\ Len(tx'[s]) + l[s] <= Len(tx[s])
               /\ \A i \in 1 .. Len(tx'[s]) : tx'[s][i] = tx[s][i + l[s]]
    PROVE  ForwardInv'
<1>1. \A s \in Sockets : Len(rx[s]) \in Nat /\ Len(tx[s]) \in Nat
    BY PacketTypes
<1>2. \A s \in Sockets : Len(rx'[s]) \in Nat /\ Len(tx'[s]) \in Nat
    <2>1. \A s \in Sockets : rx'[s] \in Seq(Packet) /\ tx'[s] \in Seq(Packet)
        BY DEF TypeOK
    <2> QED BY <2>1
<1>3. \A s \in Sockets : \A i \in 1 .. Len(rx'[s]) :
          k[s] \in Nat /\ i + k[s] \in 1 .. Len(rx[s]) /\ rx'[s][i] = rx[s][i + k[s]]
    BY <1>1, <1>2
<1>4. \A s \in Sockets : \A i \in 1 .. Len(tx'[s]) :
          l[s] \in Nat /\ i + l[s] \in 1 .. Len(tx[s]) /\ tx'[s][i] = tx[s][i + l[s]]
    BY <1>1, <1>2
<1>5. Numbered'
    <2>1. ASSUME NEW s \in Sockets, NEW i \in 1 .. Len(rx'[s])
          PROVE  rx'[s][i].from = s /\ rx'[s][i].id <= sent'
        <3> DEFINE a == i + k[s]
        <3>1. a \in 1 .. Len(rx[s]) /\ rx'[s][i] = rx[s][a]
            BY <1>3
        <3> HIDE DEF a
        <3> QED BY <3>1 DEF ForwardInv, Numbered
    <2>2. ASSUME NEW s \in Sockets, NEW i \in 1 .. Len(tx'[s]), Forwarded(tx'[s][i])
          PROVE  tx'[s][i].id <= sent'
        <3> DEFINE a == i + l[s]
        <3>1. a \in 1 .. Len(tx[s]) /\ tx'[s][i] = tx[s][a]
            BY <1>4
        <3> HIDE DEF a
        <3> QED BY <2>2, <3>1 DEF ForwardInv, Numbered
    <2> QED BY <2>1, <2>2 DEF Numbered, Forwarded
<1>6. ReadRises'
    <2> SUFFICES ASSUME NEW s \in Sockets, NEW i \in 1 .. Len(rx'[s]),
                        NEW j \in 1 .. Len(rx'[s]), i < j
                 PROVE  rx'[s][i].id < rx'[s][j].id
        BY DEF ReadRises
    <2>1. i + k[s] < j + k[s]
        BY <1>2, <1>3
    <2> QED BY <1>3, <2>1 DEF ForwardInv, ReadRises
<1>7. ReadApart'
    <2> SUFFICES ASSUME NEW s \in Sockets, NEW t \in Sockets,
                        NEW i \in 1 .. Len(rx'[s]), NEW j \in 1 .. Len(rx'[t]),
                        rx'[s][i].id = rx'[t][j].id
                 PROVE  s = t
        BY DEF ReadApart
    <2> DEFINE a == i + k[s]
               b == j + k[t]
    <2>1. /\ a \in 1 .. Len(rx[s]) /\ rx'[s][i] = rx[s][a]
          /\ b \in 1 .. Len(rx[t]) /\ rx'[t][j] = rx[t][b]
        BY <1>3
    <2> HIDE DEF a, b
    <2> QED BY <2>1 DEF ForwardInv, ReadApart
<1>8. WrittenRises'
    <2> SUFFICES ASSUME NEW d \in Sockets, NEW i \in 1 .. Len(tx'[d]),
                        NEW j \in 1 .. Len(tx'[d]), i < j,
                        Forwarded(tx'[d][i]), tx'[d][i].from = tx'[d][j].from
                 PROVE  tx'[d][i].id < tx'[d][j].id
        BY DEF WrittenRises, Forwarded
    <2> DEFINE a == i + l[d]
               b == j + l[d]
    <2>1. /\ a \in 1 .. Len(tx[d]) /\ tx'[d][i] = tx[d][a]
          /\ b \in 1 .. Len(tx[d]) /\ tx'[d][j] = tx[d][b]
        BY <1>4
    <2>2. a < b
        BY <1>2, <1>4
    <2> HIDE DEF a, b
    <2> QED BY <2>1, <2>2 DEF ForwardInv, WrittenRises
<1>9. WrittenFirst'
    <2> SUFFICES ASSUME NEW s \in Sockets, NEW d \in Sockets,
                        NEW i \in 1 .. Len(tx'[d]), NEW j \in 1 .. Len(rx'[s])
                 PROVE  /\ tx'[d][i].from = s => tx'[d][i].id < rx'[s][j].id
                        /\ Forwarded(tx'[d][i]) => tx'[d][i].id # rx'[s][j].id
        BY DEF WrittenFirst, Forwarded
    <2> DEFINE a == i + l[d]
               b == j + k[s]
    <2>1. /\ a \in 1 .. Len(tx[d]) /\ tx'[d][i] = tx[d][a]
          /\ b \in 1 .. Len(rx[s]) /\ rx'[s][j] = rx[s][b]
        BY <1>3, <1>4
    <2> HIDE DEF a, b
    <2> QED BY <2>1 DEF ForwardInv, WrittenFirst
<1>10. WrittenApart'
    <2> SUFFICES ASSUME NEW c \in Sockets, NEW d \in Sockets,
                        NEW i \in 1 .. Len(tx'[c]), NEW j \in 1 .. Len(tx'[d]),
                        Forwarded(tx'[c][i]), Forwarded(tx'[d][j]),
                        tx'[c][i].id = tx'[d][j].id
                 PROVE  c = d /\ i = j
        BY DEF WrittenApart, Forwarded
    <2> DEFINE a == i + l[c]
               b == j + l[d]
    <2>1. /\ a \in 1 .. Len(tx[c]) /\ tx'[c][i] = tx[c][a]
          /\ b \in 1 .. Len(tx[d]) /\ tx'[d][j] = tx[d][b]
        BY <1>4
    <2>2. c = d /\ a = b => i = j
        BY <1>2, <1>4
    <2> HIDE DEF a, b
    <2>3. Forwarded(tx[c][a]) /\ Forwarded(tx[d][b]) /\ tx[c][a].id = tx[d][b].id
        BY <2>1
    <2>4. c = d /\ a = b
        BY <2>1, <2>3 DEF ForwardInv, WrittenApart
    <2> QED BY <2>2, <2>4
<1> QED BY <1>5, <1>6, <1>7, <1>8, <1>9, <1>10 DEF ForwardInv

(* The forms such a loss has: a buffer is emptied, or its first packet goes. *)
LEMMA LossesKeepOrder ==
    ASSUME TypeOK, TypeOK', ForwardInv, sent' = sent,
           \A s \in Sockets :
               /\ rx'[s] = rx[s] \/ rx'[s] = <<>>
               /\ \/ tx'[s] = tx[s] \/ tx'[s] = <<>>
                  \/ tx[s] # <<>> /\ tx'[s] = Tail(tx[s])
    PROVE  ForwardInv'
<1> DEFINE k == [s \in Sockets |-> 0]
           l == [s \in Sockets |-> IF tx'[s] # tx[s] /\ tx'[s] # <<>> THEN 1 ELSE 0]
<1>1. k \in [Sockets -> Nat] /\ l \in [Sockets -> Nat]
    OBVIOUS
<1>2. ASSUME NEW s \in Sockets
      PROVE  /\ Len(rx'[s]) + k[s] <= Len(rx[s])
             /\ \A i \in 1 .. Len(rx'[s]) : rx'[s][i] = rx[s][i + k[s]]
    <2>1. rx[s] \in Seq(Packet) /\ Len(rx[s]) \in Nat
        BY DEF TypeOK
    <2>2. CASE rx'[s] = rx[s]
        BY <2>1, <2>2
    <2>3. CASE rx'[s] = <<>>
        BY <2>1, <2>3
    <2> QED BY <2>2, <2>3
<1>3. ASSUME NEW s \in Sockets
      PROVE  /\ Len(tx'[s]) + l[s] <= Len(tx[s])
             /\ \A i \in 1 .. Len(tx'[s]) : tx'[s][i] = tx[s][i + l[s]]
    <2>1. tx[s] \in Seq(Packet) /\ Len(tx[s]) \in Nat
        BY DEF TypeOK
    <2>2. CASE tx'[s] = tx[s]
        BY <2>1, <2>2
    <2>3. CASE tx'[s] = <<>>
        BY <2>1, <2>3
    <2>4. CASE tx'[s] # tx[s] /\ tx'[s] # <<>>
        <3>1. tx[s] # <<>> /\ tx'[s] = Tail(tx[s]) /\ l[s] = 1
            BY <2>4
        <3>2. /\ Len(Tail(tx[s])) = Len(tx[s]) - 1
              /\ \A i \in 1 .. Len(Tail(tx[s])) : Tail(tx[s])[i] = tx[s][i + 1]
            BY <2>1, <3>1
        <3>3. Len(tx[s]) > 0
            BY <2>1, <3>1
        <3> HIDE DEF l
        <3>4. Len(tx'[s]) = Len(tx[s]) - 1
            BY <3>1, <3>2
        <3>5. \A i \in 1 .. Len(tx'[s]) : tx'[s][i] = tx[s][i + 1]
            BY <3>1, <3>2
        <3> QED BY <2>1, <3>1, <3>3, <3>4, <3>5
    <2> QED BY <2>2, <2>3, <2>4
<1> HIDE DEF k, l
<1> QED BY <1>1, <1>2, <1>3, LossKeepsOrder

-----------------------------------------------------------------------------
(* A packet that comes in gets the next identity and waits behind the others.*)
LEMMA ArrivalKeepsOrder ==
    ASSUME TypeOK, TypeOK', ForwardInv, NEW s \in Sockets, NEW p,
           p.from = s, p.id = sent + 1,
           sent' = sent + 1, tx' = tx, rx' = [rx EXCEPT ![s] = Append(@, p)]
    PROVE  ForwardInv'
<1>1. /\ \A t \in Sockets : rx[t] \in Seq(Packet) /\ Len(rx[t]) \in Nat
      /\ sent \in Nat
    BY DEF TypeOK
<1>2. /\ Len(rx'[s]) = Len(rx[s]) + 1
      /\ rx'[s][Len(rx[s]) + 1] = p
      /\ \A i \in 1 .. Len(rx[s]) : rx'[s][i] = rx[s][i]
      /\ \A t \in Sockets \ {s} : rx'[t] = rx[t]
    BY <1>1 DEF TypeOK
<1>3. ASSUME NEW t \in Sockets, NEW i \in 1 .. Len(rx'[t])
      PROVE  \/ i \in 1 .. Len(rx[t]) /\ rx'[t][i] = rx[t][i]
             \/ t = s /\ i = Len(rx[t]) + 1 /\ rx'[t][i] = p
    <2>1. CASE t = s
        BY <1>1, <1>2, <2>1
    <2>2. CASE t # s
        BY <1>2, <2>2
    <2> QED BY <2>1, <2>2
<1>4. \A t \in Sockets : \A i \in 1 .. Len(rx[t]) : rx[t][i].id <= sent /\ rx[t][i].id \in Nat
    BY PacketTypes DEF ForwardInv, Numbered
<1>5. \A t \in Sockets : \A i \in 1 .. Len(tx[t]) :
          tx[t][i].id \in Nat /\ (Forwarded(tx[t][i]) => tx[t][i].id <= sent)
    BY PacketTypes DEF ForwardInv, Numbered
<1>6. Numbered'
    <2>1. ASSUME NEW t \in Sockets, NEW i \in 1 .. Len(rx'[t])
          PROVE  rx'[t][i].from = t /\ rx'[t][i].id <= sent'
        <3>1. CASE i \in 1 .. Len(rx[t]) /\ rx'[t][i] = rx[t][i]
            BY <1>1, <1>4, <3>1 DEF ForwardInv, Numbered
        <3>2. CASE t = s /\ rx'[t][i] = p
            BY <1>1, <3>2
        <3> QED BY <1>3, <3>1, <3>2
    <2>2. ASSUME NEW t \in Sockets, NEW i \in 1 .. Len(tx'[t]), Forwarded(tx'[t][i])
          PROVE  tx'[t][i].id <= sent'
        BY <1>1, <1>5, <2>2
    <2> QED BY <2>1, <2>2 DEF Numbered, Forwarded
<1>7. ReadRises'
    <2> SUFFICES ASSUME NEW t \in Sockets, NEW i \in 1 .. Len(rx'[t]),
                        NEW j \in 1 .. Len(rx'[t]), i < j
                 PROVE  rx'[t][i].id < rx'[t][j].id
        BY DEF ReadRises
    <2>1. i \in 1 .. Len(rx[t]) /\ rx'[t][i] = rx[t][i]
        BY <1>1, <1>2, <1>3
    <2>2. CASE j \in 1 .. Len(rx[t]) /\ rx'[t][j] = rx[t][j]
        BY <2>1, <2>2 DEF ForwardInv, ReadRises
    <2>3. CASE rx'[t][j] = p
        BY <1>1, <1>4, <2>1, <2>3
    <2> QED BY <1>3, <2>2, <2>3
<1>8. ReadApart'
    <2> SUFFICES ASSUME NEW t \in Sockets, NEW u \in Sockets,
                        NEW i \in 1 .. Len(rx'[t]), NEW j \in 1 .. Len(rx'[u]),
                        rx'[t][i].id = rx'[u][j].id
                 PROVE  t = u
        BY DEF ReadApart
    <2>1. CASE /\ i \in 1 .. Len(rx[t]) /\ rx'[t][i] = rx[t][i]
               /\ j \in 1 .. Len(rx[u]) /\ rx'[u][j] = rx[u][j]
        BY <2>1 DEF ForwardInv, ReadApart
    <2>2. CASE /\ i \in 1 .. Len(rx[t]) /\ rx'[t][i] = rx[t][i]
               /\ rx'[u][j] = p
        BY <1>1, <1>4, <2>2
    <2>3. CASE /\ rx'[t][i] = p
               /\ j \in 1 .. Len(rx[u]) /\ rx'[u][j] = rx[u][j]
        BY <1>1, <1>4, <2>3
    <2> QED BY <1>3, <2>1, <2>2, <2>3
<1>9. WrittenRises'
    BY DEF ForwardInv, WrittenRises, Forwarded
<1>10. WrittenFirst'
    <2> SUFFICES ASSUME NEW t \in Sockets, NEW d \in Sockets,
                        NEW i \in 1 .. Len(tx[d]), NEW j \in 1 .. Len(rx'[t])
                 PROVE  /\ tx[d][i].from = t => tx[d][i].id < rx'[t][j].id
                        /\ Forwarded(tx[d][i]) => tx[d][i].id # rx'[t][j].id
        BY DEF WrittenFirst, Forwarded
    <2>1. tx[d][i].from = t => Forwarded(tx[d][i])
        BY HubAssumption DEF HubAssumption, Forwarded
    <2>2. CASE j \in 1 .. Len(rx[t]) /\ rx'[t][j] = rx[t][j]
        BY <2>2 DEF ForwardInv, WrittenFirst
    <2>3. CASE rx'[t][j] = p
        BY <1>1, <1>5, <2>1, <2>3
    <2> QED BY <1>3, <2>2, <2>3
<1>11. WrittenApart'
    BY DEF ForwardInv, WrittenApart, Forwarded
<1> QED BY <1>6, <1>7, <1>8, <1>9, <1>10, <1>11 DEF ForwardInv

-----------------------------------------------------------------------------
(* What the handling of a packet writes: nothing, the packet, or answers.    *)
LEMMA ProcessPacketWrites ==
    ASSUME TypeOK, NEW p \in Packet, NEW map \in [Names -> Sockets \cup {NoSocket}],
           processPacket(p, map)
    PROVE  \/ tx' = tx
           \/ \E d \in Sockets, ps \in Seq(Packet) :
                  /\ tx' = [tx EXCEPT ![d] = @ \o ps]
                  /\ ps = <<p>> \/ \A i \in 1 .. Len(ps) : ~Forwarded(ps[i])
<1>1. CASE SocketOf(map, p.dst) # NoSocket
    <2>1. map[p.dst] \in Sockets
        BY <1>1 DEF SocketOf
    <2>2. tx' = [tx EXCEPT ![map[p.dst]] = Append(@, p)]
        BY <1>1 DEF processPacket
    <2>3. tx[map[p.dst]] \in Seq(Packet)
        BY <2>1 DEF TypeOK
    <2>4. Append(tx[map[p.dst]], p) = tx[map[p.dst]] \o <<p>>
        BY <2>3
    <2>5. tx' = [tx EXCEPT ![map[p.dst]] = @ \o <<p>>] /\ <<p>> \in Seq(Packet)
        BY <2>2, <2>4
    <2> QED BY <2>1, <2>5
<1>2. CASE /\ p.body.kind = "command"
           /\ SocketOf(map, p.src) # NoSocket
           /\ handleCommand(p, map)
    <2>1. p.body \in Command
        BY <1>2 DEF Packet, Body, ReplyBody, Command
    <2>2. PICK bodies \in Answers(p.body, Registered(map), m_debugFlags) :
              tx' = [tx EXCEPT ![map[p.src]] = @ \o AnswerPackets(p, bodies)]
        BY <1>2 DEF handleCommand
    <2>3. bodies \in Seq(ReplyBody)
        BY <2>1, AnswersType DEF Registered, TypeOK
    <2>4. AnswerPackets(p, bodies) \in Seq(Packet)
        BY <2>3, AnswerPacketsType
    <2>5. \A i \in 1 .. Len(AnswerPackets(p, bodies)) : ~Forwarded(AnswerPackets(p, bodies)[i])
        <3>1. Len(AnswerPackets(p, bodies)) = Len(bodies)
            BY <2>3, AnswerPacketsType
        <3>2. \A i \in 1 .. Len(bodies) : AnswerPackets(p, bodies)[i].from = NoSocket
            BY <2>3, AnswerPacketsType
        <3> QED BY <3>1, <3>2 DEF Forwarded
    <2>6. map[p.src] \in Sockets
        BY <1>2 DEF SocketOf
    <2> QED BY <2>2, <2>4, <2>5, <2>6
<1>3. CASE tx' = tx
    BY <1>3
<1> QED BY <1>1, <1>2, <1>3 DEF processPacket

(* The first packet of a read buffer is taken out, and it or answers go to   *)
(* the end of a write buffer: it comes behind everything of its origin       *)
(* there, and before what is left to read.                                   *)
LEMMA HandlingKeepsOrder ==
    ASSUME TypeOK, TypeOK', ForwardInv, sent' = sent,
           NEW s \in Sockets, rx[s] # <<>>, rx' = [rx EXCEPT ![s] = Tail(@)],
           NEW d \in Sockets, NEW ps \in Seq(Packet), tx' = [tx EXCEPT ![d] = @ \o ps],
           ps = <<Head(rx[s])>> \/ \A i \in 1 .. Len(ps) : ~Forwarded(ps[i])
    PROVE  ForwardInv'
<1> DEFINE p == rx[s][1]
           Left(t, i) == IF t = s THEN i + 1 ELSE i
<1>1. /\ \A t \in Sockets : rx[t] \in Seq(Packet) /\ Len(rx[t]) \in Nat
      /\ \A t \in Sockets : tx[t] \in Seq(Packet) /\ Len(tx[t]) \in Nat
      /\ Len(rx[s]) > 0 /\ Head(rx[s]) = p /\ 1 \in 1 .. Len(rx[s])
      /\ Len(ps) \in Nat
    <2>1. \A t \in Sockets : rx[t] \in Seq(Packet) /\ tx[t] \in Seq(Packet)
        BY DEF TypeOK
    <2>2. Len(rx[s]) > 0
        BY <2>1
    <2> QED BY <2>1, <2>2
<1>2. ASSUME NEW t \in Sockets, NEW i \in 1 .. Len(rx'[t])
      PROVE  /\ Left(t, i) \in 1 .. Len(rx[t]) /\ rx'[t][i] = rx[t][Left(t, i)]
             /\ t = s => Left(t, i) > 1
    <2>1. CASE t = s
        <3>1. rx'[s] = Tail(rx[s])
            BY DEF TypeOK
        <3>2. /\ Len(Tail(rx[s])) = Len(rx[s]) - 1
              /\ \A j \in 1 .. Len(Tail(rx[s])) : Tail(rx[s])[j] = rx[s][j + 1]
            BY <1>1
        <3>3. i \in 1 .. Len(rx[s]) - 1 /\ rx'[s][i] = rx[s][i + 1]
            BY <2>1, <3>1, <3>2
        <3> QED BY <1>1, <2>1, <3>3
    <2>2. CASE t # s
        <3>1. rx'[t] = rx[t]
            BY <2>2 DEF TypeOK
        <3> QED BY <2>2, <3>1
    <2> QED BY <2>1, <2>2
<1>3. ASSUME NEW t \in Sockets, NEW i, NEW j, i \in 1 .. Len(rx'[t]), j \in 1 .. Len(rx'[t]), i < j
      PROVE  Left(t, i) < Left(t, j)
    BY <1>3
<1>4. /\ p \in Packet /\ p.from = s /\ p.id \in Nat /\ p.id <= sent /\ sent \in Nat
      /\ Forwarded(p)
    <2>1. p.from = s /\ p.id <= sent
        BY <1>1 DEF ForwardInv, Numbered
    <2>2. p \in Packet /\ p.id \in Nat
        BY <1>1, PacketTypes
    <2>3. s # NoSocket
        BY HubAssumption DEF HubAssumption
    <2> QED BY <2>1, <2>2, <2>3 DEF TypeOK, Forwarded
(* A forwarded packet in a write buffer was there, or is this one at the end.*)
<1>5. ASSUME NEW c \in Sockets, NEW i \in 1 .. Len(tx'[c]), Forwarded(tx'[c][i])
      PROVE  \/ i \in 1 .. Len(tx[c]) /\ tx'[c][i] = tx[c][i]
             \/ c = d /\ i = Len(tx[d]) + 1 /\ i = Len(tx'[d]) /\ tx'[c][i] = p
    <2>1. CASE c # d
        <3>1. tx'[c] = tx[c]
            BY <2>1 DEF TypeOK
        <3> QED BY <3>1
    <2>2. CASE c = d
        <3>1. tx'[d] = tx[d] \o ps
            BY DEF TypeOK
        <3>2. /\ Len(tx'[d]) = Len(tx[d]) + Len(ps)
              /\ \A j \in 1 .. Len(tx[d]) : tx'[d][j] = tx[d][j]
              /\ \A j \in 1 .. Len(ps) : tx'[d][Len(tx[d]) + j] = ps[j]
            BY <1>1, <3>1
        <3>3. CASE i \in 1 .. Len(tx[d])
            BY <2>2, <3>2, <3>3
        <3>4. CASE i \notin 1 .. Len(tx[d])
            <4> DEFINE j == i - Len(tx[d])
            <4>1. j \in 1 .. Len(ps) /\ i = Len(tx[d]) + j
                BY <1>1, <2>2, <3>2, <3>4
            <4>2. tx'[d][i] = ps[j] /\ Forwarded(ps[j])
                BY <1>5, <2>2, <3>2, <4>1
            <4>3. ps = <<p>>
                BY <1>1, <4>1, <4>2
            <4>4. Len(ps) = 1 /\ j = 1 /\ ps[1] = p
                BY <4>1, <4>3
            <4> QED BY <1>1, <2>2, <3>2, <4>1, <4>2, <4>4
        <3> QED BY <3>3, <3>4
    <2> QED BY <2>1, <2>2
<1> HIDE DEF p, Left
<1>6. Numbered'
    <2>1. ASSUME NEW t \in Sockets, NEW i \in 1 .. Len(rx'[t])
          PROVE  rx'[t][i].from = t /\ rx'[t][i].id <= sent'
        BY <1>2 DEF ForwardInv, Numbered
    <2>2. ASSUME NEW t \in Sockets, NEW i \in 1 .. Len(tx'[t]), Forwarded(tx'[t][i])
          PROVE  tx'[t][i].id <= sent'
        <3>1. CASE i \in 1 .. Len(tx[t]) /\ tx'[t][i] = tx[t][i]
            BY <2>2, <3>1 DEF ForwardInv, Numbered
        <3>2. CASE tx'[t][i] = p
            BY <1>4, <3>2
        <3> QED BY <1>5, <2>2, <3>1, <3>2
    <2> QED BY <2>1, <2>2 DEF Numbered, Forwarded
<1>7. ReadRises'
    <2> SUFFICES ASSUME NEW t \in Sockets, NEW i \in 1 .. Len(rx'[t]),
                        NEW j \in 1 .. Len(rx'[t]), i < j
                 PROVE  rx'[t][i].id < rx'[t][j].id
        BY DEF ReadRises
    <2>1. /\ Left(t, i) \in 1 .. Len(rx[t]) /\ rx'[t][i] = rx[t][Left(t, i)]
          /\ Left(t, j) \in 1 .. Len(rx[t]) /\ rx'[t][j] = rx[t][Left(t, j)]
          /\ Left(t, i) < Left(t, j)
        BY <1>2, <1>3
    <2> QED BY <2>1 DEF ForwardInv, ReadRises
<1>8. ReadApart'
    <2> SUFFICES ASSUME NEW t \in Sockets, NEW u \in Sockets,
                        NEW i \in 1 .. Len(rx'[t]), NEW j \in 1 .. Len(rx'[u]),
                        rx'[t][i].id = rx'[u][j].id
                 PROVE  t = u
        BY DEF ReadApart
    <2>1. /\ Left(t, i) \in 1 .. Len(rx[t]) /\ rx'[t][i] = rx[t][Left(t, i)]
          /\ Left(u, j) \in 1 .. Len(rx[u]) /\ rx'[u][j] = rx[u][Left(u, j)]
        BY <1>2
    <2> QED BY <2>1 DEF ForwardInv, ReadApart
<1>9. WrittenRises'
    <2> SUFFICES ASSUME NEW c \in Sockets, NEW i \in 1 .. Len(tx'[c]),
                        NEW j \in 1 .. Len(tx'[c]), i < j,
                        Forwarded(tx'[c][i]), tx'[c][i].from = tx'[c][j].from
                 PROVE  tx'[c][i].id < tx'[c][j].id
        BY DEF WrittenRises, Forwarded
    <2>1. Forwarded(tx'[c][j])
        BY DEF Forwarded
    <2>2. i # Len(tx'[c])
        <3>1. \A t \in Sockets : tx'[t] \in Seq(Packet)
            BY DEF TypeOK
        <3> QED BY <3>1
    <2>3. i \in 1 .. Len(tx[c]) /\ tx'[c][i] = tx[c][i]
        BY <1>5, <2>2
    <2>4. CASE j \in 1 .. Len(tx[c]) /\ tx'[c][j] = tx[c][j]
        BY <2>3, <2>4 DEF ForwardInv, WrittenRises
    <2>5. CASE tx'[c][j] = p
        <3>1. tx[c][i].from = s
            BY <1>4, <2>3, <2>5
        <3> QED BY <1>1, <2>3, <2>5, <3>1 DEF ForwardInv, WrittenFirst, p
    <2> QED BY <1>5, <2>1, <2>4, <2>5
<1>10. WrittenFirst'
    <2> SUFFICES ASSUME NEW t \in Sockets, NEW c \in Sockets,
                        NEW i \in 1 .. Len(tx'[c]), NEW j \in 1 .. Len(rx'[t])
                 PROVE  /\ tx'[c][i].from = t => tx'[c][i].id < rx'[t][j].id
                        /\ Forwarded(tx'[c][i]) => tx'[c][i].id # rx'[t][j].id
        BY DEF WrittenFirst, Forwarded
    <2>f. tx'[c][i].from = t => Forwarded(tx'[c][i])
        BY HubAssumption DEF HubAssumption, Forwarded
    <2> SUFFICES ASSUME Forwarded(tx'[c][i])
                 PROVE  /\ tx'[c][i].from = t => tx'[c][i].id < rx'[t][j].id
                        /\ tx'[c][i].id # rx'[t][j].id
        BY <2>f
    <2> DEFINE k == Left(t, j)
    <2>1. k \in 1 .. Len(rx[t]) /\ rx'[t][j] = rx[t][k] /\ (t = s => k > 1)
        BY <1>2
    <2> HIDE DEF k
    <2>2. CASE i \in 1 .. Len(tx[c]) /\ tx'[c][i] = tx[c][i]
        BY <2>1, <2>2 DEF ForwardInv, WrittenFirst
    <2>3. CASE tx'[c][i] = p
        <3>1. CASE t = s
            <4>1. p.id < rx[s][k].id
                <5>1. k \in 1 .. Len(rx[s]) /\ 1 < k
                    BY <1>1, <2>1, <3>1
                <5> QED BY <1>1, <5>1 DEF ForwardInv, ReadRises, p
            <4>2. rx[s][k].id \in Nat
                BY <2>1, <3>1, PacketTypes
            <4>3. p.id # rx[s][k].id
                BY <1>4, <4>1, <4>2
            <4>4. tx'[c][i].id = p.id /\ rx'[t][j].id = rx[s][k].id
                BY <2>1, <2>3, <3>1
            <4> QED BY <4>1, <4>3, <4>4
        <3>2. CASE t # s
            <4>1. p.id # rx[t][k].id
                BY <1>1, <2>1, <3>2 DEF ForwardInv, ReadApart, p
            <4> QED BY <1>4, <2>1, <2>3, <3>2, <4>1
        <3> QED BY <3>1, <3>2
    <2> QED BY <1>5, <2>2, <2>3
<1>11. WrittenApart'
    <2> SUFFICES ASSUME NEW c \in Sockets, NEW e \in Sockets,
                        NEW i \in 1 .. Len(tx'[c]), NEW j \in 1 .. Len(tx'[e]),
                        Forwarded(tx'[c][i]), Forwarded(tx'[e][j]),
                        tx'[c][i].id = tx'[e][j].id
                 PROVE  c = e /\ i = j
        BY DEF WrittenApart, Forwarded
    <2>1. \A f \in Sockets : \A k \in 1 .. Len(tx[f]) : Forwarded(tx[f][k]) => tx[f][k].id # p.id
        BY <1>1 DEF ForwardInv, WrittenFirst, p
    <2>2. CASE /\ i \in 1 .. Len(tx[c]) /\ tx'[c][i] = tx[c][i]
               /\ j \in 1 .. Len(tx[e]) /\ tx'[e][j] = tx[e][j]
        BY <2>2 DEF ForwardInv, WrittenApart
    <2>3. CASE i \in 1 .. Len(tx[c]) /\ tx'[c][i] = tx[c][i] /\ tx'[e][j] = p
        BY <2>1, <2>3
    <2>4. CASE tx'[c][i] = p /\ j \in 1 .. Len(tx[e]) /\ tx'[e][j] = tx[e][j]
        BY <2>1, <2>4
    <2>5. CASE c = d /\ i = Len(tx[d]) + 1 /\ e = d /\ j = Len(tx[d]) + 1
        BY <2>5
    <2> QED BY <1>5, <2>2, <2>3, <2>4, <2>5
<1> QED BY <1>6, <1>7, <1>8, <1>9, <1>10, <1>11 DEF ForwardInv

-----------------------------------------------------------------------------
(* Every step keeps the order.                                               *)
LEMMA ForwardStep ==
    ASSUME TypeOK, SlotHasInput, TypeOK', ForwardInv, [Next]_vars
    PROVE  ForwardInv'
<1>1. ASSUME UNCHANGED <<rx, tx, sent>>
      PROVE  ForwardInv'
    <2>1. \A s \in Sockets : rx'[s] = rx[s] /\ tx'[s] = tx[s]
        BY <1>1
    <2> QED BY <1>1, <2>1, LossesKeepOrder
<1>2. ASSUME NEW s \in Sockets, NEW t \in Traffic, PeerSend(s, t)
      PROVE  ForwardInv'
    <2> DEFINE p == [from |-> s, id |-> sent + 1, src |-> t.src, dst |-> t.dst, body |-> t.body]
    <2>1. sent' = sent + 1 /\ tx' = tx /\ rx' = [rx EXCEPT ![s] = Append(@, p)]
        BY <1>2 DEF PeerSend
    <2>2. p.from = s /\ p.id = sent + 1
        OBVIOUS
    <2> HIDE DEF p
    <2> QED BY <2>1, <2>2, ArrivalKeepsOrder
<1>3. ASSUME NEW S \in SUBSET Sockets, disconnectFromHost(S), sent' = sent
      PROVE  ForwardInv'
    <2>1. \A s \in Sockets : (rx'[s] = rx[s] \/ rx'[s] = <<>>) /\ tx'[s] = tx[s]
        BY <1>3 DEF disconnectFromHost
    <2> QED BY <1>3, <2>1, LossesKeepOrder
<1>4. ASSUME NEW s \in Sockets, Disconnected(s), sent' = sent
      PROVE  ForwardInv'
    <2>1. \A t \in Sockets : /\ rx'[t] = rx[t] \/ rx'[t] = <<>>
                             /\ tx'[t] = tx[t] \/ tx'[t] = <<>>
        BY <1>4 DEF Disconnected, TypeOK
    <2> QED BY <1>4, <2>1, LossesKeepOrder
<1>5. ASSUME NEW s \in Sockets, WriteOut(s)
      PROVE  ForwardInv'
    <2>1. CASE Disconnected(s)
        BY <1>4, <1>5, <2>1 DEF WriteOut
    <2>2. CASE ~Disconnected(s)
        <3>1. \A t \in Sockets : /\ rx'[t] = rx[t]
                                 /\ \/ tx'[t] = tx[t]
                                    \/ tx[t] # <<>> /\ tx'[t] = Tail(tx[t])
            BY <1>5, <2>2 DEF WriteOut, TypeOK
        <3> QED BY <1>5, <3>1, LossesKeepOrder DEF WriteOut
    <2> QED BY <2>1, <2>2
<1>6. ASSUME NEW s \in Sockets, HandlePacket(s)
      PROVE  ForwardInv'
    <2>1. /\ processPacket(Head(rx[s]), m_deviceMap')
          /\ rx' = [rx EXCEPT ![s] = Tail(@)] /\ sent' = sent
        BY <1>6 DEF HandlePacket
    <2>2. rx[s] # <<>> /\ Head(rx[s]) \in Packet
        BY <1>6, ReadingHead DEF HandlePacket
    <2>3. m_deviceMap' \in [Names -> Sockets \cup {NoSocket}]
        BY DEF TypeOK
    <2>4. CASE tx' = tx
        <3>1. <<>> \in Seq(Packet) /\ \A i \in 1 .. Len(<<>>) : ~Forwarded(<<>>[i])
            OBVIOUS
        <3>2. tx' = [tx EXCEPT ![s] = @ \o <<>>]
            BY <2>4 DEF TypeOK
        <3> QED BY <2>1, <2>2, <3>1, <3>2, HandlingKeepsOrder
    <2>5. ASSUME NEW d \in Sockets, NEW ps \in Seq(Packet),
                 tx' = [tx EXCEPT ![d] = @ \o ps],
                 ps = <<Head(rx[s])>> \/ \A i \in 1 .. Len(ps) : ~Forwarded(ps[i])
          PROVE  ForwardInv'
        BY <2>1, <2>2, <2>5, HandlingKeepsOrder
    <2> QED BY <2>1, <2>2, <2>3, <2>4, <2>5, ProcessPacketWrites
<1>7. CASE Setup
    BY <1>1, <1>7 DEF Setup, setDeviceName, setDebugFlags, listen, channels
<1>8. CASE Peers
    <2>1. ASSUME NEW s \in Sockets, PeerGone(s) \/ PeerClosed(s)
          PROVE  ForwardInv'
        BY <1>3, <1>4, <2>1 DEF PeerGone, PeerClosed
    <2> QED BY <1>2, <1>5, <1>8, <2>1 DEF Peers
<1>9. CASE EventLoop
    <2>1. ASSUME NEW s \in Sockets, RejectOversize(s) \/ RejectDevice(s)
          PROVE  ForwardInv'
        BY <1>3, <2>1 DEF RejectOversize, RejectDevice
    <2>2. ASSUME NEW s \in Sockets, newConnection(s) \/ DeferredDelete(s) \/ socketReadyRead(s)
          PROVE  ForwardInv'
        BY <1>1, <2>2 DEF newConnection, DeferredDelete, socketReadyRead, channels
    <2>3. CASE EndOfInput
        BY <1>1, <2>3 DEF EndOfInput, channels
    <2> QED BY <1>6, <1>9, <2>1, <2>2, <2>3 DEF EventLoop
<1>10. CASE Shutdown
    <2>1. CASE close
        BY <1>3, <2>1 DEF close
    <2>2. ASSUME NEW s \in Sockets, waitForDisconnected(s) \/ WaitTimeout(s)
          PROVE  ForwardInv'
        BY <1>1, <2>2 DEF waitForDisconnected, WaitTimeout, channels
    <2>3. CASE CloseServer \/ Terminated
        BY <1>1, <2>3 DEF CloseServer, Terminated, channels, vars
    <2> QED BY <1>10, <2>1, <2>2, <2>3 DEF Shutdown
<1>11. CASE UNCHANGED vars
    BY <1>1, <1>11 DEF vars, channels
<1> QED BY <1>7, <1>8, <1>9, <1>10, <1>11 DEF Next

(* The packets of a connection are forwarded in the order they were sent,    *)
(* and none twice, whatever connections come and go, reuse its socket or are *)
(* served between them, and however many packets are sent.                   *)
THEOREM ForwardingKeepsOrder == Spec => []ForwardedInOrder
<1>1. Init => ForwardInv
    BY DEF Init, ForwardInv, Numbered, ReadRises, ReadApart, WrittenRises, WrittenFirst, WrittenApart
<1>2. IInv /\ IInv' /\ ForwardInv /\ [Next]_vars => ForwardInv'
    BY ForwardStep DEF IInv
<1>3. IInv /\ ForwardInv => ForwardedInOrder
    BY ForwardInvSuffices DEF IInv
<1> QED BY <1>1, <1>2, <1>3, Invariance, PTL DEF Spec

-----------------------------------------------------------------------------
(* Answers stay together.                                                    *)

(* The packets the hub writes for one command: an ACK that refuses it, or an *)
(* ACK and a reply that cannot be taken for one.                             *)
WholeAnswer(ps) ==
    /\ \A i \in 1 .. Len(ps) : ps[i].from = NoSocket /\ ps[i].id = ps[1].id
    /\ IsAckReply(ps[1].body)
    /\ \/ Len(ps) = 1 /\ ps[1].body.code # AckNoError
       \/ /\ Len(ps) = 2
          /\ ps[1].body.code = AckNoError
          /\ ~IsAckReply(ps[2].body)

(* If nobody is called "ACK" and the word is no argument, no reply the hub   *)
(* makes is the single word an ACK is known by.                              *)
LEMMA RepliesAreNoAcks ==
    ASSUME "ACK" \notin Args,
           NEW c \in Command, NEW R, R \subseteq Names, NEW flags \in DebugFlags,
           NEW r \in Replies(c, R, flags)
    PROVE  ~IsAckReply(r)
<1>1. ASSUME NEW code, NEW data, data # <<"ACK">>
      PROVE  ~IsAckReply(Reply(code, data))
    BY <1>1 DEF IsAckReply, Reply
<1>2. ASSUME NEW data \in Seq(Args)
      PROVE  data # <<"ACK">>
    <2>1. SUFFICES ASSUME data = <<"ACK">> PROVE FALSE
        OBVIOUS
    <2>2. 1 \in 1 .. Len(data) /\ data[1] = "ACK"
        BY <2>1
    <2>3. data[1] \in Args
        BY <2>2
    <2> QED BY <2>2, <2>3
<1>3. ASSUME NEW S, S \subseteq Names
      PROVE  deviceList(S) # <<"ACK">>
    <2>1. deviceList(S) \in Seq(Names)
        BY <1>3, DeviceListType
    <2>2. deviceList(S) \in Seq(Args)
        BY <2>1, SeqMonotonic DEF Args
    <2> QED BY <1>2, <2>2
<1>4. CASE r \in DevInfoReplies(c, R)
    <2> DEFINE asked == IF c.args = <<>> THEN R ELSE ToSet(c.args)
    <2>1. PICK found \in Found(asked, R) :
              r = Reply(IF asked \subseteq found THEN 0 ELSE -1, deviceList(found))
        BY <1>4 DEF DevInfoReplies
    <2>2. found \subseteq Names
        BY DEF Found
    <2> QED BY <1>1, <1>3, <2>1, <2>2, Zenon
<1>5. Reply(0, deviceList(R)) # r \/ ~IsAckReply(r)
    BY <1>1, <1>3, Zenon
<1>6. Reply(0, c.args) # r \/ ~IsAckReply(r)
    <2>1. c.args # <<"ACK">>
        BY <1>2 DEF Command
    <2> QED BY <1>1, <2>1, Zenon
<1>7. Reply(0, <<ModeWord(flags)>>) # r \/ ~IsAckReply(r)
    <2>1. ModeWord(flags) # "ACK"
        BY DEF ModeWord
    <2>2. <<ModeWord(flags)>> # <<"ACK">>
        BY <2>1
    <2> QED BY <1>1, <2>2, Zenon
<1>8. c.id \in {"version", "qtversion"} => Reply(0, <<c.id>>) # r \/ ~IsAckReply(r)
    <2>1. c.id \in {"version", "qtversion"} => <<c.id>> # <<"ACK">>
        OBVIOUS
    <2> QED BY <1>1, <2>1, Zenon
<1>9. Reply(0, <<>>) # r \/ ~IsAckReply(r)
    <2>1. <<>> # <<"ACK">>
        OBVIOUS
    <2> QED BY <1>1, <2>1, Zenon
<1> QED BY <1>4, <1>5, <1>6, <1>7, <1>8, <1>9 DEF Replies

(* The hub handles a packet: it writes nothing, forwards it, or answers it   *)
(* completely.                                                               *)
LEMMA AnswersAreWhole ==
    ASSUME "ACK" \notin Args, TypeOK,
           NEW p \in Packet, NEW map \in [Names -> Sockets \cup {NoSocket}],
           processPacket(p, map)
    PROVE  \/ tx' = tx
           \/ \E d \in Sockets, ps \in Seq(Packet) :
                  /\ tx' = [tx EXCEPT ![d] = @ \o ps]
                  /\ ps = <<p>> \/ WholeAnswer(ps)
<1>1. CASE SocketOf(map, p.dst) # NoSocket
    <2>1. map[p.dst] \in Sockets
        BY <1>1 DEF SocketOf
    <2>2. tx' = [tx EXCEPT ![map[p.dst]] = Append(@, p)]
        BY <1>1 DEF processPacket
    <2>3. tx[map[p.dst]] \in Seq(Packet)
        BY <2>1 DEF TypeOK
    <2>4. Append(tx[map[p.dst]], p) = tx[map[p.dst]] \o <<p>>
        BY <2>3
    <2>5. tx' = [tx EXCEPT ![map[p.dst]] = @ \o <<p>>] /\ <<p>> \in Seq(Packet)
        BY <2>2, <2>4
    <2> QED BY <2>1, <2>5
<1>2. CASE /\ p.body.kind = "command"
           /\ SocketOf(map, p.src) # NoSocket
           /\ handleCommand(p, map)
    <2>1. p.body \in Command
        BY <1>2 DEF Packet, Body, ReplyBody, Command
    <2>2. PICK bodies \in Answers(p.body, Registered(map), m_debugFlags) :
              tx' = [tx EXCEPT ![map[p.src]] = @ \o AnswerPackets(p, bodies)]
        BY <1>2 DEF handleCommand
    <2>3. bodies \in Seq(ReplyBody) /\ bodies # <<>>
        BY <2>1, AnswersType DEF Registered, TypeOK
    <2> DEFINE ps == AnswerPackets(p, bodies)
    <2>4. ps \in Seq(Packet) /\ Len(ps) = Len(bodies)
        BY <2>3, AnswerPacketsType
    <2>5. \A i \in 1 .. Len(bodies) :
              ps[i].from = NoSocket /\ ps[i].id = p.id /\ ps[i].body = bodies[i]
        BY <2>3 DEF AnswerPackets
    <2>6. \A code : IsAckReply(Ack(code)) /\ Ack(code).code = code
        BY DEF IsAckReply, Ack
    <2>7. \/ bodies \in {<<Ack(AckNoError), r>> : r \in Replies(p.body, Registered(map), m_debugFlags)}
          \/ \E code \in {AckUnknownCommandError, AckParameterError} : bodies = <<Ack(code)>>
        BY <2>2, Zenon DEF Answers
    <2> HIDE DEF ps
    <2>8. ASSUME \E code \in {AckUnknownCommandError, AckParameterError} : bodies = <<Ack(code)>>
          PROVE  WholeAnswer(ps)
        <3>1. PICK code \in {AckUnknownCommandError, AckParameterError} : bodies = <<Ack(code)>>
            BY <2>8
        <3>2. Len(bodies) = 1 /\ bodies[1] = Ack(code)
            BY <3>1
        <3>3. code # AckNoError
            BY DEF AckNoError, AckUnknownCommandError, AckParameterError
        <3>4. Len(ps) = 1 /\ ps[1].body = Ack(code) /\ ps[1].from = NoSocket
            BY <2>4, <2>5, <3>2
        <3>5. IsAckReply(ps[1].body) /\ ps[1].body.code # AckNoError
            BY <2>6, <3>3, <3>4
        <3>6. \A i \in 1 .. Len(ps) : i = 1
            BY <3>4
        <3>7. \A i \in 1 .. Len(ps) : ps[i].from = NoSocket /\ ps[i].id = ps[1].id
            BY <3>4, <3>6
        <3> QED BY <3>4, <3>5, <3>7 DEF WholeAnswer
    <2>9. ASSUME bodies \in {<<Ack(AckNoError), r>> : r \in Replies(p.body, Registered(map), m_debugFlags)}
          PROVE  WholeAnswer(ps)
        <3>1. PICK r \in Replies(p.body, Registered(map), m_debugFlags) :
                  bodies = <<Ack(AckNoError), r>>
            BY <2>9
        <3>2. Len(bodies) = 2 /\ bodies[1] = Ack(AckNoError) /\ bodies[2] = r
            BY <3>1
        <3>3. ~IsAckReply(r)
            BY <2>1, RepliesAreNoAcks DEF Registered, TypeOK
        <3>4. /\ Len(ps) = 2
              /\ ps[1].body = Ack(AckNoError) /\ ps[1].from = NoSocket /\ ps[1].id = p.id
              /\ ps[2].body = r /\ ps[2].from = NoSocket /\ ps[2].id = p.id
            BY <2>4, <2>5, <3>2
        <3>5. \A i \in 1 .. Len(ps) : i = 1 \/ i = 2
            BY <3>4
        <3>6. /\ IsAckReply(ps[1].body) /\ ps[1].body.code = AckNoError
              /\ ~IsAckReply(ps[2].body)
            BY <2>6, <3>3, <3>4
        <3>7. \A i \in 1 .. Len(ps) : ps[i].from = NoSocket /\ ps[i].id = ps[1].id
            BY <3>4, <3>5
        <3> QED BY <3>4, <3>6, <3>7 DEF WholeAnswer
    <2>10. WholeAnswer(ps)
        BY <2>7, <2>8, <2>9
    <2>11. tx' = [tx EXCEPT ![map[p.src]] = @ \o ps] /\ map[p.src] \in Sockets
        BY <1>2, <2>2 DEF SocketOf, ps
    <2> QED BY <2>4, <2>10, <2>11
<1>3. CASE tx' = tx
    BY <1>3
<1> QED BY <1>1, <1>2, <1>3 DEF processPacket

-----------------------------------------------------------------------------
(* What is written leaves no answer torn.                                    *)

(* The first packet goes: the reply it may have answered for is first now.   *)
LEMMA TailStaysPaired ==
    ASSUME NEW q \in Seq(Packet), q # <<>>, Paired(q)
    PROVE  Paired(Tail(q))
<1>1. /\ Len(q) \in Nat /\ DOMAIN q = 1 .. Len(q)
      /\ DOMAIN Tail(q) = 1 .. Len(q) - 1
      /\ \A i \in 1 .. Len(q) - 1 : Tail(q)[i] = q[i + 1]
    OBVIOUS
<1> DEFINE t == Tail(q)
<1> HIDE DEF t
<1>2. /\ DOMAIN t = 1 .. Len(q) - 1
      /\ \A i \in 1 .. Len(q) - 1 : t[i] = q[i + 1]
    BY <1>1 DEF t
<1>3. \A i \in DOMAIN t : i \in Int /\ i + 1 \in DOMAIN q /\ t[i] = q[i + 1]
    BY <1>1, <1>2
<1>4. ASSUME NEW i \in DOMAIN t, t[i].from = NoSocket, IsAckReply(t[i].body)
      PROVE  /\ i + 1 \in DOMAIN t
             /\ t[i + 1].from = NoSocket
             /\ t[i + 1].id = t[i].id
             /\ IsAckReply(t[i + 1].body) = FALSE
             <=> t[i].body.code = AckNoError
    <2>1. q[i + 1].from = NoSocket /\ IsAckReply(q[i + 1].body)
        BY <1>3, <1>4
    <2>2. /\ i + 1 + 1 \in DOMAIN q
          /\ q[i + 1 + 1].from = NoSocket
          /\ q[i + 1 + 1].id = q[i + 1].id
          /\ IsAckReply(q[i + 1 + 1].body) = FALSE
          <=> q[i + 1].body.code = AckNoError
        BY <1>3, <2>1 DEF Paired
    <2>3. i + 1 + 1 \in DOMAIN q <=> i + 1 \in DOMAIN t
        BY <1>1, <1>2, <1>3
    <2>4. i + 1 \in DOMAIN t => t[i + 1] = q[i + 1 + 1]
        BY <1>3
    <2> QED BY <1>3, <2>2, <2>3, <2>4
<1>5. ASSUME NEW i \in DOMAIN t, t[i].from = NoSocket, ~IsAckReply(t[i].body), i # 1
      PROVE  /\ i - 1 \in DOMAIN t
             /\ t[i - 1].from = NoSocket
             /\ t[i - 1].id = t[i].id
             /\ IsAckReply(t[i - 1].body) = TRUE
    <2>1. i - 1 \in DOMAIN t /\ t[i - 1] = q[i] /\ t[i] = q[i + 1]
        BY <1>1, <1>2, <1>5
    <2>2. i + 1 \in DOMAIN q /\ i + 1 # 1 /\ (i + 1) - 1 = i
        BY <1>1, <1>2, <1>5
    <2> QED BY <1>5, <2>1, <2>2 DEF Paired
<1>6. Paired(t)
    BY <1>4, <1>5 DEF Paired
<1> QED BY <1>6 DEF t

(* A packet of a device, or a whole answer, comes behind the others.         *)
LEMMA AppendStaysPaired ==
    ASSUME NEW q \in Seq(Packet), NEW ps \in Seq(Packet), Paired(q),
           \/ \A i \in 1 .. Len(ps) : ps[i].from # NoSocket
           \/ WholeAnswer(ps)
    PROVE  Paired(q \o ps)
<1> DEFINE t == q \o ps
           n == Len(q)
<1>1. /\ n \in Nat /\ Len(ps) \in Nat
      /\ DOMAIN q = 1 .. n /\ DOMAIN t = 1 .. n + Len(ps)
      /\ \A i \in 1 .. n : t[i] = q[i]
      /\ \A i \in 1 .. Len(ps) : t[n + i] = ps[i]
    OBVIOUS
<1> HIDE DEF t, n
<1>2. CASE \A i \in 1 .. Len(ps) : ps[i].from # NoSocket
    <2>1. ASSUME NEW i \in DOMAIN t, i \notin 1 .. n PROVE t[i].from # NoSocket
        <3>1. i - n \in 1 .. Len(ps) /\ n + (i - n) = i
            BY <1>1, <2>1
        <3> QED BY <1>1, <1>2, <3>1
    <2>2. \A i \in DOMAIN t : t[i].from = NoSocket => i \in DOMAIN q /\ t[i] = q[i]
        BY <1>1, <2>1
    <2>3. \A i \in DOMAIN q : i \in DOMAIN t /\ t[i] = q[i]
        BY <1>1
    <2>4. Paired(t)
        BY <2>2, <2>3 DEF Paired
    <2> QED BY <2>4 DEF t
<1>3. CASE WholeAnswer(ps) /\ Len(ps) = 1
    <2>1. /\ DOMAIN t = 1 .. n + 1 /\ t[n + 1] = ps[1]
          /\ ps[1].from = NoSocket /\ IsAckReply(ps[1].body) /\ ps[1].body.code # AckNoError
        BY <1>1, <1>3 DEF WholeAnswer
    <2>2. Paired(t)
        BY <1>1, <2>1 DEF Paired
    <2> QED BY <2>2 DEF t
<1>4. CASE WholeAnswer(ps) /\ Len(ps) = 2
    <2>1. /\ DOMAIN t = 1 .. n + 2 /\ t[n + 1] = ps[1] /\ t[n + 2] = ps[2]
          /\ ps[1].from = NoSocket /\ IsAckReply(ps[1].body) /\ ps[1].body.code = AckNoError
          /\ ps[2].from = NoSocket /\ ~IsAckReply(ps[2].body) /\ ps[2].id = ps[1].id
        BY <1>1, <1>4 DEF WholeAnswer
    <2>2. Paired(t)
        BY <1>1, <2>1 DEF Paired
    <2> QED BY <2>2 DEF t
<1> QED BY <1>2, <1>3, <1>4 DEF WholeAnswer

(* Every step keeps the answers together.                                    *)
LEMMA PairedStep ==
    ASSUME "ACK" \notin Args, TypeOK, SlotHasInput, TypeOK', Numbered,
           AnswersPaired, [Next]_vars
    PROVE  AnswersPaired'
<1>1. ASSUME \A s \in Sockets :
                 \/ tx'[s] = tx[s] \/ tx'[s] = <<>>
                 \/ tx[s] # <<>> /\ tx'[s] = Tail(tx[s])
      PROVE  AnswersPaired'
    <2>1. Paired(<<>>)
        BY DEF Paired
    <2>2. \A s \in Sockets : tx[s] \in Seq(Packet) /\ Paired(tx[s])
        BY DEF TypeOK, AnswersPaired
    <2>3. ASSUME NEW s \in Sockets PROVE Paired(tx'[s])
        BY <1>1, <2>1, <2>2, TailStaysPaired
    <2> QED BY <2>3 DEF AnswersPaired, Paired
<1>2. ASSUME tx' = tx
      PROVE  AnswersPaired'
    BY <1>1, <1>2
<1>3. ASSUME NEW s \in Sockets, Disconnected(s)
      PROVE  AnswersPaired'
    <2>1. \A t \in Sockets : tx'[t] = tx[t] \/ tx'[t] = <<>>
        BY <1>3 DEF Disconnected, TypeOK
    <2> QED BY <1>1, <2>1
<1>4. ASSUME NEW s \in Sockets, WriteOut(s)
      PROVE  AnswersPaired'
    <2>1. CASE Disconnected(s)
        BY <1>3, <2>1
    <2>2. CASE ~Disconnected(s)
        <3>1. \A t \in Sockets : \/ tx'[t] = tx[t]
                                 \/ tx[t] # <<>> /\ tx'[t] = Tail(tx[t])
            BY <1>4, <2>2 DEF WriteOut, TypeOK
        <3> QED BY <1>1, <3>1
    <2> QED BY <2>1, <2>2
<1>5. ASSUME NEW s \in Sockets, HandlePacket(s)
      PROVE  AnswersPaired'
    <2>1. processPacket(Head(rx[s]), m_deviceMap')
        BY <1>5 DEF HandlePacket
    <2>2. rx[s] # <<>> /\ Head(rx[s]) \in Packet
        BY <1>5, ReadingHead DEF HandlePacket
    <2>3. m_deviceMap' \in [Names -> Sockets \cup {NoSocket}]
        BY DEF TypeOK
    <2>4. Head(rx[s]).from # NoSocket
        <3>1. rx[s] \in Seq(Packet) /\ Head(rx[s]) = rx[s][1] /\ 1 \in 1 .. Len(rx[s])
            BY <2>2 DEF TypeOK
        <3>2. rx[s][1].from = s
            BY <3>1 DEF Numbered
        <3> QED BY <3>1, <3>2, HubAssumption DEF HubAssumption
    <2>5. ASSUME NEW d \in Sockets, NEW ps \in Seq(Packet),
                 tx' = [tx EXCEPT ![d] = @ \o ps],
                 ps = <<Head(rx[s])>> \/ WholeAnswer(ps)
          PROVE  AnswersPaired'
        <3>1. (\A i \in 1 .. Len(ps) : ps[i].from # NoSocket) \/ WholeAnswer(ps)
            BY <2>4, <2>5
        <3>2. \A t \in Sockets : tx[t] \in Seq(Packet) /\ Paired(tx[t])
            BY DEF TypeOK, AnswersPaired
        <3>3. Paired(tx[d] \o ps)
            BY <3>1, <3>2, AppendStaysPaired
        <3>4. \A t \in Sockets : tx'[t] = IF t = d THEN tx[d] \o ps ELSE tx[t]
            BY <2>5 DEF TypeOK
        <3>5. ASSUME NEW t \in Sockets PROVE Paired(tx'[t])
            BY <3>2, <3>3, <3>4
        <3> QED BY <3>5 DEF AnswersPaired, Paired
    <2> QED BY <1>2, <2>1, <2>2, <2>3, <2>5, AnswersAreWhole
<1>6. CASE Setup
    BY <1>2, <1>6 DEF Setup, setDeviceName, setDebugFlags, listen, channels
<1>7. CASE Peers
    <2>1. ASSUME NEW s \in Sockets, NEW t \in Traffic, PeerSend(s, t)
          PROVE  AnswersPaired'
        BY <1>2, <2>1 DEF PeerSend
    <2>2. ASSUME NEW s \in Sockets, PeerGone(s) \/ PeerClosed(s)
          PROVE  AnswersPaired'
        BY <1>2, <1>3, <2>2 DEF PeerGone, PeerClosed, disconnectFromHost
    <2> QED BY <1>4, <1>7, <2>1, <2>2 DEF Peers
<1>8. CASE EventLoop
    <2>1. ASSUME NEW s \in Sockets,
                 \/ RejectOversize(s) \/ RejectDevice(s)
                 \/ newConnection(s) \/ DeferredDelete(s) \/ socketReadyRead(s)
          PROVE  AnswersPaired'
        BY <1>2, <2>1 DEF RejectOversize, RejectDevice, disconnectFromHost,
                          newConnection, DeferredDelete, socketReadyRead, channels
    <2>2. CASE EndOfInput
        BY <1>2, <2>2 DEF EndOfInput, channels
    <2> QED BY <1>5, <1>8, <2>1, <2>2 DEF EventLoop
<1>9. CASE Shutdown
    <2>1. CASE close \/ CloseServer \/ Terminated
        BY <1>2, <2>1 DEF close, disconnectFromHost, CloseServer, Terminated, channels, vars
    <2>2. ASSUME NEW s \in Sockets, waitForDisconnected(s) \/ WaitTimeout(s)
          PROVE  AnswersPaired'
        BY <1>2, <2>2 DEF waitForDisconnected, WaitTimeout, channels
    <2> QED BY <1>9, <2>1, <2>2 DEF Shutdown
<1>10. CASE UNCHANGED vars
    BY <1>2, <1>10 DEF vars, channels
<1> QED BY <1>6, <1>7, <1>8, <1>9, <1>10 DEF Next

(* Whatever the hub handles, forwards and loses between them, the ACK and    *)
(* the reply to a command stay together, provided that no device is called   *)
(* "ACK" and no argument is this word: the reply to "get echo ACK" is not    *)
(* told from an ACK, by the hub's peers no more than here.                   *)
THEOREM AnswersStayTogether ==
    ASSUME "ACK" \notin Args
    PROVE  Spec => []AnswersPaired
<1>1. Init => ForwardInv /\ AnswersPaired
    BY DEF Init, ForwardInv, Numbered, ReadRises, ReadApart, WrittenRises, WrittenFirst,
           WrittenApart, AnswersPaired, Paired
<1>2. IInv /\ IInv' /\ ForwardInv /\ [Next]_vars => ForwardInv'
    BY ForwardStep DEF IInv
<1>3. IInv /\ IInv' /\ ForwardInv /\ AnswersPaired /\ [Next]_vars => AnswersPaired'
    BY PairedStep DEF IInv, ForwardInv
<1> QED BY <1>1, <1>2, <1>3, Invariance, PTL DEF Spec

-----------------------------------------------------------------------------
(* What the step that handles a command writes.                              *)

(* The last of two sequences put together is that of the second.             *)
LEMMA EndOfConcat ==
    ASSUME NEW S, NEW q \in Seq(S), NEW r \in Seq(S), Len(r) > 0
    PROVE  /\ Len(q \o r) = Len(q) + Len(r)
           /\ (q \o r)[Len(q \o r)] = r[Len(r)]
OBVIOUS

(* A packet leaves the read buffer of a socket that stays connected while    *)
(* its slot runs: no other step does this.                                   *)
LEMMA HandledByItsStep ==
    ASSUME TypeOK, SlotHasInput, [Next]_vars, NEW s \in Sockets, Handles(s)
    PROVE  HandlePacket(s)
<1>1. /\ phase = "running" /\ active = s /\ toRead > 0
      /\ rx[s] \in Seq(Packet) /\ Len(rx[s]) \in Nat
      /\ Len(rx'[s]) = Len(rx[s]) - 1
      /\ sockState'[s] = "connected" /\ s # NoSocket
    <2>1. Reading(s) /\ rx'[s] = Tail(rx[s]) /\ sockState'[s] = "connected"
        BY DEF Handles
    <2>2. phase = "running" /\ active = s /\ toRead > 0
        BY <2>1 DEF Reading
    <2>3. Len(rx'[s]) = Len(rx[s]) - 1
        BY <2>1, ReadingHead
    <2>4. rx[s] \in Seq(Packet) /\ Len(rx[s]) \in Nat
        BY DEF TypeOK
    <2>5. s # NoSocket
        BY HubAssumption DEF HubAssumption
    <2> QED BY <2>1, <2>2, <2>3, <2>4, <2>5, Zenon
<1>2. rx'[s] # rx[s]
    BY <1>1
<1>3. rx' # rx
    BY <1>2
<1>4. ASSUME NEW t \in Sockets, NEW m \in Traffic
      PROVE  ~PeerSend(t, m)
    <2>1. SUFFICES ASSUME PeerSend(t, m) PROVE FALSE
        OBVIOUS
    <2> DEFINE p == [from |-> t, id |-> sent + 1, src |-> m.src, dst |-> m.dst, body |-> m.body]
    <2>2. rx' = [rx EXCEPT ![t] = Append(@, p)]
        BY <2>1 DEF PeerSend
    <2> HIDE DEF p
    <2>3. rx'[s] = rx[s] \/ rx'[s] = Append(rx[s], p)
        BY <2>2 DEF TypeOK
    <2>4. Len(Append(rx[s], p)) = Len(rx[s]) + 1
        BY <1>1
    <2> QED BY <1>1, <1>2, <2>3, <2>4
<1>5. ASSUME NEW t \in Sockets
      PROVE  ~PeerGone(t) /\ ~PeerClosed(t) /\ ~WriteOut(t)
    BY <1>1 DEF PeerGone, PeerClosed, WriteOut, Served, Idle
<1>6. ASSUME NEW t \in Sockets
      PROVE  ~RejectOversize(t) /\ ~RejectDevice(t)
    <2>1. SUFFICES ASSUME t = s, disconnectFromHost({s}) PROVE FALSE
        BY <1>1 DEF RejectOversize, RejectDevice, Reading
    <2>2. sockState'[s] \in {"dead", "closing"}
        BY <2>1 DEF disconnectFromHost
    <2> QED BY <1>1, <2>2
<1>7. ASSUME NEW t \in Sockets
      PROVE  ~newConnection(t) /\ ~DeferredDelete(t) /\ ~socketReadyRead(t)
    BY <1>1 DEF newConnection, DeferredDelete, socketReadyRead, Idle
<1>8. ~Setup /\ ~Shutdown /\ ~EndOfInput /\ ~UNCHANGED vars
    <2>1. ~Setup /\ ~EndOfInput /\ ~UNCHANGED vars
        BY <1>3 DEF Setup, setDeviceName, setDebugFlags, listen, EndOfInput, channels, vars
    <2>2. ~Shutdown
        BY <1>1 DEF Shutdown, close, waitForDisconnected, WaitTimeout, CloseServer, Terminated, Idle
    <2> QED BY <2>1, <2>2
<1>9. PICK t \in Sockets : HandlePacket(t)
    BY <1>4, <1>5, <1>6, <1>7, <1>8 DEF Next, Peers, EventLoop
<1>10. t = s
    BY <1>1, <1>9 DEF HandlePacket, Reading
<1> QED BY <1>9, <1>10

(* A command to the hub whose source is registered is answered, at the end   *)
(* of what waits for that device.                                            *)
LEMMA CommandIsAnswered ==
    ASSUME IInv, IInv', [Next]_vars, NEW s \in Sockets, Handles(s),
           NEW d, d = SocketOf(m_deviceMap', Head(rx[s]).src), d # NoSocket
    PROVE  \E bodies \in Answers(Head(rx[s]).body, Registered(m_deviceMap'), m_debugFlags) :
               /\ d \in Sockets
               /\ bodies \in Seq(ReplyBody) /\ Len(bodies) > 0
               /\ Len(tx'[d]) = Len(tx[d]) + Len(bodies)
               /\ Last(tx'[d]).id = Head(rx[s]).id
               /\ Last(tx'[d]).body = bodies[Len(bodies)]
<1> DEFINE p == Head(rx[s])
<1>1. HandlePacket(s)
    BY HandledByItsStep DEF IInv
<1>2. p \in Packet /\ p.body.kind = "command" /\ p.dst = m_serverDeviceName
    BY <1>1, ReadingHead DEF IInv, HandlePacket, Handles
<1>3. p.body \in Command
    BY <1>2 DEF Packet, Body, ReplyBody, Command
<1>4. SocketOf(m_deviceMap', p.dst) = NoSocket
    <2>1. m_serverDeviceName' = m_serverDeviceName
        BY <1>1 DEF HandlePacket
    <2> QED BY <1>2, <2>1 DEF IInv, ServerNameReserved, SocketOf
<1>5. processPacket(p, m_deviceMap')
    BY <1>1 DEF HandlePacket
<1>6. handleCommand(p, m_deviceMap')
    BY <1>2, <1>4, <1>5 DEF processPacket
<1>7. d \in Sockets /\ d = m_deviceMap'[p.src]
    BY DEF SocketOf, IInv, TypeOK
<1>8. PICK bodies \in Answers(p.body, Registered(m_deviceMap'), m_debugFlags) :
          tx' = [tx EXCEPT ![d] = @ \o AnswerPackets(p, bodies)]
    BY <1>6, <1>7 DEF handleCommand
<1>9. bodies \in Seq(ReplyBody) /\ bodies # <<>>
    BY <1>3, AnswersType DEF Registered, IInv, TypeOK
<1> DEFINE ps == AnswerPackets(p, bodies)
<1>10. ps \in Seq(Packet) /\ Len(ps) = Len(bodies)
    BY <1>2, <1>9, AnswerPacketsType
<1>11. \A i \in 1 .. Len(bodies) : ps[i].id = p.id /\ ps[i].body = bodies[i]
    BY <1>9 DEF AnswerPackets
<1> HIDE DEF ps
<1>12. tx[d] \in Seq(Packet) /\ tx'[d] = tx[d] \o ps
    BY <1>7, <1>8 DEF IInv, TypeOK, ps
<1>13. Len(bodies) \in Nat /\ Len(bodies) > 0
    BY <1>9
<1>14. /\ Len(tx'[d]) = Len(tx[d]) + Len(bodies)
       /\ tx'[d][Len(tx'[d])] = ps[Len(bodies)]
    <2>1. Len(tx[d] \o ps) = Len(tx[d]) + Len(ps) /\ (tx[d] \o ps)[Len(tx[d] \o ps)] = ps[Len(ps)]
        <3>1. Len(ps) > 0
            BY <1>10, <1>13, Zenon
        <3>2. tx[d] \in Seq(Packet)
            BY <1>12, Zenon
        <3> QED BY <1>10, <3>1, <3>2, EndOfConcat, Zenon
    <2> QED BY <1>10, <1>12, <2>1, Zenon
<1>15. Last(tx'[d]) = ps[Len(bodies)] /\ Len(bodies) \in 1 .. Len(bodies)
    BY <1>13, <1>14 DEF Last
<1>16. Last(tx'[d]).id = p.id /\ Last(tx'[d]).body = bodies[Len(bodies)]
    BY <1>11, <1>15
<1> QED BY <1>7, <1>8, <1>9, <1>13, <1>14, <1>16, Zenon

(* A device that gives its own name is registered under it by then.          *)
LEMMA OwnNameAnswered ==
    ASSUME IInv, IInv', [Next]_vars, NEW s \in Sockets, Handles(s),
           Head(rx[s]).src = m_socketMap'[s]
    PROVE  SocketOf(m_deviceMap', Head(rx[s]).src) = s
<1>1. Head(rx[s]).src \in Fields
    BY ReadingHead DEF Handles, IInv, Packet
<1>2. m_socketMap'[s] \in Names \cup {NoName, Absent}
    BY DEF IInv, TypeOK
<1>3. m_socketMap'[s] \in Names
    BY <1>1, <1>2, HubAssumption DEF HubAssumption, Fields
<1> QED BY <1>3 DEF IInv, RegistryConsistent, SocketOf

(* A device that sends the hub a command under its own name is answered on   *)
(* its own connection, also by the packet that registers it, whatever other  *)
(* devices there are and whatever the command is.                            *)
THEOREM CommandsAreAnswered == Spec => CommandAnswered
<1>1. ASSUME IInv, IInv', [Next]_vars, NEW s \in Sockets, Handles(s),
             Head(rx[s]).src = m_socketMap'[s]
      PROVE  Len(tx'[s]) > Len(tx[s]) /\ Last(tx'[s]).id = Head(rx[s]).id
    <2>1. SocketOf(m_deviceMap', Head(rx[s]).src) = s /\ s # NoSocket
        BY <1>1, OwnNameAnswered, HubAssumption DEF HubAssumption
    <2>2. PICK bodies \in Answers(Head(rx[s]).body, Registered(m_deviceMap'), m_debugFlags) :
              /\ bodies \in Seq(ReplyBody) /\ Len(bodies) > 0
              /\ Len(tx'[s]) = Len(tx[s]) + Len(bodies)
              /\ Last(tx'[s]).id = Head(rx[s]).id
        BY <1>1, <2>1, CommandIsAnswered
    <2>3. Len(tx[s]) \in Nat /\ Len(bodies) \in Nat
        BY <2>2 DEF IInv, TypeOK
    <2> QED BY <2>2, <2>3
<1>2. IInv /\ IInv' /\ [Next]_vars =>
          [\A s \in Sockets :
               Handles(s) /\ Head(rx[s]).src = m_socketMap'[s] =>
                   /\ Len(tx'[s]) > Len(tx[s])
                   /\ Last(tx'[s]).id = Head(rx[s]).id]_vars
    BY <1>1
<1> QED BY <1>2, Invariance, PTL DEF Spec, CommandAnswered

(* Where no name holds a space or a percent character, "get devinfo" finds   *)
(* every registered device it is asked for.                                  *)
LEMMA DevInfoCode ==
    ASSUME Spaced = {}, NEW c \in Command, c.type = "get", c.id = "devinfo",
           NEW R, R \subseteq Names, NEW flags \in DebugFlags, NEW bodies \in Answers(c, R, flags)
    PROVE  bodies[Len(bodies)].code = 0 <=> ToSet(c.args) \subseteq R
<1> DEFINE asked == IF c.args = <<>> THEN R ELSE ToSet(c.args)
<1>1. <<c.type, c.id>> \in Known
    BY DEF Known
<1>2. ArgumentsAccepted(c)
    BY DEF ArgumentsAccepted
<1>3. Replies(c, R, flags) = DevInfoReplies(c, R)
    BY DEF Replies
<1>4. PICK r \in DevInfoReplies(c, R) : bodies = <<Ack(AckNoError), r>>
    BY <1>1, <1>2, <1>3, Zenon DEF Answers
<1>5. bodies[Len(bodies)] = r
    BY <1>4
<1>6. PICK found \in Found(asked, R) :
          r = Reply(IF asked \subseteq found THEN 0 ELSE -1, deviceList(found))
    BY <1>4 DEF DevInfoReplies
<1>7. found = R \cap asked
    BY <1>6 DEF Found
<1>8. asked \subseteq found <=> ToSet(c.args) \subseteq R
    <2>1. c.args = <<>> => ToSet(c.args) = {}
        BY DEF ToSet
    <2> QED BY <1>7, <2>1
<1>9. \A code, data : Reply(code, data).code = code
    BY DEF Reply
<1>10. r.code = IF asked \subseteq found THEN 0 ELSE -1
    BY <1>6, <1>9, Zenon
<1> HIDE DEF asked
<1> QED BY <1>5, <1>8, <1>10

(* "get devinfo" reports an error exactly when it was asked for a device     *)
(* that is not registered, provided that no name holds a space or a percent  *)
(* character: with one that does, the property is really violated.           *)
THEOREM DevInfoIsRight ==
    ASSUME Spaced = {}
    PROVE  Spec => DevInfoFindsDevices
<1>1. ASSUME IInv, IInv', [Next]_vars, NEW s \in Sockets, Handles(s),
             Head(rx[s]).body.type = "get", Head(rx[s]).body.id = "devinfo",
             SocketOf(m_deviceMap', Head(rx[s]).src) # NoSocket
      PROVE  Last(tx'[SocketOf(m_deviceMap', Head(rx[s]).src)]).body.code = 0
             <=> ToSet(Head(rx[s]).body.args) \subseteq Registered(m_deviceMap')
    <2> DEFINE d == SocketOf(m_deviceMap', Head(rx[s]).src)
               c == Head(rx[s]).body
    <2>1. PICK bodies \in Answers(c, Registered(m_deviceMap'), m_debugFlags) :
              Last(tx'[d]).body = bodies[Len(bodies)]
        <3>1. d # NoSocket
            BY <1>1
        <3> QED BY <1>1, <3>1, CommandIsAnswered, Zenon
    <2>2. c \in Command
        <3>1. Reading(s) /\ c.kind = "command"
            BY <1>1 DEF Handles
        <3>2. TypeOK /\ SlotHasInput
            BY <1>1 DEF IInv
        <3>3. Head(rx[s]) \in Packet
            BY <1>1, <3>1, <3>2, ReadingHead
        <3> QED BY <3>1, <3>3 DEF Packet, Body, ReplyBody, Command
    <2>3. Registered(m_deviceMap') \subseteq Names /\ m_debugFlags \in DebugFlags
        BY <1>1 DEF Registered, IInv, TypeOK
    <2>4. bodies[Len(bodies)].code = 0 <=> ToSet(c.args) \subseteq Registered(m_deviceMap')
        BY <1>1, <2>1, <2>2, <2>3, DevInfoCode
    <2> QED BY <2>1, <2>4
<1>2. IInv /\ IInv' /\ [Next]_vars =>
          [\A s \in Sockets :
               LET p == Head(rx[s])
                   d == SocketOf(m_deviceMap', p.src)
               IN  /\ Handles(s)
                   /\ p.body.type = "get" /\ p.body.id = "devinfo"
                   /\ d # NoSocket
                   => (Last(tx'[d]).body.code = 0 <=>
                       ToSet(p.body.args) \subseteq Registered(m_deviceMap'))]_vars
    BY <1>1
<1> QED BY <1>2, Invariance, PTL DEF Spec, DevInfoFindsDevices
=============================================================================
