---------------------------- MODULE DcpHubProofs ----------------------------
(* Theorems about the hub, for every set of sockets, names and packets.      *)
EXTENDS DcpHub, FiniteSetTheorems, SequenceTheorems, TLAPS

-----------------------------------------------------------------------------
(* The answers of the hub are messages.                                      *)

(* The list QMap::keys() returns is a sequence of the names in the map.      *)
LEMMA DeviceListType ==
    ASSUME NEW R, R \subseteq Names
    PROVE  deviceList(R) \in Seq(Names)
<1>1. IsFiniteSet(R)
    BY NamesAssumption, FS_Subset DEF NamesAssumption
<1>2. /\ Cardinality(R) \in Nat
      /\ ExistsBijection(1 .. Cardinality(R), R)
    BY <1>1, FS_CardinalityType
<1>3. \E f \in [1 .. Cardinality(R) -> R] : IsInjective(f)
    BY <1>2 DEF ExistsBijection, Bijection, Injection
<1>4. deviceList(R) \in [1 .. Cardinality(R) -> R]
    BY <1>3 DEF deviceList, SetToSeq
<1> QED BY <1>2, <1>4

(* Every sequence handleCommand() answers with consists of replies: one ACK, *)
(* or one ACK and one reply.                                                 *)
LEMMA AnswersType ==
    ASSUME NEW c \in Command, NEW R, R \subseteq Names, NEW flags \in DebugFlags,
           NEW bodies \in Answers(c, R, flags)
    PROVE  bodies \in Seq(ReplyBody) /\ bodies # <<>>
<1>a. {"ACK", "FIN", "version", "qtversion", "none", "msg", "pkg", "full"} \subseteq ReplyWords
    BY DEF ReplyWords
<1>b. Names \subseteq ReplyWords /\ Args \subseteq ReplyWords
    BY DEF ReplyWords, Args
<1>1. \A code \in Int : Ack(code) \in ReplyBody
    BY <1>a DEF Ack, ReplyBody
<1>2. \A code \in Int : \A data \in Seq(ReplyWords) : Reply(code, data) \in ReplyBody
    <2>1. <<"FIN">> \in Seq(ReplyWords)
        BY <1>a
    <2> QED BY <2>1 DEF Reply, ReplyBody
<1>c. \A data \in Seq(ReplyWords) : Reply(0, data) \in ReplyBody
    BY <1>2
<1>3. \A S : S \subseteq Names => deviceList(S) \in Seq(ReplyWords)
    BY <1>b, DeviceListType, SeqMonotonic
<1>4. c.args \in Seq(ReplyWords)
    BY <1>b, SeqMonotonic DEF Command
<1>5. \A r \in Replies(c, R, flags) : r \in ReplyBody
    <2>1. \A r \in DevInfoReplies(c, R) : r \in ReplyBody
        <3> DEFINE asked == IF c.args = <<>> THEN R ELSE ToSet(c.args)
        <3>1. SUFFICES ASSUME NEW found \in Found(asked, R)
                       PROVE  Reply(IF asked \subseteq found THEN 0 ELSE -1,
                                    deviceList(found)) \in ReplyBody
            BY DEF DevInfoReplies
        <3>2. found \subseteq Names
            BY DEF Found
        <3>3. deviceList(found) \in Seq(ReplyWords)
            BY <1>3, <3>2
        <3>4. (IF asked \subseteq found THEN 0 ELSE -1) \in Int
            OBVIOUS
        <3> HIDE DEF asked
        <3> QED BY <1>2, <3>3, <3>4
    <2>2. Reply(0, <<ModeWord(flags)>>) \in ReplyBody
        <3>1. ModeWord(flags) \in ReplyWords
            BY <1>a DEF ModeWord
        <3>2. <<ModeWord(flags)>> \in Seq(ReplyWords)
            BY <3>1
        <3> QED BY <1>c, <3>2, Zenon
    <2>3. c.id \in {"version", "qtversion"} => Reply(0, <<c.id>>) \in ReplyBody
        <3>1. c.id \in {"version", "qtversion"} => c.id \in ReplyWords
            BY <1>a
        <3>2. c.id \in {"version", "qtversion"} => <<c.id>> \in Seq(ReplyWords)
            BY <3>1
        <3> QED BY <1>c, <3>2, Zenon
    <2>4. Reply(0, <<>>) \in ReplyBody
        <3>1. <<>> \in Seq(ReplyWords)
            OBVIOUS
        <3> QED BY <1>c, <3>1, Zenon
    <2>5. Reply(0, deviceList(R)) \in ReplyBody /\ Reply(0, c.args) \in ReplyBody
        BY <1>2, <1>3, <1>4
    <2> QED BY <2>1, <2>2, <2>3, <2>4, <2>5 DEF Replies
<1>6. CASE bodies \in {<<Ack(AckNoError), r>> : r \in Replies(c, R, flags)}
    <2>1. PICK r \in Replies(c, R, flags) : bodies = <<Ack(AckNoError), r>>
        BY <1>6
    <2>2. Ack(AckNoError) \in ReplyBody /\ r \in ReplyBody
        BY <1>1, <1>5 DEF AckNoError
    <2> QED BY <2>1, <2>2
<1>7. CASE bodies \in {<<Ack(AckUnknownCommandError)>>, <<Ack(AckParameterError)>>}
    <2>1. /\ Ack(AckUnknownCommandError) \in ReplyBody
          /\ Ack(AckParameterError) \in ReplyBody
        BY <1>1 DEF AckUnknownCommandError, AckParameterError
    <2>2. CASE bodies = <<Ack(AckUnknownCommandError)>>
        BY <2>1, <2>2
    <2>3. CASE bodies = <<Ack(AckParameterError)>>
        BY <2>1, <2>3
    <2> QED BY <1>7, <2>2, <2>3
<1>8. \/ bodies \in {<<Ack(AckNoError), r>> : r \in Replies(c, R, flags)}
      \/ bodies \in {<<Ack(AckUnknownCommandError)>>, <<Ack(AckParameterError)>>}
    BY Zenon DEF Answers
<1> QED
    BY <1>6, <1>7, <1>8

(* An accepted or refused command leaves the debug flags within their type.  *)
LEMMA FlagsType ==
    ASSUME NEW c, NEW flags \in DebugFlags
    PROVE  FlagsAfter(c, flags) \in DebugFlags
BY DEF FlagsAfter, ModeFlags, DebugFlags, NoDebug, MessageDebug, PacketDebug, FullDebug

-----------------------------------------------------------------------------
(* Type correctness.                                                         *)

(* Answers are packets for the device that sent the command.                 *)
LEMMA AnswerPacketsType ==
    ASSUME NEW p \in Packet, NEW bodies \in Seq(ReplyBody)
    PROVE  /\ AnswerPackets(p, bodies) \in Seq(Packet)
           /\ Len(AnswerPackets(p, bodies)) = Len(bodies)
           /\ \A i \in 1 .. Len(bodies) :
                  /\ AnswerPackets(p, bodies)[i].from = NoSocket
                  /\ AnswerPackets(p, bodies)[i].dst = p.src
<1>1. DOMAIN bodies = 1 .. Len(bodies) /\ Len(bodies) \in Nat
    OBVIOUS
<1>2. \A i \in 1 .. Len(bodies) : bodies[i] \in Body
    BY DEF Body
<1>3. \A i \in 1 .. Len(bodies) :
          [from |-> NoSocket, id |-> p.id,
           src |-> p.dst, dst |-> p.src, body |-> bodies[i]] \in Packet
    BY <1>2 DEF Packet
<1> QED BY <1>1, <1>3 DEF AnswerPackets

(* The packets forwarded and answered are packets.                           *)
LEMMA ProcessPacketType ==
    ASSUME TypeOK, NEW p \in Packet, p.body.kind # "oversize",
           NEW map \in [Names -> Sockets \cup {NoSocket}],
           processPacket(p, map)
    PROVE  /\ tx' \in [Sockets -> Seq(Packet)]
           /\ m_debugFlags' \in DebugFlags
<1>1. CASE SocketOf(map, p.dst) # NoSocket
    <2>1. map[p.dst] \in Sockets
        BY <1>1 DEF SocketOf
    <2>2. /\ tx' = [tx EXCEPT ![map[p.dst]] = Append(@, p)]
          /\ UNCHANGED m_debugFlags
        BY <1>1 DEF processPacket
    <2> QED BY <2>1, <2>2 DEF TypeOK
<1>2. CASE UNCHANGED <<tx, m_debugFlags>>
    BY <1>2 DEF TypeOK
<1>3. CASE /\ p.dst = m_serverDeviceName
           /\ p.body.kind = "command"
           /\ SocketOf(map, p.src) # NoSocket
           /\ handleCommand(p, map)
    <2>1. p.body \in Command
        BY <1>3 DEF Packet, Body, ReplyBody, Command
    <2>2. PICK bodies \in Answers(p.body, Registered(map), m_debugFlags) :
              /\ tx' = [tx EXCEPT ![map[p.src]] = @ \o AnswerPackets(p, bodies)]
              /\ m_debugFlags' = FlagsAfter(p.body, m_debugFlags)
        BY <1>3 DEF handleCommand
    <2>3. bodies \in Seq(ReplyBody)
        BY <2>1, AnswersType DEF Registered, TypeOK
    <2>4. AnswerPackets(p, bodies) \in Seq(Packet)
        BY <2>3, AnswerPacketsType
    <2>5. map[p.src] \in Sockets
        BY <1>3 DEF SocketOf
    <2>6. tx[map[p.src]] \o AnswerPackets(p, bodies) \in Seq(Packet)
        BY <2>4, <2>5, ConcatProperties DEF TypeOK
    <2> QED BY <2>2, <2>5, <2>6, FlagsType DEF TypeOK
<1> QED BY <1>1, <1>2, <1>3 DEF processPacket

LEMMA DisconnectFromHostType ==
    ASSUME TypeOK, NEW S \in SUBSET Sockets, disconnectFromHost(S)
    PROVE  /\ m_socketMap' \in [Sockets -> Names \cup {NoName, Absent}]
           /\ m_deviceMap' \in [Names -> Sockets \cup {NoSocket}]
           /\ sockState' \in [Sockets -> {"free", "connected", "closing", "dead"}]
           /\ rx' \in [Sockets -> Seq(Packet)]
           /\ tx' \in [Sockets -> Seq(Packet)]
BY DEF TypeOK, disconnectFromHost, socketDisconnected

LEMMA DisconnectedType ==
    ASSUME TypeOK, NEW s \in Sockets, Disconnected(s)
    PROVE  /\ m_socketMap' \in [Sockets -> Names \cup {NoName, Absent}]
           /\ m_deviceMap' \in [Names -> Sockets \cup {NoSocket}]
           /\ sockState' \in [Sockets -> {"free", "connected", "closing", "dead"}]
           /\ rx' \in [Sockets -> Seq(Packet)]
           /\ tx' \in [Sockets -> Seq(Packet)]
           /\ active' = NoSocket
           /\ toWait' \subseteq Sockets
BY DEF TypeOK, Disconnected, EndOfWait, socketDisconnected

(* The packet a slot reads is there.                                         *)
LEMMA ReadingHead ==
    ASSUME TypeOK, SlotHasInput, NEW s \in Sockets, Reading(s)
    PROVE  /\ rx[s] # <<>>
           /\ Head(rx[s]) \in Packet
           /\ Tail(rx[s]) \in Seq(Packet)
           /\ Len(Tail(rx[s])) = Len(rx[s]) - 1
           /\ sockState[s] = "connected"
<1>1. s # NoSocket
    BY HubAssumption DEF HubAssumption
<1>2. rx[s] \in Seq(Packet) /\ Len(rx[s]) > 0 /\ sockState[s] = "connected"
    BY <1>1 DEF Reading, SlotHasInput, TypeOK
<1>3. rx[s] # <<>>
    BY <1>2
<1> QED BY <1>2, <1>3, HeadTailProperties

LEMMA RegisterType ==
    ASSUME TypeOK, NEW s \in Sockets, NEW name \in Fields, registerDeviceName(s, name)
    PROVE  /\ m_socketMap' \in [Sockets -> Names \cup {NoName, Absent}]
           /\ m_deviceMap' \in [Names -> Sockets \cup {NoSocket}]
BY DEF TypeOK, registerDeviceName, MayRegister, Fields, registry

(* Every step keeps the types.                                               *)
LEMMA TypeStep ==
    ASSUME TypeOK, SlotHasInput, [Next]_vars
    PROVE  TypeOK'
<1>1. ASSUME NEW n \in ServerNames, setDeviceName(n)
      PROVE  TypeOK'
    BY <1>1, HubAssumption DEF setDeviceName, TypeOK, HubAssumption, registry, settings, channels, control, vars
<1>2. ASSUME NEW f \in StartFlags, setDebugFlags(f)
      PROVE  TypeOK'
    BY <1>2, HubAssumption DEF setDebugFlags, TypeOK, HubAssumption, registry, settings, channels, control, vars
<1>3. ASSUME listen
      PROVE  TypeOK'
    BY <1>3, HubAssumption DEF listen, TypeOK, HubAssumption, registry, settings, channels, control, vars
<1>4. ASSUME NEW s \in Sockets, NEW t \in Traffic, PeerSend(s, t)
      PROVE  TypeOK'
    <2>1. [from |-> s, id |-> sent + 1, src |-> t.src, dst |-> t.dst, body |-> t.body]
              \in Packet
        BY HubAssumption DEF HubAssumption, Packet, TypeOK
    <2> QED BY <1>4, <2>1 DEF PeerSend, TypeOK, registry, settings, control
<1>5. ASSUME NEW s \in Sockets, PeerGone(s)
      PROVE  TypeOK'
    BY <1>5, DisconnectedType DEF PeerGone, TypeOK, settings
<1>6. ASSUME NEW s \in Sockets, WriteOut(s)
      PROVE  TypeOK'
    <2>1. CASE Disconnected(s)
        BY <1>6, <2>1, DisconnectedType DEF WriteOut, TypeOK, settings
    <2>2. CASE tx' = [tx EXCEPT ![s] = Tail(@)] /\ UNCHANGED <<registry, sockState, rx, active, toWait>>
        <3>1. Tail(tx[s]) \in Seq(Packet)
            BY <1>6, HeadTailProperties DEF WriteOut, TypeOK
        <3> QED BY <1>6, <2>2, <3>1 DEF WriteOut, TypeOK, settings, registry
    <2> QED BY <1>6, <2>1, <2>2 DEF WriteOut
<1>7. ASSUME EndOfInput
      PROVE  TypeOK'
    BY <1>7, HubAssumption DEF EndOfInput, TypeOK, HubAssumption, registry, settings, channels, control, vars
<1>8. ASSUME NEW s \in Sockets, newConnection(s)
      PROVE  TypeOK'
    BY <1>8, HubAssumption DEF newConnection, TypeOK, HubAssumption, registry, settings, channels, control, vars
<1>9. ASSUME NEW s \in Sockets, DeferredDelete(s)
      PROVE  TypeOK'
    BY <1>9, HubAssumption DEF DeferredDelete, TypeOK, HubAssumption, registry, settings, channels, control, vars
<1>10. ASSUME NEW s \in Sockets, socketReadyRead(s)
      PROVE  TypeOK'
    BY <1>10, HubAssumption DEF socketReadyRead, TypeOK, HubAssumption, registry, settings, channels, control, vars
<1>11. ASSUME NEW s \in Sockets, RejectOversize(s)
      PROVE  TypeOK'
    <2>1. disconnectFromHost({s}) /\ {s} \in SUBSET Sockets
        BY <1>11 DEF RejectOversize
    <2> QED BY <1>11, <2>1, DisconnectFromHostType
            DEF RejectOversize, LeaveLoop, TypeOK, settings
<1>12. ASSUME NEW s \in Sockets, RejectDevice(s)
      PROVE  TypeOK'
    <2>1. disconnectFromHost({s}) /\ {s} \in SUBSET Sockets
        BY <1>12 DEF RejectDevice
    <2> QED BY <1>12, <2>1, DisconnectFromHostType
            DEF RejectDevice, LeaveLoop, TypeOK, settings
<1>13. ASSUME NEW s \in Sockets, HandlePacket(s)
      PROVE  TypeOK'
    <2> DEFINE p == Head(rx[s])
    <2>1. /\ Reading(s)
          /\ p.body.kind # "oversize"
          /\ registerDeviceName(s, p.src)
          /\ processPacket(p, m_deviceMap')
        BY <1>13 DEF HandlePacket
    <2>2. p \in Packet /\ Tail(rx[s]) \in Seq(Packet)
        BY <2>1, ReadingHead
    <2>3. /\ m_socketMap' \in [Sockets -> Names \cup {NoName, Absent}]
          /\ m_deviceMap' \in [Names -> Sockets \cup {NoSocket}]
        BY <2>1, <2>2, RegisterType DEF Packet
    <2>4. tx' \in [Sockets -> Seq(Packet)] /\ m_debugFlags' \in DebugFlags
        BY <2>1, <2>2, <2>3, ProcessPacketType
    <2>5. rx' \in [Sockets -> Seq(Packet)] /\ toRead' \in Nat
        BY <1>13, <2>2 DEF HandlePacket, Reading, TypeOK
    <2> QED BY <1>13, <2>3, <2>4, <2>5 DEF HandlePacket, TypeOK
<1>14. ASSUME close
      PROVE  TypeOK'
    <2> DEFINE S == {s \in Sockets : m_socketMap[s] # Absent}
    <2>1. disconnectFromHost(S) /\ S \in SUBSET Sockets
        BY <1>14 DEF close
    <2>2. toWait' \subseteq Sockets
        BY <1>14 DEF close
    <2> QED BY <1>14, <2>1, <2>2, DisconnectFromHostType DEF close, TypeOK, settings
<1>15. ASSUME NEW s \in Sockets, waitForDisconnected(s)
      PROVE  TypeOK'
    BY <1>15, HubAssumption DEF waitForDisconnected, TypeOK, HubAssumption, registry, settings, channels, control, vars
<1>16. ASSUME NEW s \in Sockets, WaitTimeout(s)
      PROVE  TypeOK'
    BY <1>16 DEF WaitTimeout, EndOfWait, TypeOK, registry, settings, channels
<1>17. ASSUME CloseServer
      PROVE  TypeOK'
    BY <1>17, HubAssumption DEF CloseServer, TypeOK, HubAssumption, registry, settings, channels, control, vars
<1>18. ASSUME UNCHANGED vars
      PROVE  TypeOK'
    BY <1>18 DEF TypeOK, registry, settings, channels, control, vars
<1>19. ASSUME NEW s \in Sockets, PeerClosed(s)
      PROVE  TypeOK'
    <2>1. disconnectFromHost({s}) /\ {s} \in SUBSET Sockets
        BY <1>19 DEF PeerClosed
    <2> QED BY <1>19, <2>1, DisconnectFromHostType
            DEF PeerClosed, control, TypeOK, settings
<1> QED
    BY <1>1, <1>2, <1>3, <1>4, <1>5, <1>6, <1>7, <1>8, <1>9, <1>10, <1>11, <1>12, <1>13, <1>14, <1>15, <1>16, <1>17, <1>18, <1>19
    DEF Next, Setup, Peers, EventLoop, Shutdown, Terminated

-----------------------------------------------------------------------------
(* What the handling of a packet does to the write buffers: nothing, or it   *)
(* appends packets addressed to n to the buffer of the device named n.       *)
LEMMA ProcessPacketEffect ==
    ASSUME TypeOK, NEW p \in Packet, NEW map \in [Names -> Sockets \cup {NoSocket}],
           processPacket(p, map)
    PROVE  \/ tx' = tx
           \/ \E n \in Names, ps \in Seq(Packet) :
                  /\ map[n] \in Sockets
                  /\ tx' = [tx EXCEPT ![map[n]] = @ \o ps]
                  /\ \A i \in 1 .. Len(ps) : ps[i].dst = n
<1>1. CASE SocketOf(map, p.dst) # NoSocket
    <2>1. p.dst \in Names /\ map[p.dst] \in Sockets
        BY <1>1 DEF SocketOf
    <2>2. tx' = [tx EXCEPT ![map[p.dst]] = Append(@, p)]
        BY <1>1 DEF processPacket
    <2>3. tx[map[p.dst]] \in Seq(Packet)
        BY <2>1 DEF TypeOK
    <2>4. Append(tx[map[p.dst]], p) = tx[map[p.dst]] \o <<p>>
        BY <2>3
    <2>5. <<p>> \in Seq(Packet) /\ \A i \in 1 .. Len(<<p>>) : <<p>>[i].dst = p.dst
        OBVIOUS
    <2>6. tx' = [tx EXCEPT ![map[p.dst]] = @ \o <<p>>]
        BY <2>2, <2>4
    <2> QED BY <2>1, <2>5, <2>6
<1>2. CASE /\ p.body.kind = "command"
           /\ SocketOf(map, p.src) # NoSocket
           /\ handleCommand(p, map)
    <2>1. p.body \in Command
        BY <1>2 DEF Packet, Body, ReplyBody, Command
    <2>2. PICK bodies \in Answers(p.body, Registered(map), m_debugFlags) :
              tx' = [tx EXCEPT ![map[p.src]] = @ \o AnswerPackets(p, bodies)]
        BY <1>2 DEF handleCommand
    <2>3. bodies \in Seq(ReplyBody)
        BY <2>1, AnswersType DEF Registered, TypeOK
    <2>4. /\ AnswerPackets(p, bodies) \in Seq(Packet)
          /\ \A i \in 1 .. Len(AnswerPackets(p, bodies)) :
                 AnswerPackets(p, bodies)[i].dst = p.src
        <3>1. AnswerPackets(p, bodies) \in Seq(Packet)
            BY <2>3, AnswerPacketsType
        <3>2. Len(AnswerPackets(p, bodies)) = Len(bodies)
            BY <2>3, AnswerPacketsType
        <3>3. \A i \in 1 .. Len(bodies) : AnswerPackets(p, bodies)[i].dst = p.src
            BY <2>3, AnswerPacketsType
        <3> QED BY <3>1, <3>2, <3>3
    <2>5. p.src \in Names /\ map[p.src] \in Sockets
        BY <1>2 DEF SocketOf
    <2> QED BY <2>2, <2>4, <2>5
<1>3. CASE tx' = tx
    BY <1>3
<1> QED BY <1>1, <1>2, <1>3 DEF processPacket

(* A device named in the map is connected or closing.                        *)
LEMMA OwnerIsLive ==
    ASSUME TypeOK, RegistryConsistent, NEW n \in Names, m_deviceMap[n] # NoSocket
    PROVE  /\ m_deviceMap[n] \in Sockets
           /\ m_socketMap[m_deviceMap[n]] = n
           /\ sockState[m_deviceMap[n]] \in {"connected", "closing"}
<1>1. n # Absent /\ m_deviceMap[n] \in Sockets
    BY HubAssumption DEF HubAssumption, Fields, TypeOK
<1> QED BY <1>1 DEF RegistryConsistent

(* A disconnect keeps the maps inverse to each other: the sockets of `gone`   *)
(* are dead and any other live socket stays live.                            *)
LEMMA GoneKeepsRegistry ==
    ASSUME TypeOK, RegistryConsistent, NEW gone \in SUBSET Sockets,
           socketDisconnected(gone), TypeOK',
           \A s \in gone : sockState'[s] = "dead",
           \A s \in Sockets \ gone : sockState'[s] \in {"connected", "closing"}
                                      <=> sockState[s] \in {"connected", "closing"}
    PROVE  RegistryConsistent'
<1>1. ASSUME NEW s \in Sockets
      PROVE  /\ m_socketMap'[s] \in Names => m_deviceMap'[m_socketMap'[s]] = s
             /\ m_socketMap'[s] # Absent <=> sockState'[s] \in {"connected", "closing"}
    <2>1. CASE s \in gone
        <3>1. m_socketMap'[s] = Absent /\ Absent \notin Names
            BY <2>1, HubAssumption DEF socketDisconnected, HubAssumption, Fields
        <3> QED BY <2>1, <3>1
    <2>2. CASE s \notin gone
        <3>1. m_socketMap'[s] = m_socketMap[s]
            BY <2>2 DEF socketDisconnected
        <3>2. ASSUME m_socketMap[s] \in Names
              PROVE  m_deviceMap'[m_socketMap[s]] = s
            <4>1. \A t \in gone : m_socketMap[t] # m_socketMap[s]
                BY <2>2, <3>2 DEF RegistryConsistent
            <4> QED BY <3>2, <4>1 DEF socketDisconnected, RegistryConsistent
        <3> QED BY <2>2, <3>1, <3>2 DEF RegistryConsistent
    <2> QED BY <2>1, <2>2
<1>2. ASSUME NEW n \in Names, m_deviceMap'[n] # NoSocket
      PROVE  m_socketMap'[m_deviceMap'[n]] = n
    <2>1. /\ m_deviceMap'[n] = m_deviceMap[n]
          /\ \A s \in gone : m_socketMap[s] # n
        BY <1>2 DEF socketDisconnected
    <2>2. m_deviceMap[n] \in Sockets /\ m_socketMap[m_deviceMap[n]] = n
        BY <1>2, <2>1 DEF RegistryConsistent, TypeOK
    <2> QED BY <2>1, <2>2 DEF socketDisconnected
<1> QED BY <1>1, <1>2 DEF RegistryConsistent

LEMMA DisconnectKeepsRegistry ==
    ASSUME TypeOK, RegistryConsistent, TypeOK', NEW S \in SUBSET Sockets,
           disconnectFromHost(S),
           \A s \in S : sockState[s] \in {"connected", "closing"}
    PROVE  RegistryConsistent'
<1> DEFINE gone == {s \in S : tx[s] = <<>>}
<1>1. socketDisconnected(gone) /\ gone \in SUBSET Sockets
    BY DEF disconnectFromHost
<1>2. \A s \in gone : sockState'[s] = "dead"
    BY DEF disconnectFromHost
<1>3. \A s \in Sockets \ gone : sockState'[s] \in {"connected", "closing"}
                                <=> sockState[s] \in {"connected", "closing"}
    BY DEF disconnectFromHost
<1> HIDE DEF gone
<1> QED BY <1>1, <1>2, <1>3, GoneKeepsRegistry

LEMMA DisconnectedKeepsRegistry ==
    ASSUME TypeOK, RegistryConsistent, TypeOK', NEW s \in Sockets, Disconnected(s)
    PROVE  RegistryConsistent'
<1>1. socketDisconnected({s}) /\ sockState' = [sockState EXCEPT ![s] = "dead"]
    BY DEF Disconnected
<1>2. \A t \in {s} : sockState'[t] = "dead"
    BY <1>1 DEF TypeOK
<1>3. \A t \in Sockets \ {s} : sockState'[t] = sockState[t]
    BY <1>1 DEF TypeOK
<1> QED BY <1>1, <1>2, <1>3, GoneKeepsRegistry


(* Every step leaves no input to a socket that is not read and no output to  *)
(* one that is gone.                                                         *)
LEMMA QuietStep ==
    ASSUME TypeOK, SlotHasInput, RegistryConsistent, QuietChannels, TypeOK', [Next]_vars
    PROVE  QuietChannels'
<1>1. ASSUME NEW n \in ServerNames, setDeviceName(n)
      PROVE  QuietChannels'
    BY <1>1 DEF setDeviceName, registry, channels, QuietChannels, TypeOK
<1>2. ASSUME NEW f \in StartFlags, setDebugFlags(f)
      PROVE  QuietChannels'
    BY <1>2 DEF setDebugFlags, registry, channels, QuietChannels, TypeOK
<1>3. ASSUME listen
      PROVE  QuietChannels'
    BY <1>3 DEF listen, registry, channels, QuietChannels, TypeOK
<1>4. ASSUME NEW s \in Sockets, NEW t \in Traffic, PeerSend(s, t)
      PROVE  QuietChannels'
    BY <1>4 DEF PeerSend, registry, QuietChannels, TypeOK
<1>5. ASSUME NEW s \in Sockets, PeerGone(s)
      PROVE  QuietChannels'
    BY <1>5
       DEF PeerGone, Served, Idle, Disconnected, socketDisconnected,
           QuietChannels, TypeOK
<1>6. ASSUME NEW s \in Sockets, WriteOut(s)
      PROVE  QuietChannels'
    BY <1>6
       DEF WriteOut, Served, Idle, Disconnected, socketDisconnected, registry,
           QuietChannels, TypeOK
<1>7. ASSUME EndOfInput
      PROVE  QuietChannels'
    BY <1>7 DEF EndOfInput, registry, channels, QuietChannels, TypeOK
<1>8. ASSUME NEW s \in Sockets, newConnection(s)
      PROVE  QuietChannels'
    BY <1>8 DEF newConnection, Idle, QuietChannels, TypeOK
<1>9. ASSUME NEW s \in Sockets, DeferredDelete(s)
      PROVE  QuietChannels'
    BY <1>9 DEF DeferredDelete, Idle, registry, QuietChannels, TypeOK
<1>10. ASSUME NEW s \in Sockets, socketReadyRead(s)
      PROVE  QuietChannels'
    BY <1>10 DEF socketReadyRead, Idle, registry, channels, QuietChannels, TypeOK
<1>11. ASSUME NEW s \in Sockets, RejectOversize(s)
      PROVE  QuietChannels'
    BY <1>11
       DEF RejectOversize, Reading, LeaveLoop, disconnectFromHost,
           socketDisconnected, QuietChannels, TypeOK
<1>12. ASSUME NEW s \in Sockets, RejectDevice(s)
      PROVE  QuietChannels'
    BY <1>12
       DEF RejectDevice, Reading, LeaveLoop, disconnectFromHost,
           socketDisconnected, QuietChannels, TypeOK
<1>13. ASSUME NEW s \in Sockets, HandlePacket(s)
      PROVE  QuietChannels'
    <2> DEFINE p == Head(rx[s])
    <2>1. /\ Reading(s)
          /\ registerDeviceName(s, p.src)
          /\ processPacket(p, m_deviceMap')
          /\ rx' = [rx EXCEPT ![s] = Tail(@)]
          /\ sockState' = sockState
        BY <1>13 DEF HandlePacket
    <2>2. p \in Packet /\ sockState[s] = "connected"
        BY <2>1, ReadingHead
    <2>3. \A d \in Sockets : tx'[d] # tx[d] => sockState[d] \in {"connected", "closing"}
        <3>1. m_deviceMap' \in [Names -> Sockets \cup {NoSocket}]
            BY DEF TypeOK
        <3>2. CASE tx' = tx
            BY <3>2
        <3>3. ASSUME NEW n \in Names, NEW ps \in Seq(Packet),
                     m_deviceMap'[n] \in Sockets,
                     tx' = [tx EXCEPT ![m_deviceMap'[n]] = @ \o ps]
              PROVE  \A d \in Sockets : tx'[d] # tx[d] =>
                         sockState[d] \in {"connected", "closing"}
            <4>1. CASE m_deviceMap'[n] = s
                BY <2>2, <3>3, <4>1 DEF TypeOK
            <4>2. CASE m_deviceMap'[n] # s
                <5>1. m_deviceMap[n] = m_deviceMap'[n]
                    BY <2>1, <4>2 DEF registerDeviceName, registry, TypeOK
                <5>2. sockState[m_deviceMap'[n]] \in {"connected", "closing"}
                    BY <3>3, <5>1, OwnerIsLive, HubAssumption DEF HubAssumption
                <5> QED BY <3>3, <5>2 DEF TypeOK
            <4> QED BY <4>1, <4>2
        <3> QED BY <2>1, <2>2, <3>1, <3>2, <3>3, ProcessPacketEffect
    <2> QED BY <2>1, <2>2, <2>3 DEF QuietChannels, TypeOK
<1>14. ASSUME close
      PROVE  QuietChannels'
    BY <1>14
       DEF close, Idle, disconnectFromHost, socketDisconnected, QuietChannels,
           TypeOK
<1>15. ASSUME NEW s \in Sockets, waitForDisconnected(s)
      PROVE  QuietChannels'
    BY <1>15 DEF waitForDisconnected, registry, channels, QuietChannels, TypeOK
<1>16. ASSUME NEW s \in Sockets, WaitTimeout(s)
      PROVE  QuietChannels'
    BY <1>16 DEF WaitTimeout, registry, channels, QuietChannels, TypeOK
<1>17. ASSUME CloseServer
      PROVE  QuietChannels'
    BY <1>17 DEF CloseServer, registry, channels, QuietChannels, TypeOK
<1>18. ASSUME UNCHANGED vars
      PROVE  QuietChannels'
    BY <1>18 DEF vars, registry, channels, QuietChannels, TypeOK
<1>19. ASSUME NEW s \in Sockets, PeerClosed(s)
      PROVE  QuietChannels'
    BY <1>19
       DEF PeerClosed, Idle, disconnectFromHost, socketDisconnected, QuietChannels, TypeOK
<1> QED
    BY <1>1, <1>2, <1>3, <1>4, <1>5, <1>6, <1>7, <1>8, <1>9, <1>10, <1>11, <1>12, <1>13, <1>14, <1>15, <1>16, <1>17, <1>18, <1>19
    DEF Next, Setup, Peers, EventLoop, Shutdown, Terminated

(* Every step keeps the input of the slot that runs.                         *)
LEMMA SlotStep ==
    ASSUME TypeOK, SlotHasInput, SetupQuiet, [Next]_vars
    PROVE  SlotHasInput'
<1>1. ASSUME NEW n \in ServerNames, setDeviceName(n)
      PROVE  SlotHasInput'
    BY <1>1 DEF setDeviceName, channels, control, SlotHasInput, TypeOK
<1>2. ASSUME NEW f \in StartFlags, setDebugFlags(f)
      PROVE  SlotHasInput'
    BY <1>2 DEF setDebugFlags, channels, control, SlotHasInput, TypeOK
<1>3. ASSUME listen
      PROVE  SlotHasInput'
    BY <1>3 DEF listen, channels, SetupQuiet, SlotHasInput, TypeOK
<1>4. ASSUME NEW s \in Sockets, NEW t \in Traffic, PeerSend(s, t)
      PROVE  SlotHasInput'
    BY <1>4 DEF PeerSend, control, SlotHasInput, TypeOK
<1>5. ASSUME NEW s \in Sockets, PeerGone(s)
      PROVE  SlotHasInput'
    BY <1>5
       DEF PeerGone, Served, Idle, Disconnected, EndOfWait, SlotHasInput, TypeOK
<1>6. ASSUME NEW s \in Sockets, WriteOut(s)
      PROVE  SlotHasInput'
    BY <1>6
       DEF WriteOut, Served, Idle, Disconnected, EndOfWait, SlotHasInput, TypeOK
<1>7. ASSUME EndOfInput
      PROVE  SlotHasInput'
    BY <1>7 DEF EndOfInput, channels, SlotHasInput, TypeOK
<1>8. ASSUME NEW s \in Sockets, newConnection(s)
      PROVE  SlotHasInput'
    BY <1>8 DEF newConnection, Idle, control, SlotHasInput, TypeOK
<1>9. ASSUME NEW s \in Sockets, DeferredDelete(s)
      PROVE  SlotHasInput'
    BY <1>9 DEF DeferredDelete, Idle, control, SlotHasInput, TypeOK
<1>10. ASSUME NEW s \in Sockets, socketReadyRead(s)
      PROVE  SlotHasInput'
    BY <1>10 DEF socketReadyRead, Idle, channels, SlotHasInput, TypeOK
<1>11. ASSUME NEW s \in Sockets, RejectOversize(s)
      PROVE  SlotHasInput'
    BY <1>11
       DEF RejectOversize, Reading, LeaveLoop, disconnectFromHost, SlotHasInput,
           TypeOK
<1>12. ASSUME NEW s \in Sockets, RejectDevice(s)
      PROVE  SlotHasInput'
    BY <1>12
       DEF RejectDevice, Reading, LeaveLoop, disconnectFromHost, SlotHasInput,
           TypeOK
<1>13. ASSUME NEW s \in Sockets, HandlePacket(s)
      PROVE  SlotHasInput'
    BY <1>13 DEF HandlePacket, Reading, SlotHasInput, TypeOK
<1>14. ASSUME close
      PROVE  SlotHasInput'
    BY <1>14 DEF close, Idle, disconnectFromHost, SlotHasInput, TypeOK
<1>15. ASSUME NEW s \in Sockets, waitForDisconnected(s)
      PROVE  SlotHasInput'
    BY <1>15 DEF waitForDisconnected, channels, SlotHasInput, TypeOK
<1>16. ASSUME NEW s \in Sockets, WaitTimeout(s)
      PROVE  SlotHasInput'
    BY <1>16 DEF WaitTimeout, EndOfWait, channels, SlotHasInput, TypeOK
<1>17. ASSUME CloseServer
      PROVE  SlotHasInput'
    BY <1>17 DEF CloseServer, channels, SlotHasInput, TypeOK
<1>18. ASSUME UNCHANGED vars
      PROVE  SlotHasInput'
    BY <1>18 DEF vars, channels, control, SlotHasInput, TypeOK
<1>19. ASSUME NEW s \in Sockets, PeerClosed(s)
      PROVE  SlotHasInput'
    BY <1>19 DEF PeerClosed, Idle, control, SlotHasInput, TypeOK
<1> QED
    BY <1>1, <1>2, <1>3, <1>4, <1>5, <1>6, <1>7, <1>8, <1>9, <1>10, <1>11, <1>12, <1>13, <1>14, <1>15, <1>16, <1>17, <1>18, <1>19
    DEF Next, Setup, Peers, EventLoop, Shutdown, Terminated

(* Nothing connects before the hub listens.                                  *)
LEMMA SetupStep ==
    ASSUME TypeOK, SetupQuiet, [Next]_vars
    PROVE  SetupQuiet'
<1>1. ASSUME NEW n \in ServerNames, setDeviceName(n)
      PROVE  SetupQuiet'
    BY <1>1 DEF setDeviceName, channels, control, SetupQuiet, TypeOK
<1>2. ASSUME NEW f \in StartFlags, setDebugFlags(f)
      PROVE  SetupQuiet'
    BY <1>2 DEF setDebugFlags, channels, control, SetupQuiet, TypeOK
<1>3. ASSUME listen
      PROVE  SetupQuiet'
    BY <1>3 DEF listen, channels, SetupQuiet, TypeOK
<1>4. ASSUME NEW s \in Sockets, NEW t \in Traffic, PeerSend(s, t)
      PROVE  SetupQuiet'
    BY <1>4 DEF PeerSend, control, SetupQuiet, TypeOK
<1>5. ASSUME NEW s \in Sockets, PeerGone(s)
      PROVE  SetupQuiet'
    BY <1>5
       DEF PeerGone, Served, Idle, Disconnected, EndOfWait, SetupQuiet, TypeOK
<1>6. ASSUME NEW s \in Sockets, WriteOut(s)
      PROVE  SetupQuiet'
    BY <1>6
       DEF WriteOut, Served, Idle, Disconnected, EndOfWait, SetupQuiet, TypeOK
<1>7. ASSUME EndOfInput
      PROVE  SetupQuiet'
    BY <1>7 DEF EndOfInput, channels, SetupQuiet, TypeOK
<1>8. ASSUME NEW s \in Sockets, newConnection(s)
      PROVE  SetupQuiet'
    BY <1>8 DEF newConnection, Idle, control, SetupQuiet, TypeOK
<1>9. ASSUME NEW s \in Sockets, DeferredDelete(s)
      PROVE  SetupQuiet'
    BY <1>9 DEF DeferredDelete, Idle, control, SetupQuiet, TypeOK
<1>10. ASSUME NEW s \in Sockets, socketReadyRead(s)
      PROVE  SetupQuiet'
    BY <1>10 DEF socketReadyRead, Idle, channels, SetupQuiet, TypeOK
<1>11. ASSUME NEW s \in Sockets, RejectOversize(s)
      PROVE  SetupQuiet'
    BY <1>11
       DEF RejectOversize, Reading, LeaveLoop, disconnectFromHost, SetupQuiet,
           TypeOK
<1>12. ASSUME NEW s \in Sockets, RejectDevice(s)
      PROVE  SetupQuiet'
    BY <1>12
       DEF RejectDevice, Reading, LeaveLoop, disconnectFromHost, SetupQuiet,
           TypeOK
<1>13. ASSUME NEW s \in Sockets, HandlePacket(s)
      PROVE  SetupQuiet'
    BY <1>13 DEF HandlePacket, Reading, SetupQuiet, TypeOK
<1>14. ASSUME close
      PROVE  SetupQuiet'
    BY <1>14 DEF close, Idle, disconnectFromHost, SetupQuiet, TypeOK
<1>15. ASSUME NEW s \in Sockets, waitForDisconnected(s)
      PROVE  SetupQuiet'
    BY <1>15 DEF waitForDisconnected, channels, SetupQuiet, TypeOK
<1>16. ASSUME NEW s \in Sockets, WaitTimeout(s)
      PROVE  SetupQuiet'
    BY <1>16 DEF WaitTimeout, EndOfWait, channels, SetupQuiet, TypeOK
<1>17. ASSUME CloseServer
      PROVE  SetupQuiet'
    BY <1>17 DEF CloseServer, channels, SetupQuiet, TypeOK
<1>18. ASSUME UNCHANGED vars
      PROVE  SetupQuiet'
    BY <1>18 DEF vars, channels, control, SetupQuiet, TypeOK
<1>19. ASSUME NEW s \in Sockets, PeerClosed(s)
      PROVE  SetupQuiet'
    BY <1>19 DEF PeerClosed, Idle, control, SetupQuiet, TypeOK
<1> QED
    BY <1>1, <1>2, <1>3, <1>4, <1>5, <1>6, <1>7, <1>8, <1>9, <1>10, <1>11, <1>12, <1>13, <1>14, <1>15, <1>16, <1>17, <1>18, <1>19
    DEF Next, Setup, Peers, EventLoop, Shutdown, Terminated

(* Every step keeps the two maps inverse to each other.                      *)
LEMMA RegistryStep ==
    ASSUME TypeOK, SlotHasInput, RegistryConsistent, TypeOK', [Next]_vars
    PROVE  RegistryConsistent'
<1>1. ASSUME NEW n \in ServerNames, setDeviceName(n)
      PROVE  RegistryConsistent'
    BY <1>1 DEF setDeviceName, registry, channels, RegistryConsistent, TypeOK
<1>2. ASSUME NEW f \in StartFlags, setDebugFlags(f)
      PROVE  RegistryConsistent'
    BY <1>2 DEF setDebugFlags, registry, channels, RegistryConsistent, TypeOK
<1>3. ASSUME listen
      PROVE  RegistryConsistent'
    BY <1>3 DEF listen, registry, channels, RegistryConsistent, TypeOK
<1>4. ASSUME NEW s \in Sockets, NEW t \in Traffic, PeerSend(s, t)
      PROVE  RegistryConsistent'
    BY <1>4 DEF PeerSend, registry, RegistryConsistent, TypeOK
<1>5. ASSUME NEW s \in Sockets, PeerGone(s)
      PROVE  RegistryConsistent'
    BY <1>5, DisconnectedKeepsRegistry DEF PeerGone
<1>6. ASSUME NEW s \in Sockets, WriteOut(s)
      PROVE  RegistryConsistent'
    <2>1. CASE Disconnected(s)
        BY <1>6, <2>1, DisconnectedKeepsRegistry DEF WriteOut
    <2>2. CASE UNCHANGED <<registry, sockState>>
        BY <2>2 DEF registry, RegistryConsistent
    <2> QED BY <1>6, <2>1, <2>2 DEF WriteOut
<1>7. ASSUME EndOfInput
      PROVE  RegistryConsistent'
    BY <1>7 DEF EndOfInput, registry, channels, RegistryConsistent, TypeOK
<1>8. ASSUME NEW s \in Sockets, newConnection(s)
      PROVE  RegistryConsistent'
    <2>1. m_socketMap[s] = Absent
        BY <1>8 DEF newConnection, RegistryConsistent
    <2>2. \A n \in Names : m_deviceMap[n] # s
        BY <2>1, HubAssumption DEF RegistryConsistent, HubAssumption, Fields
    <2>3. NoName \notin Names /\ NoName # Absent
        BY HubAssumption DEF HubAssumption, Fields
    <2> QED BY <1>8, <2>1, <2>2, <2>3
       DEF newConnection, RegistryConsistent, TypeOK
<1>9. ASSUME NEW s \in Sockets, DeferredDelete(s)
      PROVE  RegistryConsistent'
    BY <1>9 DEF DeferredDelete, registry, RegistryConsistent, TypeOK
<1>10. ASSUME NEW s \in Sockets, socketReadyRead(s)
      PROVE  RegistryConsistent'
    BY <1>10 DEF socketReadyRead, registry, channels, RegistryConsistent, TypeOK
<1>11. ASSUME NEW s \in Sockets, RejectOversize(s)
      PROVE  RegistryConsistent'
    <2>1. disconnectFromHost({s}) /\ {s} \in SUBSET Sockets
        BY <1>11 DEF RejectOversize
    <2>2. sockState[s] = "connected"
        BY <1>11, ReadingHead DEF RejectOversize
    <2> QED BY <2>1, <2>2, DisconnectKeepsRegistry
<1>12. ASSUME NEW s \in Sockets, RejectDevice(s)
      PROVE  RegistryConsistent'
    <2>1. disconnectFromHost({s}) /\ {s} \in SUBSET Sockets
        BY <1>12 DEF RejectDevice
    <2>2. sockState[s] = "connected"
        BY <1>12, ReadingHead DEF RejectDevice
    <2> QED BY <2>1, <2>2, DisconnectKeepsRegistry
<1>13. ASSUME NEW s \in Sockets, HandlePacket(s)
      PROVE  RegistryConsistent'
    <2> DEFINE p == Head(rx[s])
    <2>1. Reading(s) /\ registerDeviceName(s, p.src) /\ sockState' = sockState
        BY <1>13 DEF HandlePacket
    <2>2. CASE UNCHANGED registry
        BY <2>1, <2>2 DEF registry, RegistryConsistent
    <2>3. CASE ~UNCHANGED registry
        <3>1. /\ m_socketMap[s] = NoName
              /\ MayRegister(p.src)
              /\ m_socketMap' = [m_socketMap EXCEPT ![s] = p.src]
              /\ m_deviceMap' = [m_deviceMap EXCEPT ![p.src] = s]
            BY <2>1, <2>3 DEF registerDeviceName
        <3>2. p.src \in Names /\ m_deviceMap[p.src] = NoSocket
            BY <2>1, <3>1, ReadingHead DEF MayRegister, SocketOf, Packet, Fields
        <3>3. p.src # Absent /\ NoName \notin Names
            BY <3>2, HubAssumption DEF HubAssumption, Fields
        <3>4. \A d \in Sockets : m_socketMap[d] # p.src
            BY <3>2, HubAssumption DEF RegistryConsistent, HubAssumption
        <3>5. \A n \in Names : m_deviceMap[n] # s
            BY <3>1, <3>3, HubAssumption DEF RegistryConsistent, HubAssumption
        <3>6. sockState[s] = "connected"
            BY <2>1, ReadingHead
        <3> QED BY <2>1, <3>1, <3>2, <3>3, <3>4, <3>5, <3>6
           DEF RegistryConsistent, TypeOK
    <2> QED BY <2>2, <2>3
<1>14. ASSUME close
      PROVE  RegistryConsistent'
    <2> DEFINE S == {s \in Sockets : m_socketMap[s] # Absent}
    <2>1. disconnectFromHost(S) /\ S \in SUBSET Sockets
        BY <1>14 DEF close
    <2>2. \A s \in S : sockState[s] \in {"connected", "closing"}
        BY DEF RegistryConsistent
    <2> QED BY <2>1, <2>2, DisconnectKeepsRegistry
<1>15. ASSUME NEW s \in Sockets, waitForDisconnected(s)
      PROVE  RegistryConsistent'
    BY <1>15
       DEF waitForDisconnected, registry, channels, RegistryConsistent, TypeOK
<1>16. ASSUME NEW s \in Sockets, WaitTimeout(s)
      PROVE  RegistryConsistent'
    BY <1>16 DEF WaitTimeout, registry, channels, RegistryConsistent, TypeOK
<1>17. ASSUME CloseServer
      PROVE  RegistryConsistent'
    BY <1>17 DEF CloseServer, registry, channels, RegistryConsistent, TypeOK
<1>18. ASSUME UNCHANGED vars
      PROVE  RegistryConsistent'
    BY <1>18 DEF vars, registry, channels, RegistryConsistent, TypeOK
<1>19. ASSUME NEW s \in Sockets, PeerClosed(s)
      PROVE  RegistryConsistent'
    <2>1. disconnectFromHost({s}) /\ {s} \in SUBSET Sockets
        BY <1>19 DEF PeerClosed
    <2>2. sockState[s] = "connected"
        BY <1>19 DEF PeerClosed
    <2> QED BY <2>1, <2>2, DisconnectKeepsRegistry
<1> QED
    BY <1>1, <1>2, <1>3, <1>4, <1>5, <1>6, <1>7, <1>8, <1>9, <1>10, <1>11, <1>12, <1>13, <1>14, <1>15, <1>16, <1>17, <1>18, <1>19
    DEF Next, Setup, Peers, EventLoop, Shutdown, Terminated

(* No step registers the name of the hub.                                    *)
LEMMA ReservedStep ==
    ASSUME TypeOK, RegistryConsistent, SetupQuiet, SlotHasInput, ServerNameReserved, [Next]_vars
    PROVE  ServerNameReserved'
<1>1. ASSUME NEW n \in ServerNames, setDeviceName(n)
      PROVE  ServerNameReserved'
    <2>1. n \in Names
        BY HubAssumption DEF HubAssumption
    <2>2. m_deviceMap[n] = NoSocket
        BY <1>1, <2>1, OwnerIsLive DEF setDeviceName, SetupQuiet
    <2> QED BY <1>1, <2>2 DEF setDeviceName, registry, ServerNameReserved
<1>2. ASSUME NEW f \in StartFlags, setDebugFlags(f)
      PROVE  ServerNameReserved'
    BY <1>2 DEF setDebugFlags, registry, ServerNameReserved, TypeOK
<1>3. ASSUME listen
      PROVE  ServerNameReserved'
    BY <1>3 DEF listen, registry, settings, ServerNameReserved, TypeOK
<1>4. ASSUME NEW s \in Sockets, NEW t \in Traffic, PeerSend(s, t)
      PROVE  ServerNameReserved'
    BY <1>4 DEF PeerSend, registry, settings, ServerNameReserved, TypeOK
<1>5. ASSUME NEW s \in Sockets, PeerGone(s)
      PROVE  ServerNameReserved'
    BY <1>5
       DEF PeerGone, Disconnected, socketDisconnected, settings,
           ServerNameReserved, TypeOK
<1>6. ASSUME NEW s \in Sockets, WriteOut(s)
      PROVE  ServerNameReserved'
    BY <1>6
       DEF WriteOut, Disconnected, socketDisconnected, registry, settings,
           ServerNameReserved, TypeOK
<1>7. ASSUME EndOfInput
      PROVE  ServerNameReserved'
    BY <1>7 DEF EndOfInput, registry, settings, ServerNameReserved, TypeOK
<1>8. ASSUME NEW s \in Sockets, newConnection(s)
      PROVE  ServerNameReserved'
    BY <1>8 DEF newConnection, settings, ServerNameReserved, TypeOK
<1>9. ASSUME NEW s \in Sockets, DeferredDelete(s)
      PROVE  ServerNameReserved'
    BY <1>9 DEF DeferredDelete, registry, settings, ServerNameReserved, TypeOK
<1>10. ASSUME NEW s \in Sockets, socketReadyRead(s)
      PROVE  ServerNameReserved'
    BY <1>10 DEF socketReadyRead, registry, settings, ServerNameReserved, TypeOK
<1>11. ASSUME NEW s \in Sockets, RejectOversize(s)
      PROVE  ServerNameReserved'
    BY <1>11
       DEF RejectOversize, disconnectFromHost, socketDisconnected, settings,
           ServerNameReserved, TypeOK
<1>12. ASSUME NEW s \in Sockets, RejectDevice(s)
      PROVE  ServerNameReserved'
    BY <1>12
       DEF RejectDevice, disconnectFromHost, socketDisconnected, settings,
           ServerNameReserved, TypeOK
<1>13. ASSUME NEW s \in Sockets, HandlePacket(s)
      PROVE  ServerNameReserved'
    <2>1. registerDeviceName(s, Head(rx[s]).src) /\ UNCHANGED m_serverDeviceName
        BY <1>13 DEF HandlePacket
    <2> QED BY <2>1
       DEF registerDeviceName, MayRegister, registry, ServerNameReserved, TypeOK
<1>14. ASSUME close
      PROVE  ServerNameReserved'
    BY <1>14
       DEF close, disconnectFromHost, socketDisconnected, settings,
           ServerNameReserved, TypeOK
<1>15. ASSUME NEW s \in Sockets, waitForDisconnected(s)
      PROVE  ServerNameReserved'
    BY <1>15
       DEF waitForDisconnected, registry, settings, ServerNameReserved, TypeOK
<1>16. ASSUME NEW s \in Sockets, WaitTimeout(s)
      PROVE  ServerNameReserved'
    BY <1>16 DEF WaitTimeout, registry, settings, ServerNameReserved, TypeOK
<1>17. ASSUME CloseServer
      PROVE  ServerNameReserved'
    BY <1>17 DEF CloseServer, registry, settings, ServerNameReserved, TypeOK
<1>18. ASSUME UNCHANGED vars
      PROVE  ServerNameReserved'
    BY <1>18 DEF vars, registry, settings, ServerNameReserved, TypeOK
<1>19. ASSUME NEW s \in Sockets, PeerClosed(s)
      PROVE  ServerNameReserved'
    BY <1>19
       DEF PeerClosed, disconnectFromHost, socketDisconnected, settings,
           ServerNameReserved, TypeOK
<1> QED
    BY <1>1, <1>2, <1>3, <1>4, <1>5, <1>6, <1>7, <1>8, <1>9, <1>10, <1>11, <1>12, <1>13, <1>14, <1>15, <1>16, <1>17, <1>18, <1>19
    DEF Next, Setup, Peers, EventLoop, Shutdown, Terminated

-----------------------------------------------------------------------------
(* What is queued for a device.                                              *)

(* Every step leaves in the write buffer of a connection only packets        *)
(* addressed to the name it is registered under.                             *)
LEMMA MisdeliveryStep ==
    ASSUME TypeOK, RegistryConsistent, SlotHasInput, QuietChannels, NoMisdelivery,
           TypeOK', RegistryConsistent', [Next]_vars
    PROVE  NoMisdelivery'
<1>1. ASSUME NEW s \in Sockets, m_socketMap[s] \notin Names
      PROVE  tx[s] = <<>>
    <2>1. ASSUME tx[s] # <<>>
          PROVE  FALSE
        <3>1. 1 \in DOMAIN tx[s] /\ tx[s][1] \in Packet
            BY <2>1 DEF TypeOK
        <3>2. m_socketMap[s] \in Fields
            BY <3>1 DEF NoMisdelivery, Packet
        <3>3. m_socketMap[s] \in {NoName, Absent}
            BY <1>1 DEF TypeOK
        <3> QED BY <3>2, <3>3, HubAssumption DEF HubAssumption
    <2> QED BY <2>1
<1>2. ASSUME NEW s \in Sockets, tx'[s] = tx[s] \/ tx'[s] = <<>>,
             m_socketMap'[s] = m_socketMap[s] \/ tx'[s] = <<>>
      PROVE  \A i \in DOMAIN tx'[s] : tx'[s][i].dst = m_socketMap'[s]
    BY <1>2 DEF NoMisdelivery
<1>3. ASSUME NEW S \in SUBSET Sockets, disconnectFromHost(S)
      PROVE  NoMisdelivery'
    <2>1. \A s \in Sockets : tx'[s] = tx[s]
        BY <1>3 DEF disconnectFromHost
    <2>2. \A s \in Sockets : m_socketMap'[s] = m_socketMap[s] \/ tx'[s] = <<>>
        BY <1>3 DEF disconnectFromHost, socketDisconnected
    <2> QED BY <1>2, <2>1, <2>2 DEF NoMisdelivery
<1>4. ASSUME NEW s \in Sockets, Disconnected(s)
      PROVE  NoMisdelivery'
    <2>1. \A d \in Sockets : IF d = s THEN tx'[d] = <<>>
                             ELSE tx'[d] = tx[d] /\ m_socketMap'[d] = m_socketMap[d]
        BY <1>4 DEF Disconnected, socketDisconnected, TypeOK
    <2> QED BY <1>2, <2>1 DEF NoMisdelivery
<1>5. ASSUME NEW s \in Sockets, WriteOut(s), ~Disconnected(s)
      PROVE  NoMisdelivery'
    <2>1. /\ tx' = [tx EXCEPT ![s] = Tail(@)]
          /\ m_socketMap' = m_socketMap
          /\ tx[s] # <<>>
        BY <1>5 DEF WriteOut, registry
    <2>2. tx[s] \in Seq(Packet)
        BY DEF TypeOK
    <2>3. /\ Len(Tail(tx[s])) = Len(tx[s]) - 1
          /\ \A i \in 1 .. Len(Tail(tx[s])) : Tail(tx[s])[i] = tx[s][i + 1]
          /\ Tail(tx[s]) \in Seq(Packet)
        BY <2>1, <2>2, HeadTailProperties
    <2>4. \A i \in 1 .. Len(tx'[s]) : tx'[s][i].dst = m_socketMap'[s]
        BY <2>1, <2>2, <2>3 DEF NoMisdelivery, TypeOK
    <2>5. \A d \in Sockets \ {s} : tx'[d] = tx[d]
        BY <2>1 DEF TypeOK
    <2>6. DOMAIN tx'[s] = 1 .. Len(tx'[s])
        BY DEF TypeOK
    <2> QED BY <2>1, <2>4, <2>5, <2>6 DEF NoMisdelivery
<1>6. ASSUME NEW s \in Sockets, HandlePacket(s)
      PROVE  NoMisdelivery'
    <2> DEFINE p == Head(rx[s])
    <2>1. /\ registerDeviceName(s, p.src)
          /\ processPacket(p, m_deviceMap')
          /\ Reading(s)
        BY <1>6 DEF HandlePacket
    <2>2. p \in Packet
        BY <2>1, ReadingHead
    <2>3. \A d \in Sockets : m_socketMap'[d] = m_socketMap[d] \/ tx[d] = <<>>
        <3>1. m_socketMap[s] = NoName => tx[s] = <<>>
            BY <1>1, HubAssumption DEF HubAssumption, Fields
        <3> QED BY <2>1, <3>1 DEF registerDeviceName, registry, TypeOK
    <2>4. \A d \in Sockets : \A i \in 1 .. Len(tx[d]) : tx[d][i].dst = m_socketMap'[d]
        BY <2>3 DEF NoMisdelivery, TypeOK
    <2>5. CASE tx' = tx
        BY <2>4, <2>5 DEF NoMisdelivery, TypeOK
    <2>6. ASSUME NEW n \in Names, NEW ps \in Seq(Packet),
                 m_deviceMap'[n] \in Sockets,
                 tx' = [tx EXCEPT ![m_deviceMap'[n]] = @ \o ps],
                 \A i \in 1 .. Len(ps) : ps[i].dst = n
          PROVE  NoMisdelivery'
        <3> DEFINE d == m_deviceMap'[n]
        <3>1. m_socketMap'[d] = n
            BY <2>6, HubAssumption DEF RegistryConsistent, HubAssumption
        <3>2. tx[d] \in Seq(Packet) /\ tx'[d] = tx[d] \o ps
            BY <2>6 DEF TypeOK
        <3>3. /\ Len(tx[d] \o ps) = Len(tx[d]) + Len(ps)
              /\ \A i \in 1 .. Len(tx[d]) + Len(ps) :
                     (tx[d] \o ps)[i] = IF i <= Len(tx[d]) THEN tx[d][i]
                                        ELSE ps[i - Len(tx[d])]
            BY <3>2, ConcatProperties
        <3>0. d \in Sockets /\ Len(tx[d]) \in Nat /\ Len(ps) \in Nat
            BY <2>6, <3>2, LenProperties
        <3>6. \A c \in Sockets \ {d} : tx'[c] = tx[c]
            BY <2>6 DEF TypeOK
        <3> HIDE DEF d
        <3>4. ASSUME NEW i \in 1 .. Len(tx[d]) + Len(ps)
              PROVE  (tx[d] \o ps)[i].dst = n
            <4>1. CASE i <= Len(tx[d])
                <5>1. i \in 1 .. Len(tx[d]) /\ (tx[d] \o ps)[i] = tx[d][i]
                    BY <3>0, <3>3, <4>1
                <5> QED BY <2>4, <3>0, <3>1, <5>1
            <4>2. CASE ~(i <= Len(tx[d]))
                <5>1. i - Len(tx[d]) \in 1 .. Len(ps) /\ (tx[d] \o ps)[i] = ps[i - Len(tx[d])]
                    BY <3>0, <3>3, <4>2
                <5> QED BY <2>6, <5>1
            <4> QED BY <4>1, <4>2
        <3>5. \A i \in DOMAIN tx'[d] : tx'[d][i].dst = m_socketMap'[d]
            <4>1. tx'[d] \in Seq(Packet)
                BY <3>0 DEF TypeOK
            <4>2. DOMAIN tx'[d] = 1 .. Len(tx[d]) + Len(ps)
                BY <3>2, <3>3, <4>1, LenProperties
            <4> QED BY <3>1, <3>2, <3>4, <4>2
        <3>7. ASSUME NEW c \in Sockets \ {d}
              PROVE  \A i \in DOMAIN tx'[c] : tx'[c][i].dst = m_socketMap'[c]
            <4>1. tx'[c] = tx[c] /\ DOMAIN tx[c] = 1 .. Len(tx[c])
                BY <3>6 DEF TypeOK
            <4> QED BY <2>4, <4>1
        <3> QED BY <3>5, <3>7 DEF NoMisdelivery
    <2>7. m_deviceMap' \in [Names -> Sockets \cup {NoSocket}]
        BY DEF TypeOK
    <2> QED BY <2>1, <2>2, <2>5, <2>6, <2>7, ProcessPacketEffect
<1>7. ASSUME NEW s \in Sockets, newConnection(s)
      PROVE  NoMisdelivery'
    <2>1. tx' = tx /\ m_socketMap' = [m_socketMap EXCEPT ![s] = NoName] /\ tx[s] = <<>>
        BY <1>7 DEF newConnection, QuietChannels
    <2> QED BY <1>2, <2>1 DEF NoMisdelivery, TypeOK
<1>8. ASSUME UNCHANGED <<m_socketMap, tx>>
      PROVE  NoMisdelivery'
    BY <1>8 DEF NoMisdelivery
<1> QED
    <2>1. ASSUME Setup PROVE UNCHANGED <<m_socketMap, tx>>
        BY <2>1 DEF Setup, setDeviceName, setDebugFlags, listen, registry, channels
    <2>2. ASSUME NEW s \in Sockets, \E t \in Traffic : PeerSend(s, t)
          PROVE  UNCHANGED <<m_socketMap, tx>>
        BY <2>2 DEF PeerSend, registry
    <2>3. ASSUME NEW s \in Sockets, \/ DeferredDelete(s)
                                    \/ socketReadyRead(s)
                                    \/ waitForDisconnected(s)
                                    \/ WaitTimeout(s)
          PROVE  UNCHANGED <<m_socketMap, tx>>
        BY <2>3 DEF DeferredDelete, socketReadyRead, waitForDisconnected, WaitTimeout,
                    registry, channels
    <2>4. ASSUME EndOfInput \/ CloseServer \/ UNCHANGED vars
          PROVE  UNCHANGED <<m_socketMap, tx>>
        BY <2>4 DEF EndOfInput, CloseServer, vars, registry, channels
    <2>5. ASSUME NEW s \in Sockets, \/ RejectOversize(s)
                                    \/ RejectDevice(s)
                                    \/ PeerClosed(s)
          PROVE  NoMisdelivery'
        BY <1>3, <2>5 DEF RejectOversize, RejectDevice, PeerClosed
    <2>6. ASSUME close PROVE NoMisdelivery'
        BY <1>3, <2>6 DEF close
    <2>7. ASSUME NEW s \in Sockets, PeerGone(s) PROVE NoMisdelivery'
        BY <1>4, <2>7 DEF PeerGone
    <2>8. ASSUME NEW s \in Sockets, WriteOut(s) PROVE NoMisdelivery'
        BY <1>4, <1>5, <2>8
    <2> QED BY <1>6, <1>7, <1>8, <2>1, <2>2, <2>3, <2>4, <2>5, <2>6, <2>7, <2>8
            DEF Next, Peers, EventLoop, Shutdown, Terminated

-----------------------------------------------------------------------------
(* The inductive invariant and what follows from it.                         *)

LEMMA InitInvariant == Init => IInv
BY HubAssumption
   DEF Init, IInv, TypeOK, RegistryConsistent, ServerNameReserved, NoMisdelivery,
       QuietChannels, SlotHasInput, SetupQuiet, HubAssumption, Fields,
       DebugFlags, NoDebug, FullDebug

LEMMA NextInvariant == IInv /\ [Next]_vars => IInv'
<1> SUFFICES ASSUME IInv, [Next]_vars PROVE IInv'
    OBVIOUS
<1>1. TypeOK'
    BY TypeStep DEF IInv
<1>2. RegistryConsistent'
    BY <1>1, RegistryStep DEF IInv
<1>3. ServerNameReserved'
    BY ReservedStep DEF IInv
<1>4. NoMisdelivery'
    BY <1>1, <1>2, MisdeliveryStep DEF IInv
<1>5. QuietChannels'
    BY <1>1, QuietStep DEF IInv
<1>6. SlotHasInput' /\ SetupQuiet'
    BY SlotStep, SetupStep DEF IInv
<1> QED BY <1>1, <1>2, <1>3, <1>4, <1>5, <1>6 DEF IInv

(* The strengthened invariant holds in every reachable state of the hub.     *)
THEOREM Invariance == Spec => []IInv
BY InitInvariant, NextInvariant, PTL DEF Spec

(* The variables of the hub keep their types.                                *)
THEOREM TypeCorrectness == Spec => []TypeOK
BY Invariance, PTL DEF IInv

(* m_socketMap and m_deviceMap are always inverse to each other and name     *)
(* only sockets that are still open: the assertions in dcphub.cpp hold.      *)
THEOREM RegistryIsConsistent == Spec => []RegistryConsistent
BY Invariance, PTL DEF IInv

(* No device is ever registered under the name of the hub.                   *)
THEOREM ServerNameIsReserved == Spec => []ServerNameReserved
BY Invariance, PTL DEF IInv

(* What is queued for a device is always addressed to the name it holds.     *)
THEOREM NothingIsMisdelivered == Spec => []NoMisdelivery
BY Invariance, PTL DEF IInv

(* A name changes hands only through the end of its connection.              *)
LEMMA NameKeptStep ==
    ASSUME IInv, [Next]_vars, NEW n \in Names, m_deviceMap[n] # NoSocket
    PROVE  \/ m_deviceMap'[n] = m_deviceMap[n]
           \/ m_deviceMap'[n] = NoSocket /\ sockState'[m_deviceMap[n]] = "dead"
<1> DEFINE o == m_deviceMap[n]
           Kept == m_deviceMap'[n] = o \/ (m_deviceMap'[n] = NoSocket /\ sockState'[o] = "dead")
<1>1. TypeOK /\ RegistryConsistent /\ SlotHasInput
    BY DEF IInv
<1>2. o \in Sockets /\ m_socketMap[o] = n
    BY <1>1, OwnerIsLive
<1>3. ASSUME NEW gone \in SUBSET Sockets, socketDisconnected(gone),
             \A s \in gone : sockState'[s] = "dead"
      PROVE  Kept
    <2>1. \A s \in gone : m_socketMap[s] = n => s = o
        BY <1>1 DEF RegistryConsistent
    <2> QED BY <1>3, <2>1 DEF socketDisconnected
<1>4. ASSUME NEW S \in SUBSET Sockets, disconnectFromHost(S)
      PROVE  Kept
    <2> DEFINE gone == {s \in S : tx[s] = <<>>}
    <2>1. gone \in SUBSET Sockets /\ socketDisconnected(gone)
        BY <1>4 DEF disconnectFromHost
    <2>2. \A s \in gone : sockState'[s] = "dead"
        BY <1>4 DEF disconnectFromHost
    <2> HIDE DEF gone, Kept
    <2> QED BY <1>3, <2>1, <2>2
<1>5. ASSUME NEW s \in Sockets, Disconnected(s)
      PROVE  Kept
    <2>1. socketDisconnected({s}) /\ \A t \in {s} : sockState'[t] = "dead"
        BY <1>1, <1>5 DEF Disconnected, TypeOK
    <2> HIDE DEF Kept
    <2> QED BY <1>3, <2>1
<1>6. ASSUME NEW s \in Sockets, HandlePacket(s)
      PROVE  Kept
    <2>1. registerDeviceName(s, Head(rx[s]).src)
        BY <1>6 DEF HandlePacket
    <2> QED BY <1>1, <2>1 DEF registerDeviceName, MayRegister, SocketOf, registry, TypeOK
<1>7. ASSUME UNCHANGED m_deviceMap
      PROVE  Kept
    BY <1>7
<1> HIDE DEF Kept
<1>8. Kept
    <2>1. ASSUME Setup PROVE Kept
        BY <1>7, <2>1 DEF Setup, setDeviceName, setDebugFlags, listen, registry
    <2>2. ASSUME NEW s \in Sockets, \E t \in Traffic : PeerSend(s, t)
          PROVE  Kept
        BY <1>7, <2>2 DEF PeerSend, registry
    <2>3. ASSUME NEW s \in Sockets, \/ newConnection(s)
                                    \/ DeferredDelete(s)
                                    \/ socketReadyRead(s)
                                    \/ waitForDisconnected(s)
                                    \/ WaitTimeout(s)
          PROVE  Kept
        BY <1>7, <2>3 DEF newConnection, DeferredDelete, socketReadyRead,
                          waitForDisconnected, WaitTimeout, registry
    <2>4. ASSUME EndOfInput \/ CloseServer \/ UNCHANGED vars
          PROVE  Kept
        BY <1>7, <2>4 DEF EndOfInput, CloseServer, vars, registry
    <2>5. ASSUME NEW s \in Sockets, \/ RejectOversize(s)
                                    \/ RejectDevice(s)
                                    \/ PeerClosed(s)
          PROVE  Kept
        BY <1>4, <2>5 DEF RejectOversize, RejectDevice, PeerClosed
    <2>6. ASSUME close PROVE Kept
        BY <1>4, <2>6 DEF close
    <2>7. ASSUME NEW s \in Sockets, PeerGone(s) PROVE Kept
        BY <1>5, <2>7 DEF PeerGone
    <2>8. ASSUME NEW s \in Sockets, WriteOut(s) PROVE Kept
        BY <1>5, <1>7, <2>8 DEF WriteOut, registry
    <2> QED BY <1>6, <2>1, <2>2, <2>3, <2>4, <2>5, <2>6, <2>7, <2>8
            DEF Next, Peers, EventLoop, Shutdown, Terminated
<1> QED BY <1>8 DEF Kept

(* No device loses its name, or finds it taken over, while it is connected.  *)
THEOREM NamesAreKept == Spec => NameKept
<1>1. IInv /\ [Next]_vars =>
          [\A n \in Names :
              LET s == m_deviceMap[n]
              IN  s # NoSocket =>
                    \/ m_deviceMap'[n] = s
                    \/ m_deviceMap'[n] = NoSocket /\ sockState'[s] = "dead"]_vars
    BY NameKeptStep
<1> QED BY <1>1, Invariance, PTL DEF Spec, NameKept
=============================================================================
