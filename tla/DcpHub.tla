------------------------------- MODULE DcpHub -------------------------------
(***************************************************************************)
(* The DCP hub: devices connect, the hub registers each connection under   *)
(* the source name of its first packet, forwards packets to the device     *)
(* their destination names and answers commands addressed to itself.       *)
(*                                                                         *)
(* The hub is one thread around an event loop. A slot that loops over the  *)
(* packets of a socket (socketReadyRead) is one step per packet: `active`  *)
(* is the socket whose slot runs, and no other slot starts meanwhile. The  *)
(* same variable is the socket close() waits for during the shutdown.      *)
(***************************************************************************)
EXTENDS HubCommands

CONSTANTS
    Sockets,            \* the QTcpSocket objects the hub can have at a time
    NoSocket,           \* the null pointer
    NullName,           \* a device name field of null bytes
    NoName,             \* the empty device name of a connection not registered
    Absent,             \* stands for a socket that is no key of m_socketMap
    DefaultServerName,  \* the name of the hub unless main() sets another
    ServerNames,        \* the names main() may set
    StartFlags,         \* the debug flags main() may set
    Traffic,            \* the packets peers send: [src, dst, body] records
    MaxSent             \* bound: packets all peers send in one behaviour

Fields == Names \cup {NullName}

ASSUME HubAssumption ==
    /\ NoSocket \notin Sockets
    /\ NullName \notin Names
    /\ NoName \notin Fields
    /\ Absent \notin Fields
    /\ NoName # Absent
    /\ DefaultServerName \in Names
    /\ ServerNames \subseteq Names
    /\ StartFlags \subseteq DebugFlags
    /\ Traffic \subseteq [src : Fields, dst : Fields, body : Body]
    /\ MaxSent \in Nat

VARIABLES
    m_socketMap,        \* socket -> name it registered, NoName or Absent
    m_deviceMap,        \* name -> socket registered under it or NoSocket
    m_serverDeviceName, \* the name the hub itself answers to
    m_debugFlags,
    sockState,          \* "free", "connected", "closing" or "dead" (deleteLater)
    rx,                 \* socket -> packets sent by its peer and not handled
    tx,                 \* socket -> packets written and not yet on the wire
    active,             \* socket whose slot runs, or that close() waits for
    toRead,             \* packets of `active` the running slot will still find
    toWait,             \* sockets close() still has to wait for
    phase,              \* "setup", "running", "closing" or "closed"
    sent                \* packets sent so far: the identity of the next one

registry == <<m_socketMap, m_deviceMap>>
settings == <<m_serverDeviceName, m_debugFlags>>
channels == <<sockState, rx, tx>>
control == <<active, toRead, toWait, phase>>
vars == <<registry, settings, channels, control, sent>>

\* `from` is the socket a packet came in on, NoSocket for the hub's answers.
Packet == [from : Sockets \cup {NoSocket}, id : Nat,
           src : Fields, dst : Fields, body : Body]

TypeOK ==
    /\ m_socketMap \in [Sockets -> Names \cup {NoName, Absent}]
    /\ m_deviceMap \in [Names -> Sockets \cup {NoSocket}]
    /\ m_serverDeviceName \in Names
    /\ m_debugFlags \in DebugFlags
    /\ sockState \in [Sockets -> {"free", "connected", "closing", "dead"}]
    /\ rx \in [Sockets -> Seq(Packet)]
    /\ tx \in [Sockets -> Seq(Packet)]
    /\ active \in Sockets \cup {NoSocket}
    /\ toRead \in Nat
    /\ toWait \subseteq Sockets
    /\ phase \in {"setup", "running", "closing", "closed"}
    /\ sent \in Nat

Init ==
    /\ m_socketMap = [s \in Sockets |-> Absent]
    /\ m_deviceMap = [n \in Names |-> NoSocket]
    /\ m_serverDeviceName = DefaultServerName
    /\ m_debugFlags = NoDebug
    /\ sockState = [s \in Sockets |-> "free"]
    /\ rx = [s \in Sockets |-> <<>>]
    /\ tx = [s \in Sockets |-> <<>>]
    /\ active = NoSocket
    /\ toRead = 0
    /\ toWait = {}
    /\ phase = "setup"
    /\ sent = 0

Idle == phase = "running" /\ active = NoSocket
Registered(map) == {n \in Names : map[n] # NoSocket}
SocketOf(map, name) == IF name \in Names THEN map[name] ELSE NoSocket

-----------------------------------------------------------------------------
(* main(): the configuration before the event loop.                          *)

setDeviceName(name) ==
    /\ phase = "setup"
    /\ m_serverDeviceName' = name
    /\ UNCHANGED <<registry, m_debugFlags, channels, control, sent>>

setDebugFlags(flags) ==
    /\ phase = "setup"
    /\ m_debugFlags' = flags
    /\ UNCHANGED <<registry, m_serverDeviceName, channels, control, sent>>

\* The program ends at once when the address cannot be bound.
listen ==
    /\ phase = "setup"
    /\ phase' \in {"running", "closed"}
    /\ UNCHANGED <<registry, settings, channels, active, toRead, toWait, sent>>

-----------------------------------------------------------------------------
(* The end of a connection.                                                  *)

\* Faulty variant: the name of the device is left in m_deviceMap.
socketDisconnectedLeavingName(gone) ==
    /\ m_deviceMap' = m_deviceMap
    /\ m_socketMap' = [s \in Sockets |->
           IF s \in gone THEN Absent ELSE m_socketMap[s]]

\* The slot of disconnected(), for every socket of `gone`.
socketDisconnected(gone) ==
    /\ m_deviceMap' = [n \in Names |->
           IF \E s \in gone : m_socketMap[s] = n THEN NoSocket
           ELSE m_deviceMap[n]]
    /\ m_socketMap' = [s \in Sockets |->
           IF s \in gone THEN Absent ELSE m_socketMap[s]]

(* QAbstractSocket::disconnectFromHost() for every socket of S: one with     *)
(* nothing to write is disconnected on the spot, its slot runs inside the    *)
(* call; another is closing, reads no more and keeps its registration until  *)
(* its data is written.                                                      *)
disconnectFromHost(S) ==
    LET gone == {s \in S : tx[s] = <<>>}
    IN  /\ socketDisconnected(gone)
        /\ sockState' = [s \in Sockets |->
               CASE s \in gone -> "dead"
                 [] s \in S \ gone -> "closing"
                 [] OTHER -> sockState[s]]
        /\ rx' = [s \in Sockets |-> IF s \in S THEN <<>> ELSE rx[s]]
        /\ tx' = tx

-----------------------------------------------------------------------------
(* Peers.                                                                    *)

PeerSend(s, t) ==
    /\ phase = "running"
    /\ sockState[s] = "connected"
    /\ sent < MaxSent
    /\ sent' = sent + 1
    /\ rx' = [rx EXCEPT ![s] = Append(@,
                 [from |-> s, id |-> sent + 1,
                  src |-> t.src, dst |-> t.dst, body |-> t.body])]
    /\ UNCHANGED <<registry, settings, sockState, tx, control>>

\* The event loop, or waitForDisconnected() on s, looks at the socket.
Served(s) == Idle \/ (phase = "closing" /\ active = s)

EndOfWait(s) ==
    /\ active' = NoSocket
    /\ toWait' = toWait \ {s}

Disconnected(s) ==
    /\ socketDisconnected({s})
    /\ sockState' = [sockState EXCEPT ![s] = "dead"]
    /\ rx' = [rx EXCEPT ![s] = <<>>]
    /\ tx' = [tx EXCEPT ![s] = <<>>]
    /\ EndOfWait(s)

\* The connection breaks: what was not read or written is lost.
PeerGone(s) ==
    /\ sockState[s] \in {"connected", "closing"}
    /\ Served(s)
    /\ Disconnected(s)
    /\ UNCHANGED <<settings, toRead, phase, sent>>

(* The peer closed its side and everything it sent has been read: QTcpSocket *)
(* closes too, once what waits to be written is written.                     *)
PeerClosed(s) ==
    /\ Idle
    /\ sockState[s] = "connected"
    /\ rx[s] = <<>>
    /\ disconnectFromHost({s})
    /\ UNCHANGED <<settings, control, sent>>

\* A packet leaves the write buffer; the last one ends a closing connection.
WriteOut(s) ==
    /\ tx[s] # <<>>
    /\ Served(s)
    /\ IF sockState[s] = "closing" /\ Len(tx[s]) = 1
       THEN Disconnected(s)
       ELSE /\ tx' = [tx EXCEPT ![s] = Tail(@)]
            /\ UNCHANGED <<registry, sockState, rx, active, toWait>>
    /\ UNCHANGED <<settings, toRead, phase, sent>>

-----------------------------------------------------------------------------
(* Slots of the event loop.                                                  *)

newConnection(s) ==
    /\ Idle
    /\ sockState[s] = "free"
    /\ sockState' = [sockState EXCEPT ![s] = "connected"]
    /\ m_socketMap' = [m_socketMap EXCEPT ![s] = NoName]
    /\ UNCHANGED <<m_deviceMap, settings, rx, tx, control, sent>>

\* deleteLater(): the object is freed when control returns to the event loop.
DeferredDelete(s) ==
    /\ Idle
    /\ sockState[s] = "dead"
    /\ sockState' = [sockState EXCEPT ![s] = "free"]
    /\ UNCHANGED <<registry, settings, rx, tx, control, sent>>

\* Faulty variant: only devices that are registered are read.
socketReadyReadRegistered(s) ==
    /\ Idle
    /\ sockState[s] = "connected"
    /\ m_socketMap[s] \in Names
    /\ rx[s] # <<>>
    /\ active' = s
    /\ toRead' \in 1 .. Len(rx[s])
    /\ UNCHANGED <<registry, settings, channels, toWait, phase, sent>>

\* The slot of readyRead() starts: some of the packets have arrived in full.
socketReadyRead(s) ==
    /\ Idle
    /\ sockState[s] = "connected"
    /\ m_socketMap[s] # Absent
    /\ rx[s] # <<>>
    /\ active' = s
    /\ toRead' \in 1 .. Len(rx[s])
    /\ UNCHANGED <<registry, settings, channels, toWait, phase, sent>>

\* readNextPacket() finds no further packet and the loop ends.
EndOfInput ==
    /\ phase = "running"
    /\ active # NoSocket
    /\ toRead = 0
    /\ active' = NoSocket
    /\ UNCHANGED <<registry, settings, channels, toRead, toWait, phase, sent>>

\* The loop of s has another packet: its head, the next one in the buffer.
Reading(s) ==
    /\ phase = "running"
    /\ active = s
    /\ toRead > 0

LeaveLoop ==
    /\ active' = NoSocket
    /\ toRead' = 0

\* Faulty variant: the packet is refused, the connection is not closed.
RejectOversizeOnly(s) ==
    /\ Reading(s)
    /\ Head(rx[s]).body.kind = "oversize"
    /\ LeaveLoop
    /\ UNCHANGED <<registry, settings, channels, toWait, phase, sent>>

\* readNextPacket(): a packet above MaxPacketSize ends the connection.
RejectOversize(s) ==
    /\ Reading(s)
    /\ Head(rx[s]).body.kind = "oversize"
    /\ disconnectFromHost({s})
    /\ LeaveLoop
    /\ UNCHANGED <<settings, toWait, phase, sent>>

\* Faulty variants: a check of registerDeviceName() is missing.
MayRegisterNull(name) ==
    name # m_serverDeviceName /\ SocketOf(m_deviceMap, name) = NoSocket
MayRegisterServer(name) ==
    name # NullName /\ SocketOf(m_deviceMap, name) = NoSocket
MayRegisterTaken(name) ==
    name # NullName /\ name # m_serverDeviceName

\* registerDeviceName(): the name is real, not the hub's, and not taken.
MayRegister(name) ==
    /\ name # NullName
    /\ name # m_serverDeviceName
    /\ SocketOf(m_deviceMap, name) = NoSocket

RejectDevice(s) ==
    /\ Reading(s)
    /\ Head(rx[s]).body.kind # "oversize"
    /\ m_socketMap[s] = NoName
    /\ ~MayRegister(Head(rx[s]).src)
    /\ disconnectFromHost({s})
    /\ LeaveLoop
    /\ UNCHANGED <<settings, toWait, phase, sent>>

\* Faulty variant: every packet registers its source anew.
registerDeviceNameAlways(s, name) ==
    IF MayRegister(name)
    THEN /\ m_socketMap' = [m_socketMap EXCEPT ![s] = name]
         /\ m_deviceMap' = [n \in Names |->
                CASE n = name -> s
                  [] n # name /\ m_deviceMap[n] = s -> NoSocket
                  [] OTHER -> m_deviceMap[n]]
    ELSE UNCHANGED registry

\* The first packet of a connection registers its source, whatever it says.
registerDeviceName(s, name) ==
    IF m_socketMap[s] # NoName THEN UNCHANGED registry
    ELSE /\ MayRegister(name)
         /\ m_socketMap' = [m_socketMap EXCEPT ![s] = name]
         /\ m_deviceMap' = [m_deviceMap EXCEPT ![name] = s]

\* Faulty variant: the answers carry a number of their own.
AnswerPacketsRenumbered(p, bodies) ==
    [i \in DOMAIN bodies |->
        [from |-> NoSocket, id |-> p.id + i,
         src |-> p.dst, dst |-> p.src, body |-> bodies[i]]]

\* sendMessage() on the messages made from the command p.
AnswerPackets(p, bodies) ==
    [i \in DOMAIN bodies |->
        [from |-> NoSocket, id |-> p.id,
         src |-> p.dst, dst |-> p.src, body |-> bodies[i]]]

(* The answers go to the device the command names as its source, which need  *)
(* not be the connection it came in on.                                      *)
handleCommand(p, map) ==
    \E bodies \in Answers(p.body, Registered(map), m_debugFlags) :
        /\ tx' = [tx EXCEPT ![map[p.src]] = @ \o AnswerPackets(p, bodies)]
        /\ m_debugFlags' = FlagsAfter(p.body, m_debugFlags)

\* Faulty variant: a forwarded packet overtakes those already queued.
processPacketAhead(p, map) ==
    /\ SocketOf(map, p.dst) # NoSocket
    /\ tx' = [tx EXCEPT ![map[p.dst]] = <<p>> \o @]
    /\ UNCHANGED m_debugFlags

\* Faulty variant: the device map as it was before this packet registered.
processPacketStale(p, map) ==
    \/ /\ SocketOf(map, p.dst) # NoSocket
       /\ tx' = [tx EXCEPT ![map[p.dst]] = Append(@, p)]
       /\ UNCHANGED m_debugFlags
    \/ /\ SocketOf(map, p.dst) = NoSocket
       /\ \/ p.dst # m_serverDeviceName
          \/ p.body.kind # "command"
          \/ SocketOf(m_deviceMap, p.src) = NoSocket
       /\ UNCHANGED <<tx, m_debugFlags>>
    \/ /\ SocketOf(map, p.dst) = NoSocket
       /\ p.dst = m_serverDeviceName
       /\ p.body.kind = "command"
       /\ SocketOf(m_deviceMap, p.src) # NoSocket
       /\ handleCommand(p, map)

\* processPacket() with the device map as registration has left it.
processPacket(p, map) ==
    \/ /\ SocketOf(map, p.dst) # NoSocket
       /\ tx' = [tx EXCEPT ![map[p.dst]] = Append(@, p)]
       /\ UNCHANGED m_debugFlags
    \/ /\ SocketOf(map, p.dst) = NoSocket
       /\ \/ p.dst # m_serverDeviceName
          \/ p.body.kind # "command"
          \/ SocketOf(map, p.src) = NoSocket
       /\ UNCHANGED <<tx, m_debugFlags>>
    \/ /\ SocketOf(map, p.dst) = NoSocket
       /\ p.dst = m_serverDeviceName
       /\ p.body.kind = "command"
       /\ SocketOf(map, p.src) # NoSocket
       /\ handleCommand(p, map)

HandlePacket(s) ==
    /\ Reading(s)
    /\ Head(rx[s]).body.kind # "oversize"
    /\ registerDeviceName(s, Head(rx[s]).src)
    /\ processPacket(Head(rx[s]), m_deviceMap')
    /\ rx' = [rx EXCEPT ![s] = Tail(@)]
    /\ toRead' = toRead - 1
    /\ UNCHANGED <<m_serverDeviceName, sockState, active, toWait, phase, sent>>

-----------------------------------------------------------------------------
(* ~DcpHub() once the event loop has returned: close() disconnects every     *)
(* socket and waits up to three seconds for each that still has to write.    *)

close ==
    /\ Idle
    /\ phase' = "closing"
    /\ disconnectFromHost({s \in Sockets : m_socketMap[s] # Absent})
    /\ toWait' = {s \in Sockets : m_socketMap[s] # Absent /\ tx[s] # <<>>}
    /\ UNCHANGED <<settings, active, toRead, sent>>

waitForDisconnected(s) ==
    /\ phase = "closing"
    /\ active = NoSocket
    /\ s \in toWait
    /\ active' = s
    /\ UNCHANGED <<registry, settings, channels, toRead, toWait, phase, sent>>

\* Faulty variant: the wait has no limit.
WaitTimeoutNever(s) ==
    /\ phase = "closing"
    /\ active = s
    /\ tx[s] = <<>>
    /\ EndOfWait(s)
    /\ UNCHANGED <<registry, settings, channels, toRead, phase, sent>>

WaitTimeout(s) ==
    /\ phase = "closing"
    /\ active = s
    /\ EndOfWait(s)
    /\ UNCHANGED <<registry, settings, channels, toRead, phase, sent>>

CloseServer ==
    /\ phase = "closing"
    /\ active = NoSocket
    /\ toWait = {}
    /\ phase' = "closed"
    /\ UNCHANGED <<registry, settings, channels, active, toRead, toWait, sent>>

Terminated == phase = "closed" /\ UNCHANGED vars

-----------------------------------------------------------------------------
Setup ==
    \/ \E n \in ServerNames : setDeviceName(n)
    \/ \E f \in StartFlags : setDebugFlags(f)
    \/ listen

Peers == \E s \in Sockets :
    \/ \E t \in Traffic : PeerSend(s, t)
    \/ PeerGone(s)
    \/ PeerClosed(s)
    \/ WriteOut(s)

EventLoop ==
    \/ EndOfInput
    \/ \E s \in Sockets :
           \/ newConnection(s)
           \/ DeferredDelete(s)
           \/ socketReadyRead(s)
           \/ RejectOversize(s)
           \/ RejectDevice(s)
           \/ HandlePacket(s)

Shutdown ==
    \/ close
    \/ \E s \in Sockets : waitForDisconnected(s) \/ WaitTimeout(s)
    \/ CloseServer
    \/ Terminated

Next == Setup \/ Peers \/ EventLoop \/ Shutdown

Spec == Init /\ [][Next]_vars

(* Fairness. The event loop serves every socket that is ready and runs every *)
(* slot to its end; a wait of close() is over after three seconds at most.   *)
(* socketReadyRead(s) is enabled only between the slots of other sockets, so *)
(* it needs strong fairness: the dispatcher looks at all descriptors in turn.*)
EventLoopFairness ==
    /\ WF_vars(EndOfInput)
    /\ WF_vars(CloseServer)
    /\ \A s \in Sockets :
           /\ SF_vars(socketReadyRead(s))
           /\ SF_vars(DeferredDelete(s))
           /\ WF_vars(RejectOversize(s))
           /\ WF_vars(RejectDevice(s))
           /\ WF_vars(HandlePacket(s))
           /\ WF_vars(waitForDisconnected(s))
           /\ WF_vars(WaitTimeout(s))
FairSpec == Spec /\ EventLoopFairness

\* Peers that read what they are sent, so that every write gets through. The
\* hub cannot count on it: it is a condition of one property only.
PeersRead == \A s \in Sockets : SF_vars(WriteOut(s))

-----------------------------------------------------------------------------
(* Safety.                                                                   *)

(* The two maps are inverse to each other and name live sockets only: what   *)
(* the assertions of newConnection(), socketDisconnected() and "get devinfo" *)
(* rely on, and why no freed socket is ever written to.                      *)
RegistryConsistent ==
    /\ \A s \in Sockets : m_socketMap[s] \in Names => m_deviceMap[m_socketMap[s]] = s
    /\ \A n \in Names : m_deviceMap[n] # NoSocket => m_socketMap[m_deviceMap[n]] = n
    /\ \A s \in Sockets :
           m_socketMap[s] # Absent <=> sockState[s] \in {"connected", "closing"}

(* No device holds the name of the hub, so a packet addressed to the hub is  *)
(* handled by it: processPacket() looks the devices up first.                *)
ServerNameReserved == m_deviceMap[m_serverDeviceName] = NoSocket

(* Whatever waits to be written to a device is addressed to the name that    *)
(* connection is registered under at this moment: a forwarded packet or an   *)
(* answer never reaches a device that took the name over later.              *)
NoMisdelivery ==
    \A s \in Sockets : \A i \in DOMAIN tx[s] : tx[s][i].dst = m_socketMap[s]

(* The packets of one connection are forwarded in the order they were sent   *)
(* and none is forwarded twice, whatever sockets the slots serve between     *)
(* them: per origin the identities grow along each write buffer, then along  *)
(* the packets still to be handled.                                          *)
OrderPreserved ==
    \A s, d \in Sockets :
        /\ \A i, j \in DOMAIN tx[d] :
               i < j /\ tx[d][i].from = s /\ tx[d][j].from = s
                   => tx[d][i].id < tx[d][j].id
        /\ \A i \in DOMAIN tx[d], j \in DOMAIN rx[s] :
               tx[d][i].from = s => tx[d][i].id < rx[s][j].id
        /\ \A i, j \in DOMAIN rx[s] : i < j => rx[s][i].id < rx[s][j].id

ForwardedOnce ==
    \A c, d \in Sockets : \A i \in DOMAIN tx[c], j \in DOMAIN tx[d] :
        /\ tx[c][i].from # NoSocket
        /\ tx[d][j].from # NoSocket
        /\ tx[c][i].id = tx[d][j].id
        => c = d /\ i = j

ForwardedInOrder == OrderPreserved /\ ForwardedOnce

(* The strengthening that makes the invariants above inductive. A connection *)
(* that is not read has no input, one that is gone no output.                *)
QuietChannels ==
    \A s \in Sockets :
        /\ sockState[s] # "connected" => rx[s] = <<>>
        /\ sockState[s] \notin {"connected", "closing"} => tx[s] = <<>>

\* The slot that runs has its packets in the buffer of a connected socket.
SlotHasInput ==
    phase = "running" /\ active # NoSocket =>
        /\ sockState[active] = "connected"
        /\ toRead <= Len(rx[active])

\* Nothing is connected before the hub listens.
SetupQuiet ==
    phase = "setup" => active = NoSocket /\ \A s \in Sockets : sockState[s] = "free"

IInv ==
    /\ TypeOK
    /\ RegistryConsistent
    /\ ServerNameReserved
    /\ NoMisdelivery
    /\ QuietChannels
    /\ SlotHasInput
    /\ SetupQuiet

\* Each answer in the write buffer q is complete, but for an ACK that has left.
Paired(q) ==
    \A i \in DOMAIN q :
        LET Answer(j, b) == /\ j \in DOMAIN q
                            /\ q[j].from = NoSocket
                            /\ q[j].id = q[i].id
                            /\ IsAckReply(q[j].body) = b
        IN  q[i].from = NoSocket =>
              IF IsAckReply(q[i].body)
              THEN Answer(i + 1, FALSE) <=> q[i].body.code = AckNoError
              ELSE i = 1 \/ Answer(i - 1, TRUE)

(* An answer without error is never alone and never torn apart: the ACK and  *)
(* the reply to one command follow each other in the write buffer, with the  *)
(* number of the command; an ACK with an error stands for the whole answer.  *)
(* (The reply may stand first once its ACK is on the wire.)                  *)
AnswersPaired ==
    \A s \in Sockets : Paired(tx[s])

-----------------------------------------------------------------------------
(* What a step may never do.                                                 *)

(* A name stays with the connection that registered it until that very       *)
(* connection is disconnected; no second device takes it over before.        *)
NameKept ==
    [][\A n \in Names :
           LET s == m_deviceMap[n]
           IN  s # NoSocket =>
                 \/ m_deviceMap'[n] = s
                 \/ m_deviceMap'[n] = NoSocket /\ sockState'[s] = "dead"]_vars

\* A step handles the command p of s, addressed to the hub.
Handles(s) ==
    /\ Reading(s)
    /\ rx'[s] = Tail(rx[s])
    /\ sockState'[s] = "connected"
    /\ Head(rx[s]).dst = m_serverDeviceName
    /\ Head(rx[s]).body.kind = "command"

(* A device that sends the hub a command under its own name is answered, on  *)
(* its own connection, even if it is this packet that registers it.          *)
CommandAnswered ==
    [][\A s \in Sockets :
           Handles(s) /\ Head(rx[s]).src = m_socketMap'[s] =>
               /\ Len(tx'[s]) > Len(tx[s])
               /\ Last(tx'[s]).id = Head(rx[s]).id]_vars

(* "get devinfo" reports an error if and only if one of the devices it was   *)
(* asked for is not registered; asked for all devices, it finds them all.    *)
DevInfoFindsDevices ==
    [][\A s \in Sockets :
           LET p == Head(rx[s])
               d == SocketOf(m_deviceMap', p.src)
           IN  /\ Handles(s)
               /\ p.body.type = "get" /\ p.body.id = "devinfo"
               /\ d # NoSocket
               => (Last(tx'[d]).body.code = 0 <=>
                   ToSet(p.body.args) \subseteq Registered(m_deviceMap'))]_vars

(* The hub implements the switch of NameSwitch: the mailbox of a name is the *)
(* write buffer of the connection that is registered under it.               *)
MailBox == [n \in Names |-> IF m_deviceMap[n] = NoSocket THEN <<>>
                            ELSE tx[m_deviceMap[n]]]
Switch == INSTANCE NameSwitch
          WITH Owners <- Sockets, Nobody <- NoSocket,
               owner <- m_deviceMap, box <- MailBox

(* Whatever the hub does is a step of the switch or none: no connection,     *)
(* registration, refusal, answer or shutdown gives or takes a name or a      *)
(* packet in any other way.                                                  *)
ImplementsSwitch == Switch!Spec

-----------------------------------------------------------------------------
(* Liveness.                                                                 *)

(* Whatever a peer sends is handled or its connection ends, however many     *)
(* other connections keep the event loop busy.                               *)
InputServed == \A s \in Sockets : rx[s] # <<>> ~> rx[s] = <<>>

(* The shutdown comes to an end even if some peers never read what they are  *)
(* sent: close() waits for each for a limited time only.                     *)
ShutdownTerminates == phase = "closing" ~> phase = "closed"

(* If peers read what they are sent, a connection that sends a packet of     *)
(* invalid size, or a first packet with a name it cannot have, does end, even*)
(* when packets still wait to be written to it (unless the program ends).    *)
RefusedConnectionEnds ==
    PeersRead =>
        \A s \in Sockets :
            /\ Reading(s)
            /\ \/ Head(rx[s]).body.kind = "oversize"
               \/ m_socketMap[s] = NoName /\ ~MayRegister(Head(rx[s]).src)
            ~> sockState[s] \in {"dead", "free"} \/ phase = "closed"
=============================================================================
