------------------------------ MODULE DcpClient ------------------------------
(***************************************************************************)
(* Dcp::Client: the connection of a device to the hub. The application     *)
(* calls the client at any time, the socket changes its state behind it    *)
(* and a timer reconnects. Every slot is connected directly, so it runs    *)
(* inside the step of the socket that emits the signal.                    *)
(*                                                                         *)
(* The loop that reads messages is one step per cut; meanwhile only        *)
(* the application runs, in the handlers of messageReceived(): no other    *)
(* step of the socket or the timer happens while rx is not empty.          *)
(***************************************************************************)
EXTENDS Naturals, SequencesExt

CONSTANTS
    DeviceNames,    \* names the application connects under
    NoName,         \* the name before the first connectToServer()
    RawMessages,    \* [src, snr] of messages sent as they are
    UserSnrs,       \* arguments of setNextSnr()
    MaxSnr,         \* the largest serial number (quint32)
    MaxCalls,       \* bound: messages the application sends per connection
    MaxArrived      \* bound: cuts of what the hub sends in one behaviour

Sources == DeviceNames \cup {NoName}
Snrs == 0 .. MaxSnr

ASSUME ClientAssumption ==
    /\ NoName \notin DeviceNames
    /\ MaxSnr \in Nat \ {0}
    /\ RawMessages \subseteq [src : Sources, snr : Snrs]
    /\ UserSnrs \subseteq Snrs
    /\ MaxCalls \in Nat
    /\ MaxArrived \in Nat

SocketStates == {"unconnected", "hostlookup", "connecting", "connected", "closing"}

VARIABLES
    sockState,           \* state of the QTcpSocket
    pendingClose,        \* disconnectFromHost() came before the connection
    deviceName,
    connectionRequested,
    autoReconnect,
    timerActive,         \* the reconnect timer runs
    snr,                 \* the next serial number
    wbuf,                \* messages in the write buffer of the socket
    wire,                \* messages the hub was sent on this connection
    rx,                  \* cuts of the read buffer, [id, first]
    inQueue,             \* messages to be read by the application
    calls,               \* messages the application sent on this connection
    arrived              \* cuts of what the hub sent so far

connection == <<sockState, pendingClose, timerActive>>
request == <<deviceName, connectionRequested, autoReconnect>>
output == <<snr, wbuf, wire, calls>>
input == <<rx, inQueue, arrived>>
vars == <<connection, request, output, input>>

(* Where a message was written is kept to tell those written before the      *)
(* connection was up; `auto` marks the numbers the client has chosen since   *)
(* the application last set one.                                             *)
OutMessage == [kind : {"HELO", "message"}, src : Sources, snr : Snrs,
               auto : BOOLEAN, writtenIn : SocketStates]

(* What comes in is kept as the client cuts it, by the message size in each  *)
(* packet header, where that lies in the stream (DcpFraming): a message, or  *)
(* a part of one together with what it takes of the packets behind it.       *)
(* `first` says that the offset is 0.                                        *)
InCut == [id : Nat, first : BOOLEAN]

TypeOK ==
    /\ sockState \in SocketStates
    /\ pendingClose \in BOOLEAN
    /\ timerActive \in BOOLEAN
    /\ deviceName \in Sources
    /\ connectionRequested \in BOOLEAN
    /\ autoReconnect \in BOOLEAN
    /\ snr \in Snrs
    /\ wbuf \in Seq(OutMessage)
    /\ wire \in Seq(OutMessage)
    /\ calls \in Nat
    /\ rx \in Seq(InCut)
    /\ inQueue \in Seq(Nat)
    /\ arrived \in Nat

Init ==
    /\ sockState = "unconnected"
    /\ pendingClose = FALSE
    /\ timerActive = FALSE
    /\ deviceName = NoName
    /\ connectionRequested = FALSE
    /\ autoReconnect = FALSE
    /\ snr = 0
    /\ wbuf = <<>>
    /\ wire = <<>>
    /\ calls = 0
    /\ rx = <<>>
    /\ inQueue = <<>>
    /\ arrived = 0

-----------------------------------------------------------------------------
(* Operations of the private class and of the socket.                        *)

\* Faulty variant: the number does not wrap.
NextSnrUnbounded(n) == n + 1

\* incrementSnr(): zero is used only once.
NextSnr(n) == IF n < MaxSnr THEN n + 1 ELSE 1

\* Faulty variant: the timer does not look at the request.
ReconnectWantedAlways(requested) == autoReconnect

ReconnectWanted(requested) == autoReconnect /\ requested

\* Faulty variant: only a connection that was up is opened again.
SocketStateChangedUp(new, requested) ==
    /\ sockState' = new
    /\ timerActive' = (/\ new = "unconnected" /\ ReconnectWanted(requested)
                       /\ sockState \in {"connected", "closing"})

(* The socket enters state `new`: _k_socketStateChanged() starts the timer,  *)
(* or stops it.                                                              *)
SocketStateChanged(new, requested) ==
    /\ sockState' = new
    /\ timerActive' = (new = "unconnected" /\ ReconnectWanted(requested))

\* QAbstractSocket::connectToHost(), ignored unless there is no connection.
connectToHost(requested) ==
    IF sockState # "unconnected" THEN UNCHANGED <<connection, wbuf, wire, calls, rx>>
    ELSE /\ SocketStateChanged("hostlookup", requested)
         /\ pendingClose' = FALSE
         /\ wbuf' = <<>>
         /\ wire' = <<>>
         /\ calls' = 0
         /\ rx' = <<>>

(* QAbstractSocket::disconnectFromHost(): put off until the connection is    *)
(* up; then what waits to be written is written first.                       *)
disconnectFromHost(requested) ==
    CASE sockState \in {"hostlookup", "connecting"} ->
             pendingClose' = TRUE /\ UNCHANGED <<sockState, timerActive>>
      [] sockState = "connected" ->
             /\ SocketStateChanged(IF wbuf = <<>> THEN "unconnected" ELSE "closing",
                                   requested)
             /\ UNCHANGED pendingClose
      [] OTHER -> UNCHANGED connection

\* writeMessageToSocket(): an unconnected socket takes no data.
writeMessageToSocket(msg) ==
    wbuf' = IF sockState = "unconnected" THEN wbuf ELSE Append(wbuf, msg)

Message(src, number, auto) ==
    [kind |-> "message", src |-> src, snr |-> number, auto |-> auto,
     writtenIn |-> sockState]

-----------------------------------------------------------------------------
(* The application.                                                          *)

connectToServer(name) ==
    /\ connectionRequested' = TRUE
    /\ deviceName' = name
    /\ connectToHost(TRUE)
    /\ UNCHANGED <<autoReconnect, snr, inQueue, arrived>>

\* Faulty variant: an attempt to connect is not given up.
disconnectFromServerLate ==
    /\ connectionRequested' = FALSE
    /\ IF sockState = "connected" THEN disconnectFromHost(FALSE)
                                  ELSE UNCHANGED connection
    /\ UNCHANGED <<deviceName, autoReconnect, output, input>>

disconnectFromServer ==
    /\ connectionRequested' = FALSE
    /\ disconnectFromHost(FALSE)
    /\ UNCHANGED <<deviceName, autoReconnect, output, input>>

ByHand(out) == [i \in DOMAIN out |-> [out[i] EXCEPT !.auto = FALSE]]
setNextSnr(number) ==
    /\ snr' = number
    /\ wbuf' = ByHand(wbuf)
    /\ wire' = ByHand(wire)
    /\ UNCHANGED <<connection, request, calls, input>>

(* sendMessage() that numbers the message. A message above MaxPacketSize is  *)
(* not written and takes a number all the same.                              *)
sendMessage(fits) ==
    /\ calls < MaxCalls
    /\ calls' = calls + 1
    /\ snr' = NextSnr(snr)
    /\ IF fits THEN writeMessageToSocket(Message(deviceName, snr, TRUE))
               ELSE UNCHANGED wbuf
    /\ UNCHANGED <<connection, request, wire, input>>

\* sendMessage() with a number, or with a whole message, of the application.
sendRawMessage(raw) ==
    /\ calls < MaxCalls
    /\ calls' = calls + 1
    /\ writeMessageToSocket(Message(raw.src, raw.snr, FALSE))
    /\ UNCHANGED <<connection, request, snr, wire, input>>

readMessage ==
    /\ inQueue # <<>>
    /\ inQueue' = Tail(inQueue)
    /\ UNCHANGED <<connection, request, output, rx, arrived>>

\* Faulty variant: the timer is left to the next change of the socket.
setAutoReconnectLazy(enable) ==
    /\ autoReconnect' = enable
    /\ timerActive' = (timerActive /\ enable)
    /\ UNCHANGED <<sockState, pendingClose, deviceName, connectionRequested, output, input>>

setAutoReconnect(enable) ==
    /\ autoReconnect' = enable
    /\ timerActive' = (enable /\ (timerActive \/ (connectionRequested
                                                  /\ sockState = "unconnected")))
    /\ UNCHANGED <<sockState, pendingClose, deviceName, connectionRequested, output, input>>

-----------------------------------------------------------------------------
(* The socket and the timer.                                                 *)

\* The loop of _k_readMessagesFromSocket() is not running.
EventLoop == rx = <<>>

LookupDone ==
    /\ EventLoop
    /\ sockState = "hostlookup"
    /\ SocketStateChanged("connecting", connectionRequested)
    /\ UNCHANGED <<pendingClose, request, output, input>>

\* Looking the host up or connecting to it fails, or waitForConnected() gives up.
AttemptFails ==
    /\ EventLoop
    /\ sockState \in {"hostlookup", "connecting"}
    /\ SocketStateChanged("unconnected", connectionRequested)
    /\ UNCHANGED <<pendingClose, request, output, input>>

Helo == [kind |-> "HELO", src |-> deviceName, snr |-> snr, auto |-> TRUE,
         writtenIn |-> "connected"]

\* The buffer `out` is flushed: the socket accepts some of it at once.
Flushed(out) ==
    \E n \in 0 .. Len(out) :
        /\ wire' = wire \o SubSeq(out, 1, n)
        /\ wbuf' = SubSeq(out, n + 1, Len(out))

\* Faulty variants: the number of the registration is used again; only the
\* first connection is registered.
registerNameUncounted ==
    /\ Flushed(Append(wbuf, Helo))
    /\ UNCHANGED snr
registerNameOnce ==
    IF snr # 0 THEN Flushed(wbuf) /\ UNCHANGED snr
    ELSE /\ Flushed(Append(wbuf, Helo))
         /\ snr' = NextSnr(snr)

registerName ==
    /\ Flushed(Append(wbuf, Helo))
    /\ snr' = NextSnr(snr)

(* The connection is up: the name is registered, then a pending              *)
(* disconnectFromHost() is made up for.                                      *)
Connected ==
    /\ EventLoop
    /\ sockState = "connecting"
    /\ registerName
    /\ pendingClose' = FALSE
    /\ SocketStateChanged(CASE ~pendingClose -> "connected"
                            [] pendingClose /\ wbuf' # <<>> -> "closing"
                            [] pendingClose /\ wbuf' = <<>> -> "unconnected",
                          connectionRequested)
    /\ UNCHANGED <<request, calls, input>>

\* A message leaves the write buffer; the last one ends a closing connection.
WriteOut ==
    /\ EventLoop
    /\ sockState \in {"connected", "closing"}
    /\ wbuf # <<>>
    /\ wire' = Append(wire, Head(wbuf))
    /\ wbuf' = Tail(wbuf)
    /\ IF sockState = "closing" /\ Len(wbuf) = 1
       THEN SocketStateChanged("unconnected", connectionRequested)
       ELSE UNCHANGED <<sockState, timerActive>>
    /\ UNCHANGED <<pendingClose, request, snr, calls, input>>

(* The connection breaks, or the hub closes it: then what waits to be        *)
(* written may still be written first.                                       *)
ConnectionLost ==
    /\ EventLoop
    /\ \/ /\ sockState \in {"connected", "closing"}
          /\ SocketStateChanged("unconnected", connectionRequested)
       \/ /\ sockState = "connected"
          /\ wbuf # <<>>
          /\ SocketStateChanged("closing", connectionRequested)
    /\ UNCHANGED <<pendingClose, request, output, input>>

\* readyRead(): messages have arrived, some of them parts of larger ones.
MessagesArrive ==
    /\ EventLoop
    /\ sockState = "connected"
    /\ \E n \in 1 .. MaxArrived - arrived : \E first \in [1 .. n -> BOOLEAN] :
           /\ rx' = [i \in 1 .. n |-> [id |-> arrived + i, first |-> first[i]]]
           /\ arrived' = arrived + n
    /\ UNCHANGED <<connection, request, output, inQueue>>

\* Faulty variant: the newest message is read first.
readNextMessageFromSocketFirst ==
    /\ rx # <<>>
    /\ rx' = Tail(rx)
    /\ inQueue' = IF Head(rx).first THEN <<Head(rx).id>> \o inQueue ELSE inQueue
    /\ UNCHANGED <<connection, request, output, arrived>>

(* One round of the loop. A later part of a larger message is ignored, but   *)
(* the first part is queued and signalled (as a null message, see            *)
(* fromByteArray() in DcpFraming).                                           *)
readNextMessageFromSocket ==
    /\ rx # <<>>
    /\ rx' = Tail(rx)
    /\ inQueue' = IF Head(rx).first THEN Append(inQueue, Head(rx).id) ELSE inQueue
    /\ UNCHANGED <<connection, request, output, arrived>>

\* _k_autoReconnectTimeout()
AutoReconnectTimeout ==
    /\ EventLoop
    /\ timerActive
    /\ connectToHost(connectionRequested)
    /\ UNCHANGED <<request, snr, inQueue, arrived>>

-----------------------------------------------------------------------------
Application ==
    \/ \E n \in DeviceNames : connectToServer(n)
    \/ disconnectFromServer
    \/ \E n \in UserSnrs : setNextSnr(n)
    \/ \E fits \in BOOLEAN : sendMessage(fits)
    \/ \E raw \in RawMessages : sendRawMessage(raw)
    \/ readMessage
    \/ \E enable \in BOOLEAN : setAutoReconnect(enable)

Socket ==
    \/ LookupDone
    \/ AttemptFails
    \/ Connected
    \/ WriteOut
    \/ ConnectionLost
    \/ MessagesArrive
    \/ readNextMessageFromSocket

Next == Application \/ Socket \/ AutoReconnectTimeout

Spec == Init /\ [][Next]_vars

(* Fairness. The event loop runs the timer and the slots; the operating      *)
(* system ends every attempt to connect, one way or the other, and data that *)
(* was written is sent, or the connection breaks under it. That an attempt   *)
(* succeeds, that a connection ends with nothing to send, or that the        *)
(* application does anything, is never assumed.                              *)
WriteEnds == WriteOut \/ (wbuf # <<>> /\ ConnectionLost)

FairSpec ==
    /\ Spec
    /\ WF_vars(AutoReconnectTimeout)
    /\ WF_vars(readNextMessageFromSocket)
    /\ WF_vars(LookupDone \/ AttemptFails)
    /\ WF_vars(Connected \/ AttemptFails)
    /\ WF_vars(WriteEnds)

-----------------------------------------------------------------------------
(* Safety.                                                                   *)

(* The reconnect timer runs in no state but unconnected, and it does run     *)
(* whenever a connection that was asked for is down and auto-reconnect is on,*)
(* in whatever order the application has set the two.                        *)
TimerRunsWhenNeeded ==
    /\ timerActive => sockState = "unconnected" /\ autoReconnect
    /\ sockState = "unconnected" /\ autoReconnect /\ connectionRequested => timerActive

Output == wire \o wbuf

(* The hub takes the source of the first packet for the name of the device.  *)
(* Every connection, reconnections included, is registered exactly once, and *)
(* no message written after the connection was up comes before that.         *)
RegistersFirst ==
    /\ sockState \in {"connected", "closing"} =>
           \E i \in DOMAIN Output : Output[i].kind = "HELO"
    /\ \A i, j \in DOMAIN Output :
           /\ Output[i].kind = "HELO"
           /\ Output[j].kind = "HELO" \/ Output[j].writtenIn \in {"connected", "closing"}
           => i <= j

(* The numbers the client gives to the messages of one connection are        *)
(* distinct, across the wrap from MaxSnr to 1: an answer tells which command *)
(* it belongs to. (As long as there are no more messages than numbers; a     *)
(* number the application sets begins a new series.)                         *)
SnrUnique ==
    \A i, j \in DOMAIN Output :
        Output[i].auto /\ Output[j].auto /\ Output[i].snr = Output[j].snr => i = j

(* What is read is in the order in which it arrived, none of it twice,       *)
(* whatever connections it came in on, parts of larger messages between, and *)
(* whatever the application does meanwhile.                                  *)
ReceivedInOrder ==
    LET ids == inQueue \o [i \in DOMAIN rx |-> rx[i].id]
    IN  \A i, j \in DOMAIN ids : i < j => ids[i] < ids[j]

-----------------------------------------------------------------------------
(* What a step may never do.                                                 *)

(* The timer is never started for a connection nobody asks for any more.     *)
TimerStartsOnRequest ==
    [][~timerActive /\ timerActive' => connectionRequested']_vars

(* A connection the application has closed is not opened again.              *)
NoReconnectAfterDisconnect ==
    [][sockState = "unconnected" /\ sockState' # "unconnected"
           => connectionRequested']_vars

-----------------------------------------------------------------------------
(* Liveness.                                                                 *)

(* With auto-reconnect on, a connection that stays asked for is tried again  *)
(* and again: the client is never unconnected for good.                      *)
AutoReconnects ==
    <>[](autoReconnect /\ connectionRequested) => []<>(sockState # "unconnected")

(* Without auto-reconnect, disconnectFromServer() ends the connection, also  *)
(* one that is still being made, unless it is asked for again.               *)
DisconnectHonoured ==
    []~autoReconnect =>
        (~connectionRequested ~> sockState = "unconnected" \/ connectionRequested)
=============================================================================
