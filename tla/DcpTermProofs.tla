---------------------------- MODULE DcpTermProofs -----------------------------
(* Theorems about DcpTerm, for any settings and bounds.                      *)
EXTENDS DcpTerm, DcpClientProofs

-----------------------------------------------------------------------------
(* The window.                                                               *)

(* dcp_stateChanged() puts the window right, whatever it showed before.      *)
LEMMA StateChangedAgrees ==
    ASSUME NEW checked, dcpStateChanged(checked)
    PROVE  WindowAgrees'
<1>1. sendEnabled' <=> sockState' = "connected"
    BY DEF dcpStateChanged
<1>2. sockState' = "connected" => connectChecked'
    BY DEF dcpStateChanged
<1>3. sockState' = "unconnected" => ~connectChecked'
    BY DEF dcpStateChanged
<1> QED BY <1>1, <1>2, <1>3 DEF WindowAgrees

(* A step that leaves the socket alone may leave the window alone.           *)
LEMMA NothingChangedAgrees ==
    ASSUME WindowAgrees, UNCHANGED <<sockState, sendEnabled, connectChecked>>
    PROVE  WindowAgrees'
BY DEF WindowAgrees

(* Every action keeps window and connection in agreement.                    *)
LEMMA AgreesStep ==
    ASSUME WindowAgrees, [TermNext]_termVars
    PROVE  WindowAgrees'
<1>1. ASSUME NEW option \in Sources, Start(option)
      PROVE  WindowAgrees'
    BY <1>1, NothingChangedAgrees DEF Start, setAutoReconnect
<1>2. CASE Close
    BY <1>2 DEF Close, WindowAgrees
<1>3. ASSUME NEW kind \in MessageKinds, dcpMessageReceived(kind)
      PROVE  WindowAgrees'
    BY <1>3, NothingChangedAgrees DEF dcpMessageReceived, connection, winVars
<1>4. CASE ConnectTriggered
    BY <1>4, StateChangedAgrees DEF ConnectTriggered
<1>5. CASE MessageInputFinished
    BY <1>5, NothingChangedAgrees DEF MessageInputFinished, sendMessage, connection, winVars
<1>6. CASE AutoReconnectTriggered
    BY <1>6, NothingChangedAgrees DEF AutoReconnectTriggered, setAutoReconnect, winVars
<1>7. CASE SettingsTriggered \/ DialogRejected \/ WaitTimesOut
    BY <1>7, NothingChangedAgrees
       DEF SettingsTriggered, DialogRejected, WaitTimesOut, vars, connection
<1>8. ASSUME NEW new \in DeviceNames, DialogAccepted(new)
      PROVE  WindowAgrees'
    BY <1>8, StateChangedAgrees DEF DialogAccepted
<1>9. CASE Reconnect \/ SocketSteps \/ ReconnectTimeout
    BY <1>9, StateChangedAgrees DEF Reconnect, SocketSteps, ReconnectTimeout
<1>10. CASE Packets
    BY <1>10, NothingChangedAgrees DEF Packets, MessagesArrive, connection, winVars
<1>11. CASE UNCHANGED termVars
    BY <1>11, NothingChangedAgrees DEF termVars, vars, connection, winVars
<1> QED BY <1>1, <1>2, <1>3, <1>4, <1>5, <1>6, <1>7, <1>8, <1>9, <1>10, <1>11 DEF TermNext

(* One can send exactly while the connection is up and "connect" is checked  *)
(* as the connection is, whatever the user, the dialog, the socket and the   *)
(* reconnect timer do and in what order.                                     *)
THEOREM WindowShowsConnection == TermSpec => []WindowAgrees
<1>1. TermInit => WindowAgrees
    BY DEF TermInit, Init, WindowAgrees
<1>2. WindowAgrees /\ [TermNext]_termVars => WindowAgrees'
    BY AgreesStep
<1> QED BY <1>1, <1>2, PTL DEF TermSpec

-----------------------------------------------------------------------------
(* The settings.  A dialog that is accepted leaves the client with the old   *)
(* name: then nothing may be tried or come up under it.  While the slot      *)
(* waits, an attempt will be closed as soon as it succeeds; behind the wait, *)
(* the client has no attempt, no request and no timer, or the settings.      *)
NoHelo(out) == \A i \in 1 .. Len(out) : out[i].kind # "HELO"
Named(out, name) == \A i \in 1 .. Len(out) : out[i].kind = "HELO" => out[i].src = name

TermTypes ==
    /\ TypeOK
    /\ running \in BOOLEAN
    /\ setting \in DeviceNames
    /\ saved \in [setting : DeviceNames, autoReconnect : BOOLEAN]
    /\ dialog \in {"none", "open", "waiting", "ended"}

TimerQuiet == timerActive => sockState = "unconnected"

NotRunning ==
    ~running => /\ sockState = "unconnected" /\ ~connectionRequested /\ ~timerActive
                /\ dialog = "none"

WaitingSlot ==
    dialog = "waiting" =>
        /\ sockState \in {"hostlookup", "connecting", "closing"}
        /\ ~connectionRequested
        /\ sockState # "closing" => pendingClose

EndedSlot == dialog = "ended" => sockState = "unconnected"

OldSetting ==
    dialog \in {"none", "open"} /\ deviceName # setting =>
        /\ sockState \in {"unconnected", "closing"}
        /\ ~connectionRequested
        /\ ~timerActive

Registered ==
    /\ sockState \in {"hostlookup", "connecting"} => NoHelo(Output)
    /\ sockState = "connected" => Named(Output, deviceName)

Slots == TimerQuiet /\ NotRunning /\ WaitingSlot /\ EndedSlot /\ OldSetting
SettingsInv == TermTypes /\ Slots /\ Registered

LEMMA SettingsInvSuffices ==
    ASSUME SettingsInv
    PROVE  SettingsInUse
<1>1. DOMAIN Output = 1 .. Len(Output)
    BY OutputType DEF SettingsInv, TermTypes
<1>2. ASSUME dialog # "waiting", sockState \in {"hostlookup", "connecting", "connected"}
      PROVE  deviceName = setting
    BY <1>2 DEF SettingsInv, TermTypes, Slots, EndedSlot, OldSetting
<1> QED BY <1>1, <1>2 DEF SettingsInv, Registered, Named, SettingsInUse

LEMMA InitSettings == TermInit => SettingsInv
<1> SUFFICES ASSUME TermInit PROVE SettingsInv
    OBVIOUS
<1>1. TypeOK
    BY InitType DEF TermInit
<1>2. TermTypes
    BY <1>1 DEF TermInit, TermTypes
<1>3. Slots
    BY DEF TermInit, Init, Slots, TimerQuiet, NotRunning, WaitingSlot, EndedSlot, OldSetting
<1>4. Registered
    BY DEF TermInit, Init, Registered
<1> QED BY <1>2, <1>3, <1>4 DEF SettingsInv

(* Answers of the window are messages.                                       *)
LEMMA AnswersAreMessages ==
    ASSUME TypeOK, NEW kind \in MessageKinds, dcpMessageReceived(kind)
    PROVE  /\ wbuf' \in Seq(OutMessage) /\ wire' = wire
           /\ \E more \in Seq(OutMessage) :
                  /\ NoHelo(more)
                  /\ Output' = Output \o more
<1>1. AnswersTo(kind) \in Seq(Nat)
    <2>1. <<>> \in Seq(Nat) /\ <<3>> \in Seq(Nat) /\ <<2>> \in Seq(Nat) /\ <<0, 0>> \in Seq(Nat)
        OBVIOUS
    <2>2. AnswersTo(kind) \in {<<>>, <<3>>, <<2>>, <<0, 0>>}
        BY Zenon DEF AnswersTo, MessageKinds
    <2> QED BY <2>1, <2>2
<1> DEFINE m == Message(DestinationOf(kind), 0, FALSE)
           all == [i \in DOMAIN AnswersTo(kind) |-> m]
<1>2. m \in OutMessage /\ m.kind = "message"
    <2>1. 0 \in Snrs /\ DestinationOf(kind) \in Sources
        BY ClientAssumption DEF ClientAssumption, Snrs, TypeOK, DestinationOf, Sources
    <2> QED BY <2>1, MessageType DEF Message
<1>3. all \in Seq(OutMessage) /\ NoHelo(all)
    <2>1. DOMAIN AnswersTo(kind) = 1 .. Len(AnswersTo(kind)) /\ Len(AnswersTo(kind)) \in Nat
        BY <1>1
    <2> HIDE DEF m
    <2>2. all \in Seq(OutMessage) /\ Len(all) = Len(AnswersTo(kind))
          /\ \A i \in 1 .. Len(AnswersTo(kind)) : all[i] = m
        BY <1>2, <2>1
    <2> QED BY <1>2, <2>2 DEF NoHelo
<1>4. wire' = wire /\ wbuf' \in {wbuf, wbuf \o all}
    BY DEF dcpMessageReceived
<1>5. wire \in Seq(OutMessage) /\ wbuf \in Seq(OutMessage) /\ Output \in Seq(OutMessage)
    BY OutputType
<1>6. CASE wbuf' = wbuf
    <2>1. <<>> \in Seq(OutMessage) /\ NoHelo(<<>>) /\ Output' = Output \o <<>>
        BY <1>4, <1>5, <1>6 DEF NoHelo, Output
    <2> QED BY <1>4, <1>5, <1>6, <2>1
<1>7. CASE wbuf' = wbuf \o all
    <2> HIDE DEF all
    <2>1. wbuf' \in Seq(OutMessage)
        BY <1>3, <1>5, <1>7
    <2>2. Output' = Output \o all
        BY <1>3, <1>4, <1>5, <1>7 DEF Output
    <2> QED BY <1>3, <1>4, <2>1, <2>2
<1> QED BY <1>4, <1>6, <1>7

(* Every step but two of the window is one of the client, or none.           *)
LEMMA ClientSteps ==
    ASSUME setting \in DeviceNames, saved.autoReconnect \in BOOLEAN, [TermNext]_termVars
    PROVE  [Next]_vars \/ Close \/ \E kind \in MessageKinds : dcpMessageReceived(kind)
<1>1. ASSUME NEW option \in Sources, Start(option)
      PROVE  Next
    BY <1>1 DEF Start, Next, Application
<1>2. CASE ConnectTriggered
    BY <1>2 DEF ConnectTriggered, Next, Application
<1>3. CASE MessageInputFinished
    BY <1>3 DEF MessageInputFinished, Next, Application
<1>4. CASE AutoReconnectTriggered
    <2>1. \E enable \in BOOLEAN : setAutoReconnect(enable)
        <3> WITNESS (~autoReconnect) \in BOOLEAN
        <3> QED BY <1>4 DEF AutoReconnectTriggered
    <2> QED BY <2>1 DEF Next, Application
<1>5. CASE SettingsTriggered \/ DialogRejected \/ WaitTimesOut
    BY <1>5 DEF SettingsTriggered, DialogRejected, WaitTimesOut
<1>6. ASSUME NEW new \in DeviceNames, DialogAccepted(new)
      PROVE  Next
    BY <1>6 DEF DialogAccepted, Next, Application
<1>7. CASE Reconnect
    BY <1>7 DEF Reconnect, Next, Application
<1>8. CASE SocketSteps \/ Packets
    BY <1>8 DEF SocketSteps, Packets, Next, Socket
<1>9. CASE ReconnectTimeout
    BY <1>9 DEF ReconnectTimeout, Next
<1>10. CASE UNCHANGED termVars
    BY <1>10 DEF termVars
<1> QED BY <1>1, <1>2, <1>3, <1>4, <1>5, <1>6, <1>7, <1>8, <1>9, <1>10, Zenon DEF TermNext

LEMMA TermTypesStep ==
    ASSUME TermTypes, [TermNext]_termVars
    PROVE  TermTypes'
<1>1. TypeOK'
    <2>1. CASE [Next]_vars
        BY <2>1, TypeStep DEF TermTypes
    <2>2. CASE Close
        <3>1. <<>> \in Seq(OutMessage) /\ <<>> \in Seq(InCut) /\ <<>> \in Seq(Nat)
            OBVIOUS
        <3>2. 0 \in Snrs
            BY ClientAssumption DEF ClientAssumption, Snrs
        <3> QED BY <2>2, <3>1, <3>2 DEF Close, TypeOK, TermTypes, Sources, SocketStates
    <2>3. ASSUME NEW kind \in MessageKinds, dcpMessageReceived(kind)
          PROVE  TypeOK'
        <3>1. wbuf' \in Seq(OutMessage)
            BY <2>3, AnswersAreMessages DEF TermTypes
        <3>2. rx' \in Seq(InCut)
            BY <2>3 DEF dcpMessageReceived, TermTypes, TypeOK
        <3>3. UNCHANGED <<connection, request, snr, wire, calls, inQueue, arrived>>
            BY <2>3 DEF dcpMessageReceived
        <3> QED BY <3>1, <3>2, <3>3 DEF TermTypes, TypeOK, connection, request
    <2>4. setting \in DeviceNames /\ saved.autoReconnect \in BOOLEAN
        BY DEF TermTypes
    <2> QED BY <2>1, <2>2, <2>3, <2>4, ClientSteps, Zenon
<1>2. /\ running' \in BOOLEAN
      /\ setting' \in DeviceNames
      /\ saved' \in [setting : DeviceNames, autoReconnect : BOOLEAN]
    <2>1. ASSUME NEW option \in Sources, Start(option)
          PROVE  running' \in BOOLEAN /\ setting' \in DeviceNames /\ saved' = saved
        BY <2>1 DEF Start, TermTypes, Sources
    <2>2. CASE Close
        BY <2>2 DEF Close, TermTypes, TypeOK
    <2>3. ASSUME NEW new \in DeviceNames, DialogAccepted(new)
          PROVE  running' = running /\ setting' \in DeviceNames /\ saved' = saved
        BY <2>3 DEF DialogAccepted
    <2>4. ASSUME \/ \E kind \in MessageKinds : dcpMessageReceived(kind)
                 \/ ConnectTriggered \/ MessageInputFinished \/ AutoReconnectTriggered
                 \/ SettingsTriggered \/ DialogRejected
                 \/ Reconnect \/ WaitTimesOut
                 \/ SocketSteps \/ Packets \/ ReconnectTimeout
                 \/ UNCHANGED termVars
          PROVE  UNCHANGED <<running, setting, saved>>
        BY <2>4 DEF dcpMessageReceived, ConnectTriggered, MessageInputFinished,
                    AutoReconnectTriggered, SettingsTriggered, DialogRejected, Reconnect,
                    WaitTimesOut, SocketSteps, Packets, ReconnectTimeout, termVars, winVars
    <2> QED BY <2>1, <2>2, <2>3, <2>4 DEF TermNext, TermTypes
<1>3. dialog' \in {"none", "open", "waiting", "ended"}
    BY DEF TermTypes, TermNext, Start, Close, dcpMessageReceived, ConnectTriggered,
           MessageInputFinished, AutoReconnectTriggered, SettingsTriggered, DialogRejected,
           DialogAccepted, Reconnect, WaitTimesOut, SocketSteps, Packets, ReconnectTimeout,
           WaitAfterStep, termVars, winVars
<1> QED BY <1>1, <1>2, <1>3 DEF TermTypes

(* What disconnectFromServer() does to the connection.                       *)
LEMMA DisconnectEffect ==
    ASSUME TypeOK, TimerQuiet, disconnectFromServer
    PROVE  /\ connectionRequested' = FALSE /\ deviceName' = deviceName /\ Output' = Output
           /\ sockState \in {"hostlookup", "connecting"} => sockState' = sockState /\ pendingClose'
           /\ sockState = "connected" => sockState' \in {"unconnected", "closing"} /\ ~timerActive'
           /\ sockState \in {"unconnected", "closing"} =>
                  sockState' = sockState /\ timerActive' = timerActive
           /\ sockState \in SocketStates
           /\ TimerQuiet'
BY DEF disconnectFromServer, disconnectFromHost, SocketStateChanged, ReconnectWanted,
       connection, output, Output, TypeOK, SocketStates, TimerQuiet

(* A dialog that is accepted ends the connection first, however far it is.   *)
LEMMA AcceptedSlots ==
    ASSUME TermTypes, Slots, NEW new \in DeviceNames, DialogAccepted(new)
    PROVE  Slots'
<1>1. /\ disconnectFromServer /\ running' = running /\ dialog = "open"
      /\ dialog' = IF sockState' = "unconnected" THEN "ended" ELSE "waiting"
    BY DEF DialogAccepted
<1>2. running
    BY <1>1 DEF Slots, NotRunning
<1>3. TimerQuiet'
    BY <1>1, DisconnectEffect DEF TermTypes, Slots
<1>4. WaitingSlot'
    BY <1>1, DisconnectEffect DEF TermTypes, Slots, WaitingSlot, SocketStates
<1>5. NotRunning' /\ EndedSlot' /\ OldSetting'
    BY <1>1, <1>2 DEF NotRunning, EndedSlot, OldSetting
<1> QED BY <1>3, <1>4, <1>5 DEF Slots

(* The user connects, or ends the connection.                                *)
LEMMA TriggeredSlots ==
    ASSUME TermTypes, Slots, ConnectTriggered
    PROVE  Slots'
<1>1. /\ running /\ dialog \in {"none", "open"}
      /\ UNCHANGED <<running, setting, dialog>>
    BY DEF ConnectTriggered
<1>2. CASE sockState = "unconnected" /\ connectToServer(setting)
    <2>1. /\ sockState' = "hostlookup" /\ deviceName' = setting /\ timerActive' = FALSE
        BY <1>2 DEF connectToServer, connectToHost, SocketStateChanged
    <2> QED BY <1>1, <2>1 DEF Slots, TimerQuiet, NotRunning, WaitingSlot, EndedSlot, OldSetting
<1>3. CASE sockState = "connected" /\ disconnectFromServer
    <2>1. /\ sockState' \in {"unconnected", "closing"} /\ ~timerActive'
          /\ ~connectionRequested'
        BY <1>3, DisconnectEffect DEF TermTypes, Slots
    <2> QED BY <1>1, <2>1 DEF Slots, TimerQuiet, NotRunning, WaitingSlot, EndedSlot, OldSetting
<1>4. CASE UNCHANGED vars
    BY <1>1, <1>4 DEF vars, connection, request, Slots, TimerQuiet, NotRunning,
                      WaitingSlot, EndedSlot, OldSetting
<1> QED BY <1>2, <1>3, <1>4 DEF ConnectTriggered

(* The socket goes on, also while the slot waits.                            *)
LEMMA SocketSlots ==
    ASSUME TermTypes, Slots, SocketSteps
    PROVE  Slots'
<1>1. /\ running /\ running' /\ dialog # "ended" /\ setting' = setting
      /\ dialog' \in IF dialog = "waiting" THEN WaitAfterStep ELSE {dialog}
    BY DEF SocketSteps, TermTypes
<1>2. deviceName' = deviceName /\ connectionRequested' = connectionRequested
    BY DEF SocketSteps, LookupDone, AttemptFails, Connected, WriteOut, ConnectionLost, request
<1>3. TimerQuiet'
    BY DEF SocketSteps, LookupDone, AttemptFails, Connected, WriteOut, ConnectionLost,
           SocketStateChanged, Slots, TimerQuiet
<1>4. ~connectionRequested /\ sockState' = "unconnected" => ~timerActive'
    BY DEF SocketSteps, LookupDone, AttemptFails, Connected, WriteOut, ConnectionLost,
           SocketStateChanged, ReconnectWanted
<1>5. /\ sockState \in {"hostlookup", "connecting", "connected", "closing"}
      /\ sockState = "closing" => sockState' \in {"closing", "unconnected"}
      /\ sockState \in {"hostlookup", "connecting"} /\ pendingClose
             => \/ sockState' = "connecting" /\ pendingClose'
                \/ sockState' \in {"closing", "unconnected"}
    BY DEF SocketSteps, LookupDone, AttemptFails, Connected, WriteOut, ConnectionLost,
           SocketStateChanged, TermTypes, TypeOK
<1>6. CASE dialog = "waiting"
    <2>1. /\ ~connectionRequested
          /\ sockState \in {"hostlookup", "connecting", "closing"}
          /\ sockState # "closing" => pendingClose
        BY <1>6 DEF Slots, WaitingSlot
    <2>2. dialog' \in WaitAfterStep
        BY <1>1, <1>6
    <2>3. dialog' = "waiting" => sockState' \in {"connecting", "closing"}
        BY <1>5, <2>1, <2>2 DEF WaitAfterStep
    <2>4. dialog' = "ended" => sockState' = "unconnected"
        BY <2>2 DEF WaitAfterStep
    <2>5. dialog' = "none" => sockState' \in {"closing", "unconnected"}
        BY <1>5, <2>1, <2>2 DEF WaitAfterStep
    <2>6. dialog' # "open"
        BY <2>2 DEF WaitAfterStep
    <2>7. WaitingSlot'
        BY <1>2, <1>5, <2>1, <2>3 DEF WaitingSlot
    <2>8. OldSetting'
        BY <1>2, <1>3, <1>4, <2>1, <2>5, <2>6 DEF OldSetting, TimerQuiet
    <2> QED BY <1>1, <1>3, <2>4, <2>7, <2>8 DEF Slots, NotRunning, EndedSlot
<1>7. CASE dialog # "waiting"
    <2>1. dialog' = dialog /\ dialog \in {"none", "open"}
        BY <1>1, <1>7 DEF TermTypes
    <2>2. OldSetting'
        BY <1>1, <1>2, <1>3, <1>4, <1>5, <2>1 DEF Slots, OldSetting, TimerQuiet
    <2> QED BY <1>1, <1>3, <2>1, <2>2 DEF Slots, NotRunning, WaitingSlot, EndedSlot
<1> QED BY <1>6, <1>7

LEMMA SlotsStep ==
    ASSUME TermTypes, Slots, [TermNext]_termVars
    PROVE  Slots'
<1> USE DEF Slots, TimerQuiet, NotRunning, WaitingSlot, EndedSlot, OldSetting
<1>1. ASSUME NEW option \in Sources, Start(option)
      PROVE  Slots'
    <2>1. /\ sockState' = "unconnected" /\ ~connectionRequested' /\ ~timerActive'
          /\ dialog' = "none"
        BY <1>1 DEF Start, setAutoReconnect
    <2> QED BY <2>1
<1>2. CASE Close
    <2>1. /\ sockState' = "unconnected" /\ ~connectionRequested' /\ ~timerActive'
          /\ dialog' = "none"
        BY <1>2 DEF Close
    <2> QED BY <2>1
<1>3. ASSUME NEW new \in DeviceNames, DialogAccepted(new)
      PROVE  Slots'
    BY <1>3, AcceptedSlots
<1>4. CASE ConnectTriggered
    BY <1>4, TriggeredSlots
<1>5. CASE SocketSteps
    BY <1>5, SocketSlots
<1>6. CASE Reconnect
    <2>1. /\ sockState' = "hostlookup" /\ deviceName' = setting' /\ timerActive' = FALSE
          /\ dialog' = "none" /\ running'
        BY <1>6 DEF Reconnect, connectToServer, connectToHost, SocketStateChanged
    <2> QED BY <2>1
<1>7. CASE ReconnectTimeout
    <2>1. /\ running' /\ dialog \in {"none", "open"} /\ timerActive
          /\ UNCHANGED <<setting, dialog, deviceName>>
        BY <1>7 DEF ReconnectTimeout, AutoReconnectTimeout, request
    <2>2. timerActive' => sockState' = "unconnected"
        BY <1>7 DEF ReconnectTimeout, AutoReconnectTimeout, connectToHost, SocketStateChanged,
                    connection
    <2> QED BY <2>1, <2>2
<1>8. CASE WaitTimesOut
    BY <1>8 DEF WaitTimesOut, vars, connection, request
<1>9. CASE SettingsTriggered \/ DialogRejected
    BY <1>9 DEF SettingsTriggered, DialogRejected, Idle, vars, connection, request
<1>10. CASE AutoReconnectTriggered
    BY <1>10 DEF AutoReconnectTriggered, Idle, setAutoReconnect, winVars
<1>11. ASSUME \/ \E kind \in MessageKinds : dcpMessageReceived(kind)
              \/ MessageInputFinished \/ Packets \/ UNCHANGED termVars
       PROVE  Slots'
    <2>1. UNCHANGED <<connection, request, winVars>>
        BY <1>11 DEF dcpMessageReceived, MessageInputFinished, sendMessage, Packets,
                     MessagesArrive, termVars, vars
    <2> QED BY <2>1 DEF connection, request, winVars
<1> QED BY <1>1, <1>2, <1>3, <1>4, <1>5, <1>6, <1>7, <1>8, <1>9, <1>10, <1>11 DEF TermNext

(* What the client sends to be registered under is its name at that moment,  *)
(* and while the connection is up the window does not give it another.       *)
LEMMA NamedByAppend ==
    ASSUME NEW out \in Seq(OutMessage), NEW more \in Seq(OutMessage), NoHelo(more),
           NEW name
    PROVE  /\ NoHelo(out) => NoHelo(out \o more)
           /\ Named(out, name) => Named(out \o more, name)
<1>1. /\ Len(out \o more) = Len(out) + Len(more) /\ Len(out) \in Nat /\ Len(more) \in Nat
      /\ \A i \in 1 .. Len(out) + Len(more) :
             (out \o more)[i] = IF i <= Len(out) THEN out[i] ELSE more[i - Len(out)]
    BY ConcatProperties
<1>2. ASSUME NEW i \in 1 .. Len(out) + Len(more), (out \o more)[i].kind = "HELO"
      PROVE  i \in 1 .. Len(out) /\ (out \o more)[i] = out[i]
    <2>1. CASE i <= Len(out)
        BY <1>1, <2>1
    <2>2. CASE ~(i <= Len(out))
        <3>1. i - Len(out) \in 1 .. Len(more)
            BY <1>1, <2>2
        <3> QED BY <1>1, <1>2, <2>2, <3>1 DEF NoHelo
    <2> QED BY <2>1, <2>2
<1> QED BY <1>1, <1>2 DEF NoHelo, Named

LEMMA RegisteredStep ==
    ASSUME SettingsInv, [TermNext]_termVars
    PROVE  Registered'
<1> USE DEF SettingsInv
<1>1. TypeOK /\ Output \in Seq(OutMessage)
    BY OutputType DEF TermTypes
<1>2. ASSUME Output' = Output, deviceName' = deviceName,
             \/ sockState' \in {sockState, "unconnected", "closing"}
             \/ sockState = "hostlookup" /\ sockState' = "connecting"
      PROVE  Registered'
    BY <1>2 DEF Registered
<1>3. ASSUME NEW more \in Seq(OutMessage), NoHelo(more), Output' = Output \o more,
             deviceName' = deviceName, sockState' = sockState
      PROVE  Registered'
    BY <1>1, <1>3, NamedByAppend DEF Registered
<1>4. ASSUME NEW requested, connectToHost(requested), sockState = "unconnected"
      PROVE  Registered'
    <2>1. sockState' = "hostlookup" /\ Output' = <<>>
        BY <1>4 DEF connectToHost, SocketStateChanged, Output
    <2> QED BY <2>1 DEF Registered, NoHelo
<1>5. ASSUME NEW option \in Sources, Start(option)
      PROVE  Registered'
    BY <1>2, <1>5 DEF Start, setAutoReconnect, output, Output
<1>6. CASE Close
    BY <1>6 DEF Close, Registered
<1>7. ASSUME NEW kind \in MessageKinds, dcpMessageReceived(kind)
      PROVE  Registered'
    <2>1. PICK more \in Seq(OutMessage) : NoHelo(more) /\ Output' = Output \o more
        BY <1>1, <1>7, AnswersAreMessages
    <2>2. deviceName' = deviceName /\ sockState' = sockState
        BY <1>7 DEF dcpMessageReceived, request, connection
    <2> QED BY <1>3, <2>1, <2>2
<1>8. ASSUME disconnectFromServer
      PROVE  Registered'
    <2>1. /\ deviceName' = deviceName /\ Output' = Output
          /\ sockState' \in {sockState, "unconnected", "closing"}
        BY <1>1, <1>8, DisconnectEffect DEF Slots, SocketStates
    <2> QED BY <1>2, <2>1
<1>9. CASE ConnectTriggered
    <2>1. CASE sockState = "unconnected" /\ connectToServer(setting)
        BY <1>4, <2>1 DEF connectToServer
    <2>2. CASE UNCHANGED vars
        BY <1>2, <2>2 DEF vars, connection, request, output, Output
    <2> QED BY <1>8, <1>9, <2>1, <2>2 DEF ConnectTriggered
<1>10. ASSUME NEW new \in DeviceNames, DialogAccepted(new)
       PROVE  Registered'
    BY <1>8, <1>10 DEF DialogAccepted
<1>11. CASE Reconnect
    BY <1>4, <1>11 DEF Reconnect, connectToServer, Slots, EndedSlot
<1>12. CASE ReconnectTimeout
    BY <1>4, <1>12 DEF ReconnectTimeout, AutoReconnectTimeout, Slots, TimerQuiet
<1>13. CASE MessageInputFinished
    <2>1. PICK fits \in BOOLEAN : sendMessage(fits)
        BY <1>13 DEF MessageInputFinished
    <2> DEFINE m == Message(deviceName, snr, TRUE)
    <2>2. m \in OutMessage /\ m.kind = "message"
        BY <1>1, MessageType DEF Message, TypeOK
    <2>3. sockState' = sockState /\ deviceName' = deviceName /\ wire' = wire
        BY <2>1 DEF sendMessage, connection, request
    <2>4. CASE wbuf' = wbuf
        BY <1>2, <2>3, <2>4 DEF Output
    <2>5. CASE wbuf' = Append(wbuf, m)
        <3> HIDE DEF m
        <3>1. Output' = Append(Output, m)
            BY <1>1, <2>2, <2>3, <2>5, AppendGoesLast DEF Output
        <3>2. Output' = Output \o <<m>> /\ <<m>> \in Seq(OutMessage) /\ NoHelo(<<m>>)
            BY <1>1, <2>2, <3>1 DEF NoHelo
        <3> QED BY <1>3, <2>3, <3>2
    <2> QED BY <2>1, <2>4, <2>5 DEF sendMessage, writeMessageToSocket
<1>14. CASE SocketSteps
    <2>1. CASE Connected
        <3>1. Helo \in OutMessage /\ Helo.src = deviceName /\ deviceName' = deviceName
            BY <1>1, <2>1 DEF Helo, OutMessage, SocketStates, TypeOK, Connected, request
        <3>2. Append(wbuf, Helo) \in Seq(OutMessage) /\ wire \in Seq(OutMessage)
            BY <1>1, <3>1, OutputType
        <3>3. Output' = Append(Output, Helo)
            BY <1>1, <2>1, <3>1, <3>2, FlushKeeps, AppendGoesLast DEF Connected, registerName
        <3>4. NoHelo(Output)
            BY <2>1 DEF Registered, Connected
        <3>5. Named(Output', deviceName')
            BY <1>1, <3>1, <3>3, <3>4 DEF Named, NoHelo
        <3>6. sockState' \in {"connected", "closing", "unconnected"}
            BY <1>1, <2>1 DEF Connected, SocketStateChanged, TypeOK
        <3> QED BY <3>5, <3>6 DEF Registered
    <2>2. CASE WriteOut
        <3>1. Output' = Output
            BY <1>1, <2>2, WriteOutKeeps
        <3>2. deviceName' = deviceName /\ sockState' \in {sockState, "unconnected"}
            BY <2>2 DEF WriteOut, SocketStateChanged, request
        <3> QED BY <1>2, <3>1, <3>2
    <2>3. CASE LookupDone \/ AttemptFails \/ ConnectionLost
        BY <1>2, <2>3 DEF LookupDone, AttemptFails, ConnectionLost, SocketStateChanged,
                          request, output, Output
    <2> QED BY <1>14, <2>1, <2>2, <2>3 DEF SocketSteps
<1>15. ASSUME \/ AutoReconnectTriggered \/ SettingsTriggered \/ DialogRejected \/ WaitTimesOut
              \/ Packets \/ UNCHANGED termVars
       PROVE  Registered'
    <2>1. Output' = Output /\ deviceName' = deviceName /\ sockState' = sockState
        BY <1>15 DEF AutoReconnectTriggered, setAutoReconnect, SettingsTriggered,
                     DialogRejected, WaitTimesOut, Packets, MessagesArrive, termVars, vars,
                     connection, request, output, Output
    <2> QED BY <1>2, <2>1
<1> QED BY <1>5, <1>6, <1>7, <1>9, <1>10, <1>11, <1>12, <1>13, <1>14, <1>15 DEF TermNext

(* Whatever the connection was doing when the settings were changed, no      *)
(* attempt is made, and no connection comes up, under the old ones.          *)
THEOREM NewSettingsAreUsed == TermSpec => []SettingsInUse
<1>1. SettingsInv /\ [TermNext]_termVars => SettingsInv'
    BY TermTypesStep, SlotsStep, RegisteredStep DEF SettingsInv
<1> QED BY <1>1, InitSettings, SettingsInvSuffices, PTL DEF TermSpec
=============================================================================
