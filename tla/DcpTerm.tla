------------------------------- MODULE DcpTerm -------------------------------
(***************************************************************************)
(* tools/dcpterm: the window around a Dcp::Client.  The user connects,     *)
(* sends, and changes the settings, in whose dialog the event loop goes    *)
(* on; the slots of the window run inside the steps of the client that     *)
(* emit their signals; settings are kept when the window is closed.        *)
(*                                                                         *)
(* A setting is a name: the device name, server and port together.  The    *)
(* check mark of auto-reconnect is the flag of the client.                 *)
(***************************************************************************)
EXTENDS DcpClient

CONSTANTS
    MaxStarts   \* bound: how often the program is started

VARIABLES
    starts,         \* how often it was started
    running,
    triggerPending, \* the single shot timer that triggers "connect" once
    setting,        \* m_deviceName, m_serverName and m_serverPort
    saved,          \* what the ini file holds, [setting, autoReconnect]
    connectChecked, \* the check mark of "connect"
    sendEnabled,    \* comboMessage, comboDevice and buttonSend are enabled
    dialog          \* where on_actionSettings_triggered() is

winVars == <<starts, running, triggerPending, setting, saved, connectChecked, sendEnabled, dialog>>
termVars == <<vars, winVars>>

(* dialog: "none", "open", "waiting" when it was accepted and the slot waits *)
(* for the connection to end, or "ended" when that wait has returned true.   *)

TermInit ==
    /\ Init
    /\ starts = 0 /\ running = FALSE /\ triggerPending = FALSE
    /\ setting \in DeviceNames
    /\ saved = [setting |-> setting, autoReconnect |-> FALSE]
    /\ connectChecked = FALSE /\ sendEnabled = FALSE
    /\ dialog = "none"

-----------------------------------------------------------------------------
(* Starting and closing.                                                     *)

\* The constructor; an option takes the place of the setting of the file.
Start(option) ==
    /\ ~running /\ starts < MaxStarts
    /\ starts' = starts + 1
    /\ running' = TRUE
    /\ triggerPending' = TRUE
    /\ setting' = IF option = NoName THEN saved.setting ELSE option
    /\ setAutoReconnect(saved.autoReconnect)
    /\ UNCHANGED <<saved, connectChecked, sendEnabled, dialog>>

\* The window is closed: settings are saved, then the client is deleted.
Close ==
    /\ running /\ EventLoop /\ dialog = "none"
    /\ saved' = [setting |-> setting, autoReconnect |-> autoReconnect]
    /\ running' = FALSE /\ triggerPending' = FALSE
    /\ connectChecked' = FALSE /\ sendEnabled' = FALSE
    /\ sockState' = "unconnected" /\ pendingClose' = FALSE /\ timerActive' = FALSE
    /\ deviceName' = NoName /\ connectionRequested' = FALSE /\ autoReconnect' = FALSE
    /\ snr' = 0 /\ wbuf' = <<>> /\ wire' = <<>> /\ calls' = 0
    /\ rx' = <<>> /\ inQueue' = <<>>
    /\ UNCHANGED <<arrived, starts, setting, dialog>>

-----------------------------------------------------------------------------
(* The slots of the window for signals of the client.                        *)

\* Faulty variant: only the end of a connection takes the check mark away.
dcpStateChangedLoss(checked) ==
    /\ sendEnabled' = (sockState' = "connected")
    /\ connectChecked' = CASE sockState' = "unconnected" /\ sockState \in {"connected", "closing"} -> FALSE
                           [] sockState' = "connected" -> TRUE
                           [] OTHER -> checked

(* dcp_stateChanged(), after a step that found the check mark as `checked`.  *)
(* A connection that is closed as soon as it is up has been connected.       *)
dcpStateChanged(checked) ==
    /\ sendEnabled' = (sockState' = "connected")
    /\ connectChecked' = CASE sockState' = "unconnected" -> FALSE
                           [] sockState' = "connected" -> TRUE
                           [] sockState' = "closing" /\ sockState = "connecting" -> TRUE
                           [] OTHER -> checked

\* "null" is what the client makes of the first part of a larger message.
MessageKinds == {"reply", "set nop", "set nop x", "get echo", "other", "null"}

\* The error codes of the ACKs and replies that dcp_messageReceived() sends.
AnswersTo(kind) ==
    CASE kind = "reply" -> <<>>
      [] kind \in {"set nop", "get echo"} -> <<0, 0>>
      [] kind = "set nop x" -> <<3>>
      [] kind \in {"other", "null"} -> <<2>>

\* Whom the message was sent to: the null message to nobody.
DestinationOf(kind) == IF kind = "null" THEN NoName ELSE deviceName

(* A message is read from the socket, and dcp_messageReceived() takes and    *)
(* answers it with its number, under the name it was sent to.                *)
dcpMessageReceived(kind) ==
    /\ rx # <<>>
    /\ rx' = Tail(rx)
    /\ wbuf' = IF sockState = "unconnected" \/ ~Head(rx).first THEN wbuf
               ELSE wbuf \o [i \in DOMAIN AnswersTo(kind) |-> Message(DestinationOf(kind), 0, FALSE)]
    /\ UNCHANGED <<connection, request, snr, wire, calls, inQueue, arrived, winVars>>

-----------------------------------------------------------------------------
(* The user.  The dialog is modal, and while a slot waits or messages are    *)
(* read the user can do nothing.                                             *)

Idle == running /\ EventLoop /\ dialog = "none"

\* on_actionConnect_triggered(), once by itself after the start.
ConnectTriggered ==
    /\ running /\ EventLoop /\ dialog \in IF triggerPending THEN {"none", "open"} ELSE {"none"}
    /\ triggerPending' = FALSE
    /\ LET checked == ~connectChecked
       IN  /\ IF checked /\ sockState = "unconnected" THEN connectToServer(setting)
              ELSE IF ~checked /\ sockState = "connected" THEN disconnectFromServer
              ELSE UNCHANGED vars
           /\ dcpStateChanged(checked)
    /\ UNCHANGED <<starts, running, setting, saved, dialog>>

\* messageInputFinished(), with a text, by the return key or the button.
MessageInputFinished ==
    /\ Idle /\ sendEnabled
    /\ \E fits \in BOOLEAN : sendMessage(fits)
    /\ UNCHANGED winVars

AutoReconnectTriggered ==
    /\ Idle
    /\ setAutoReconnect(~autoReconnect)
    /\ UNCHANGED winVars

SettingsTriggered ==
    /\ Idle
    /\ dialog' = "open"
    /\ UNCHANGED <<vars, starts, running, triggerPending, setting, saved, connectChecked, sendEnabled>>

DialogRejected ==
    /\ dialog = "open" /\ EventLoop
    /\ dialog' = "none"
    /\ UNCHANGED <<vars, starts, running, triggerPending, setting, saved, connectChecked, sendEnabled>>

\* Faulty variant: only a connection that is up is given up.
DialogAcceptedUp(new) ==
    /\ dialog = "open" /\ EventLoop
    /\ setting' = new
    /\ IF sockState = "connected" THEN disconnectFromServer ELSE UNCHANGED vars
    /\ dcpStateChanged(connectChecked)
    /\ dialog' = IF sockState' = "connected" THEN "waiting"
                 ELSE IF sockState' = "unconnected" THEN "ended" ELSE "none"
    /\ UNCHANGED <<starts, running, triggerPending, saved>>

DialogAccepted(new) ==
    /\ dialog = "open" /\ EventLoop
    /\ setting' = new
    /\ disconnectFromServer
    /\ dcpStateChanged(connectChecked)
    /\ dialog' = IF sockState' = "unconnected" THEN "ended" ELSE "waiting"
    /\ UNCHANGED <<starts, running, triggerPending, saved>>

\* waitForDisconnected() has returned true.
Reconnect ==
    /\ dialog = "ended" /\ EventLoop
    /\ connectToServer(setting)
    /\ dcpStateChanged(connectChecked)
    /\ dialog' = "none"
    /\ UNCHANGED <<starts, running, triggerPending, setting, saved>>

\* It gives up after 30 seconds, or on an error, with the socket closing.
WaitTimesOut ==
    /\ dialog = "waiting" /\ EventLoop /\ sockState = "closing"
    /\ dialog' = "none"
    /\ UNCHANGED <<vars, starts, running, triggerPending, setting, saved, connectChecked, sendEnabled>>

-----------------------------------------------------------------------------
(* The socket and the timer.                                                 *)

(* What becomes of a waiting slot.  waitForDisconnected() of the socket      *)
(* first waits for an attempt to succeed, which one that is to be closed     *)
(* never does: false.  Otherwise true when the connection has ended, false   *)
(* when it broke with an error.                                              *)
WaitAfterStep ==
    IF sockState \in {"hostlookup", "connecting"}
    THEN IF sockState' \in {"hostlookup", "connecting"} THEN {"waiting"} ELSE {"none"}
    ELSE IF sockState' # "unconnected" THEN {"waiting"}
    ELSE IF ConnectionLost THEN {"none", "ended"} ELSE {"ended"}

SocketSteps ==
    /\ running
    /\ dialog # "ended"
    /\ LookupDone \/ AttemptFails \/ Connected \/ WriteOut \/ ConnectionLost
    /\ dcpStateChanged(connectChecked)
    /\ dialog' \in IF dialog = "waiting" THEN WaitAfterStep ELSE {dialog}
    /\ UNCHANGED <<starts, running, triggerPending, setting, saved>>

Packets == running /\ dialog # "ended" /\ MessagesArrive /\ UNCHANGED winVars

\* The timer needs the event loop, which a waiting slot does not run.
ReconnectTimeout ==
    /\ running /\ dialog \in {"none", "open"}
    /\ AutoReconnectTimeout
    /\ dcpStateChanged(connectChecked)
    /\ UNCHANGED <<starts, running, triggerPending, setting, saved, dialog>>

TermNext ==
    \/ \E option \in Sources : Start(option)
    \/ Close
    \/ \E kind \in MessageKinds : dcpMessageReceived(kind)
    \/ ConnectTriggered \/ MessageInputFinished \/ AutoReconnectTriggered
    \/ SettingsTriggered \/ DialogRejected
    \/ \E new \in DeviceNames : DialogAccepted(new)
    \/ Reconnect \/ WaitTimesOut
    \/ SocketSteps \/ Packets \/ ReconnectTimeout

TermSpec == TermInit /\ [][TermNext]_termVars

-----------------------------------------------------------------------------
(* The window shows the connection as it is: one can send exactly while it   *)
(* is up, so nothing that is typed is lost on a socket that takes no data,   *)
(* and "connect" is checked when it is up and not checked when there is      *)
(* none, in whatever order the user and the socket act                       *)
(* (dcp_stateChanged(), on_actionConnect_triggered()).                       *)
WindowAgrees ==
    /\ sendEnabled <=> sockState = "connected"
    /\ sockState = "connected" => connectChecked
    /\ sockState = "unconnected" => ~connectChecked

(* A connection that is made or used has the settings the user sees: what a  *)
(* dialog has changed holds for every connection after it, whatever the      *)
(* connection was doing when it was opened and accepted, and no old          *)
(* attempt is taken up again (on_actionSettings_triggered(),                 *)
(* _k_autoReconnectTimeout()).                                               *)
SettingsInUse ==
    dialog # "waiting" =>
        /\ sockState \in {"hostlookup", "connecting", "connected"} => deviceName = setting
        /\ sockState = "connected" =>
               \A i \in DOMAIN Output : Output[i].kind = "HELO" => Output[i].src = setting
=============================================================================
