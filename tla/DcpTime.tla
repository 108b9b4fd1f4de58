------------------------------ MODULE DcpTime -------------------------------
(***************************************************************************)
(* examples/dcptime: a device that tells the time, dcptimeserver, and a    *)
(* window that shows it, dcptimeclient.  The client asks for four values   *)
(* at a time, waits for the four answers and asks again, or asks again     *)
(* after a second without them.  Both are connected to a hub, which keeps  *)
(* the order of the messages of each; connections break, the server is     *)
(* restarted, answers are late, other devices use the server too, and send *)
(* the window what it did not ask for.                                     *)
(*                                                                         *)
(* A command is what CommandParser makes of a message, a reply what        *)
(* ReplyParser makes of it; times and dates are not told apart.            *)
(***************************************************************************)
EXTENDS Integers, SequencesExt

CONSTANTS
    OtherCommands,  \* commands the server gets from other devices
    MaxFaults,      \* bound: lost connections of both, restarts and late answers together
    MaxEvents       \* bound: what the user picks and what other devices send, together

Kinds == <<"date", "time", "julian", "mode">>   \* in the order they are asked for
KindSet == {"date", "time", "julian", "mode"}
Modes == {"utc", "local"}

VARIABLES
    timeMode,   \* m_timeMode of the server
    toServer,   \* commands of the client on their way to the server
    toClient,   \* answers on their way to the client
    connected,  \* the client has a connection
    timerOn,    \* m_timer is active
    expired,    \* m_stopWatch.hasExpired(1000)
    msgId,      \* m_dateMsgId, m_timeMsgId, m_julianMsgId and m_modeMsgId, by kind
    shown,      \* history: the answer last put into each field, "none" before the first
    combo,      \* the time zone the combo box shows
    faults, events  \* how many of each have happened

netVars == <<toServer, toClient>>
clientVars == <<timerOn, expired, msgId, shown, combo>>
countVars == <<faults, events>>
vars == <<timeMode, netVars, connected, clientVars, countVars>>

Init ==
    /\ timeMode = "utc"
    /\ toServer = <<>> /\ toClient = <<>>
    /\ connected = FALSE
    /\ timerOn = FALSE
    /\ expired = TRUE
    /\ msgId = [k \in KindSet |-> 0]
    /\ shown = [k \in KindSet |-> "none"]
    /\ combo = "utc"
    /\ faults = 0 /\ events = 0

-----------------------------------------------------------------------------
(* Messages.  `late' marks those that belong to an earlier round of          *)
(* requests; only the properties look at it.                                 *)

Command(type, identifier, args) == [type |-> type, identifier |-> identifier, args |-> args]
Answer(snr, errorCode, word, late) ==
    [snr |-> snr, isReply |-> TRUE, parses |-> TRUE, errorCode |-> errorCode,
     word |-> word, late |-> late]
Outdated(channel) == [i \in DOMAIN channel |-> [channel[i] EXCEPT !.late = TRUE]]

\* Numbers of messages that a new one must not have.
Used ==
    {toServer[i].snr : i \in DOMAIN toServer} \cup {toClient[i].snr : i \in DOMAIN toClient}
    \cup {msgId[k] : k \in KindSet}

\* n numbers for new messages: the code counts, and only equality matters here.
FreshSnrs(n) ==
    LET free == (1 .. Cardinality(Used) + n) \ Used
    IN  CHOOSE snrs \in [1 .. n -> free] : IsInjective(snrs)

-----------------------------------------------------------------------------
(* The server.                                                               *)

Getters == {"mode", "time", "date", "datetime", "julian"}

\* The error code of the ACK: 0, 2 for an unknown command, 3 for a wrong parameter.
AckCode(cmd) ==
    CASE cmd.type = "get" /\ cmd.identifier \in Getters -> IF cmd.args = <<>> THEN 0 ELSE 3
      [] cmd.type = "set" /\ cmd.identifier = "mode" ->
            IF \E m \in Modes : cmd.args = <<m>> THEN 0 ELSE 3
      [] OTHER -> 2

\* The word that comes back: the kind stands for its value.
ReplyWord(cmd) ==
    IF cmd.type = "set" THEN "FIN"
    ELSE IF cmd.identifier = "mode" THEN timeMode ELSE cmd.identifier

AnswersOf(snr, cmd, late) ==
    IF cmd.type = "reply" THEN <<>>
    ELSE IF AckCode(cmd) # 0 THEN <<Answer(snr, AckCode(cmd), "ACK", late)>>
    ELSE <<Answer(snr, 0, "ACK", late), Answer(snr, 0, ReplyWord(cmd), late)>>

ModeAfter(cmd) ==
    IF cmd.type = "set" /\ AckCode(cmd) = 0 THEN cmd.args[1] ELSE timeMode

\* What the server says to a client without a connection is dropped by the hub.
ServerReceives ==
    /\ toServer # <<>>
    /\ LET m == Head(toServer)
       IN  /\ timeMode' = ModeAfter(m.cmd)
           /\ toClient' = IF connected THEN toClient \o AnswersOf(m.snr, m.cmd, m.late)
                                       ELSE toClient
    /\ toServer' = Tail(toServer)
    /\ UNCHANGED <<connected, clientVars, countVars>>

\* A command of another device, whose answers go there.
ServerReceivesOther(cmd) ==
    /\ events < MaxEvents
    /\ events' = events + 1
    /\ timeMode' = ModeAfter(cmd)
    /\ UNCHANGED <<netVars, connected, clientVars, faults>>

\* What the hub gets for the server before it is back is lost, and so are answers that have
\* not left.
ServerIsAway ==
    /\ faults < MaxFaults
    /\ faults' = faults + 1
    /\ \E n \in 0 .. Len(toServer) : toServer' = SubSeq(toServer, n + 1, Len(toServer))
    /\ \E n \in 0 .. Len(toClient) : toClient' = SubSeq(toClient, 1, n)
    /\ UNCHANGED <<connected, clientVars, events>>

ServerRestarts == ServerIsAway /\ timeMode' = "utc"
ServerReconnects == ServerIsAway /\ UNCHANGED timeMode

-----------------------------------------------------------------------------
(* The client.                                                               *)

\* Faulty variant: asks again only when everything was answered.
DueAnswered(isExpired) == \A k \in KindSet : msgId[k] = 0

\* Faulty variant: the number of a request that is not answered yet is kept.
IdsKept(snrs) == [k \in KindSet |-> IF msgId[k] # 0 THEN msgId[k]
                                    ELSE snrs[CHOOSE n \in 1 .. 4 : Kinds[n] = k]]

Due(isExpired) == (\A k \in KindSet : msgId[k] = 0) \/ isExpired
Ids(snrs) == [k \in KindSet |-> snrs[CHOOSE n \in 1 .. 4 : Kinds[n] = k]]

\* requestValues(), with the stop watch as it is when it is called.
RequestValues(isExpired) ==
    IF Due(isExpired)
    THEN LET snrs == FreshSnrs(4)
         IN  /\ expired' = FALSE
             /\ msgId' = Ids(snrs)
             /\ toServer' = Outdated(toServer) \o
                    [n \in 1 .. 4 |-> [snr |-> snrs[n], cmd |-> Command("get", Kinds[n], <<>>),
                                       late |-> FALSE]]
             /\ toClient' = Outdated(toClient)
    ELSE /\ expired' = isExpired
         /\ UNCHANGED <<msgId, netVars>>

StateConnected ==
    /\ ~connected
    /\ connected' = TRUE
    /\ RequestValues(FALSE)
    /\ timerOn' = TRUE
    /\ UNCHANGED <<timeMode, shown, combo, countVars>>

\* Answers that have not arrived are lost with the connection, and so are commands that have
\* not left.
StateUnconnected ==
    /\ connected /\ faults < MaxFaults
    /\ faults' = faults + 1
    /\ connected' = FALSE
    /\ timerOn' = FALSE
    /\ toClient' = <<>>
    /\ \E n \in 0 .. Len(toServer) : toServer' = SubSeq(toServer, 1, n)
    /\ UNCHANGED <<timeMode, expired, msgId, shown, combo, events>>

Timeout ==
    /\ timerOn
    /\ RequestValues(expired)
    /\ UNCHANGED <<timeMode, connected, timerOn, shown, combo, countVars>>

\* A second passes, with every answer that was to come or before it.
Outstanding ==
    \/ \E i \in DOMAIN toServer : ~toServer[i].late
    \/ \E i \in DOMAIN toClient : ~toClient[i].late
SecondPasses ==
    /\ ~expired
    /\ expired' = TRUE
    /\ IF Outstanding THEN faults < MaxFaults /\ faults' = faults + 1 ELSE UNCHANGED faults
    /\ UNCHANGED <<timeMode, netVars, connected, timerOn, msgId, shown, combo, events>>

Usable(m) == m.isReply /\ m.parses /\ m.word # "ACK" /\ m.errorCode = 0

\* The first field, in this order, with this number; 0 is the number of those that wait for nothing.
Has(n, snr) == msgId[Kinds[n]] = snr
FirstWith(snr) == CHOOSE n \in 1 .. 4 : Has(n, snr) /\ \A p \in 1 .. n - 1 : ~Has(p, snr)

\* messageReceived(): the field that waits for this number takes the answer, whoever sent it.
MessageReceived(m) ==
    IF Usable(m) /\ \E n \in 1 .. 4 : Has(n, m.snr)
    THEN LET k == Kinds[FirstWith(m.snr)]
         IN  /\ msgId' = [msgId EXCEPT ![k] = 0]
             /\ shown' = [shown EXCEPT ![k] = IF m.late THEN "late" ELSE m.word]
             /\ combo' = IF k # "mode" THEN combo
                         ELSE IF m.word \in Modes THEN m.word ELSE "nothing"
    ELSE UNCHANGED <<msgId, shown, combo>>

ClientReceives ==
    /\ connected /\ toClient # <<>>
    /\ MessageReceived(Head(toClient))
    /\ toClient' = Tail(toClient)
    /\ UNCHANGED <<timeMode, toServer, connected, timerOn, expired, countVars>>

\* What another device sends under any number, 0 included: a command, a reply that cannot be
\* parsed, or a valid reply that nobody asked for.
Foreign(snr, isReply, parses) ==
    [Answer(snr, 0, "foreign", FALSE) EXCEPT !.isReply = isReply, !.parses = parses]
ForeignMessages == {Foreign(snr, b, c) : snr \in Used \cup {0}, b \in BOOLEAN, c \in BOOLEAN}
ClientReceivesOther(m) ==
    /\ connected /\ events < MaxEvents
    /\ events' = events + 1
    /\ MessageReceived(m)
    /\ UNCHANGED <<timeMode, netVars, connected, timerOn, expired, faults>>

\* The user picks a time zone, which the combo box shows at once.  The command is kept while the
\* host is looked up and connected to, and leaves ahead of the requests; it is lost without that,
\* or when the attempt fails.
ComboActivated(mode) ==
    /\ events < MaxEvents
    /\ events' = events + 1
    /\ combo' = mode
    /\ \/ toServer' = Append(toServer, [snr |-> FreshSnrs(1)[1],
                                        cmd |-> Command("set", "mode", <<mode>>), late |-> FALSE])
       \/ ~connected /\ UNCHANGED toServer
    /\ UNCHANGED <<timeMode, toClient, connected, timerOn, expired, msgId, shown, faults>>

Next ==
    \/ ServerReceives
    \/ \E cmd \in OtherCommands : ServerReceivesOther(cmd)
    \/ ServerRestarts \/ ServerReconnects
    \/ StateConnected \/ StateUnconnected \/ Timeout \/ SecondPasses
    \/ ClientReceives
    \/ \E m \in ForeignMessages : ClientReceivesOther(m)
    \/ \E mode \in Modes : ComboActivated(mode)

Spec == Init /\ [][Next]_vars

\* Messages are delivered, the client reconnects, its timer fires and time passes.
FairSpec ==
    /\ Spec
    /\ WF_vars(ServerReceives) /\ WF_vars(ClientReceives) /\ WF_vars(StateConnected)
    /\ WF_vars(Timeout) /\ WF_vars(SecondPasses)

-----------------------------------------------------------------------------
(* The server's answers are shown by the field that asked, for the last time it asked: an ACK,  *)
(* the reply to a set command and the answer to a request that was given up never get there,    *)
(* whatever arrives late.  Only a valid reply that another device sends under the number of a   *)
(* field, or under 0, is taken for one, and only such a one makes the combo box go blank        *)
(* (DcpTimeClient::messageReceived(), requestValues()).                                         *)
FieldsShowTheirAnswers ==
    /\ \A k \in KindSet :
           shown[k] \in {"none", "foreign"} \cup (IF k = "mode" THEN Modes ELSE {k})
    /\ combo \in Modes \/ (combo = "nothing" /\ shown["mode"] = "foreign")

(* When connections hold, answers are in time and nobody changes the mode any more, the combo   *)
(* box comes to show the mode of the server and stays there: after a reply that crossed the     *)
(* choice of the user, after a choice that was lost, after a restart of the server              *)
(* (DcpTimeClient::stateChanged(), requestValues(), DcpTimeServer::messageReceived()).          *)
ComboFollowsServer == <>[](combo = timeMode)
=============================================================================
