--------------------------- MODULE DcpClientProofs ---------------------------
(* Theorems about DcpClient, for any names, numbers and bounds.              *)
EXTENDS DcpClient, SequenceTheorems, TLAPS

-----------------------------------------------------------------------------
(* Types.                                                                    *)

(* The next serial number is a serial number.                                *)
LEMMA NextSnrType ==
    ASSUME NEW n \in Snrs
    PROVE  NextSnr(n) \in Snrs
BY ClientAssumption DEF NextSnr, Snrs, ClientAssumption

(* A message written to the socket keeps the type of the write buffer.       *)
LEMMA WriteType ==
    ASSUME TypeOK, NEW m \in OutMessage, writeMessageToSocket(m)
    PROVE  wbuf' \in Seq(OutMessage)
BY DEF writeMessageToSocket, TypeOK

(* A message the application makes is a message.                             *)
LEMMA MessageType ==
    ASSUME TypeOK, NEW src \in Sources, NEW n \in Snrs, NEW auto \in BOOLEAN
    PROVE  Message(src, n, auto) \in OutMessage
BY DEF Message, OutMessage, TypeOK

(* Messages numbered by hand are messages.                                   *)
LEMMA ByHandType ==
    ASSUME NEW out \in Seq(OutMessage)
    PROVE  ByHand(out) \in Seq(OutMessage)
<1>1. \A i \in 1 .. Len(out) : [out[i] EXCEPT !.auto = FALSE] \in OutMessage
    <2>1. \A i \in 1 .. Len(out) : out[i] \in OutMessage
        OBVIOUS
    <2> QED BY <2>1 DEF OutMessage
<1>2. DOMAIN out = 1 .. Len(out) /\ Len(out) \in Nat
    OBVIOUS
<1> QED BY <1>1, <1>2 DEF ByHand

(* Flushing a buffer splits it into messages sent and messages left.         *)
LEMMA FlushedType ==
    ASSUME NEW out \in Seq(OutMessage), wire \in Seq(OutMessage), Flushed(out)
    PROVE  wire' \in Seq(OutMessage) /\ wbuf' \in Seq(OutMessage)
<1>1. PICK n \in 0 .. Len(out) : /\ wire' = wire \o SubSeq(out, 1, n)
                                 /\ wbuf' = SubSeq(out, n + 1, Len(out))
    BY DEF Flushed
<1>2. n \in Nat /\ n <= Len(out) /\ Len(out) \in Nat
    OBVIOUS
<1>3. SubSeq(out, 1, n) \in Seq(OutMessage)
    BY <1>2, SubSeqProperties
<1>4. SubSeq(out, n + 1, Len(out)) \in Seq(OutMessage)
    BY <1>2, SubSeqProperties
<1> QED BY <1>1, <1>3, <1>4

(* A change of the state of the socket keeps the types of state and timer.   *)
LEMMA StateChangedType ==
    ASSUME NEW new \in SocketStates, NEW requested, SocketStateChanged(new, requested)
    PROVE  sockState' \in SocketStates /\ timerActive' \in BOOLEAN
BY DEF SocketStateChanged

(* connectToHost() keeps the types of what it changes.                       *)
LEMMA ConnectToHostType ==
    ASSUME TypeOK, NEW requested, connectToHost(requested)
    PROVE  /\ sockState' \in SocketStates /\ timerActive' \in BOOLEAN
           /\ pendingClose' \in BOOLEAN
           /\ wbuf' \in Seq(OutMessage) /\ wire' \in Seq(OutMessage)
           /\ calls' \in Nat
           /\ rx' \in Seq(InCut)
<1>1. CASE sockState # "unconnected"
    BY <1>1 DEF connectToHost, connection, TypeOK
<1>2. CASE sockState = "unconnected"
    <2>1. sockState' \in SocketStates /\ timerActive' \in BOOLEAN
        BY <1>2, StateChangedType DEF connectToHost, SocketStates
    <2>2. <<>> \in Seq(OutMessage) /\ <<>> \in Seq(InCut)
        OBVIOUS
    <2>3. wbuf' = <<>> /\ wire' = <<>> /\ rx' = <<>>
        BY <1>2 DEF connectToHost
    <2>4. pendingClose' \in BOOLEAN
        BY <1>2, Zenon DEF connectToHost
    <2>5. calls' \in Nat
        BY <1>2 DEF connectToHost
    <2>6. /\ wbuf' \in Seq(OutMessage) /\ wire' \in Seq(OutMessage)
          /\ rx' \in Seq(InCut)
        BY <2>2, <2>3
    <2> QED BY <2>1, <2>4, <2>5, <2>6
<1> QED BY <1>1, <1>2

(* Every action keeps the types.                                             *)
LEMMA TypeStep ==
    ASSUME TypeOK, [Next]_vars
    PROVE  TypeOK'
<1> USE DEF TypeOK, connection, request, output, input
<1>1. ASSUME NEW n \in DeviceNames, connectToServer(n)
      PROVE  TypeOK'
    BY <1>1, ConnectToHostType DEF connectToServer, Sources
<1>2. ASSUME disconnectFromServer
      PROVE  TypeOK'
    BY <1>2 DEF disconnectFromServer, disconnectFromHost, SocketStateChanged, SocketStates
<1>3. ASSUME NEW n \in UserSnrs, setNextSnr(n)
      PROVE  TypeOK'
    BY <1>3, ClientAssumption, ByHandType DEF setNextSnr, ClientAssumption
<1>4. ASSUME NEW fits \in BOOLEAN, sendMessage(fits)
      PROVE  TypeOK'
    <2>1. snr' \in Snrs
        BY <1>4, NextSnrType DEF sendMessage
    <2>2. wbuf' \in Seq(OutMessage)
        BY <1>4, WriteType, MessageType DEF sendMessage
    <2> QED BY <1>4, <2>1, <2>2 DEF sendMessage
<1>5. ASSUME NEW raw \in RawMessages, sendRawMessage(raw)
      PROVE  TypeOK'
    <2>1. raw.src \in Sources /\ raw.snr \in Snrs
        BY ClientAssumption DEF ClientAssumption
    <2>2. wbuf' \in Seq(OutMessage)
        BY <1>5, <2>1, WriteType, MessageType DEF sendRawMessage
    <2> QED BY <1>5, <2>2 DEF sendRawMessage
<1>6. ASSUME readMessage
      PROVE  TypeOK'
    <2>1. Tail(inQueue) \in Seq(Nat)
        BY <1>6, HeadTailProperties DEF readMessage
    <2> QED BY <1>6, <2>1 DEF readMessage
<1>7. ASSUME NEW enable \in BOOLEAN, setAutoReconnect(enable)
      PROVE  TypeOK'
    BY <1>7 DEF setAutoReconnect
<1>8. ASSUME LookupDone
      PROVE  TypeOK'
    BY <1>8 DEF LookupDone, SocketStateChanged, SocketStates
<1>9. ASSUME AttemptFails
      PROVE  TypeOK'
    BY <1>9 DEF AttemptFails, SocketStateChanged, SocketStates
<1>10. ASSUME Connected
      PROVE  TypeOK'
    <2>1. Helo \in OutMessage
        BY DEF Helo, OutMessage, SocketStates
    <2>2. Append(wbuf, Helo) \in Seq(OutMessage)
        BY <2>1
    <2>3. wire' \in Seq(OutMessage) /\ wbuf' \in Seq(OutMessage)
        BY <1>10, <2>2, FlushedType DEF Connected, registerName
    <2>4. snr' \in Snrs
        BY <1>10, NextSnrType DEF Connected, registerName
    <2>5. sockState' \in SocketStates /\ timerActive' \in BOOLEAN
        BY <1>10 DEF Connected, SocketStateChanged, SocketStates
    <2> QED BY <1>10, <2>3, <2>4, <2>5 DEF Connected
<1>11. ASSUME WriteOut
      PROVE  TypeOK'
    <2>1. Head(wbuf) \in OutMessage /\ Tail(wbuf) \in Seq(OutMessage)
        BY <1>11, HeadTailProperties DEF WriteOut
    <2>2. wire' \in Seq(OutMessage) /\ wbuf' \in Seq(OutMessage)
        BY <1>11, <2>1 DEF WriteOut
    <2>3. sockState' \in SocketStates /\ timerActive' \in BOOLEAN
        BY <1>11, StateChangedType DEF WriteOut, SocketStates
    <2> QED BY <1>11, <2>2, <2>3 DEF WriteOut
<1>12. ASSUME ConnectionLost
      PROVE  TypeOK'
    BY <1>12 DEF ConnectionLost, SocketStateChanged, SocketStates
<1>13. ASSUME MessagesArrive
      PROVE  TypeOK'
    <2>0. PICK n \in 1 .. MaxArrived - arrived : \E first \in [1 .. n -> BOOLEAN] :
              /\ rx' = [i \in 1 .. n |-> [id |-> arrived + i, first |-> first[i]]]
              /\ arrived' = arrived + n
        BY <1>13 DEF MessagesArrive
    <2>1. PICK first \in [1 .. n -> BOOLEAN] :
              /\ rx' = [i \in 1 .. n |-> [id |-> arrived + i, first |-> first[i]]]
              /\ arrived' = arrived + n
        BY <2>0
    <2>2. n \in Nat /\ \A i \in 1 .. n : [id |-> arrived + i, first |-> first[i]] \in InCut
        BY ClientAssumption DEF ClientAssumption, InCut
    <2>3. rx' \in Seq(InCut)
        BY <2>1, <2>2
    <2> QED BY <1>13, <2>1, <2>2, <2>3 DEF MessagesArrive
<1>14. ASSUME readNextMessageFromSocket
      PROVE  TypeOK'
    <2>1. Head(rx) \in InCut /\ Tail(rx) \in Seq(InCut)
        BY <1>14, HeadTailProperties DEF readNextMessageFromSocket
    <2>2. inQueue' \in Seq(Nat)
        BY <1>14, <2>1 DEF readNextMessageFromSocket, InCut
    <2> QED BY <1>14, <2>1, <2>2 DEF readNextMessageFromSocket
<1>15. ASSUME AutoReconnectTimeout
      PROVE  TypeOK'
    BY <1>15, ConnectToHostType DEF AutoReconnectTimeout
<1>16. ASSUME UNCHANGED vars
      PROVE  TypeOK'
    BY <1>16 DEF vars
<1> QED
    BY <1>1, <1>2, <1>3, <1>4, <1>5, <1>6, <1>7, <1>8, <1>9, <1>10, <1>11, <1>12, <1>13, <1>14, <1>15, <1>16
    DEF Next, Application, Socket

LEMMA InitType == Init => TypeOK
<1> SUFFICES ASSUME Init PROVE TypeOK
    OBVIOUS
<1>1. 0 \in Snrs
    BY ClientAssumption DEF Snrs, ClientAssumption
<1>2. <<>> \in Seq(OutMessage) /\ <<>> \in Seq(InCut) /\ <<>> \in Seq(Nat)
    OBVIOUS
<1> QED BY <1>1, <1>2 DEF Init, TypeOK, SocketStates, Sources

(* The variables of the client keep their types.                             *)
THEOREM TypeCorrectness == Spec => []TypeOK
BY InitType, TypeStep, PTL DEF Spec

-----------------------------------------------------------------------------
(* The reconnect timer.                                                      *)

(* Whatever the client does leaves the timer as it has to be.                *)
LEMMA TimerStep ==
    ASSUME TypeOK, TimerRunsWhenNeeded, [Next]_vars
    PROVE  TimerRunsWhenNeeded' /\ (~timerActive /\ timerActive' => connectionRequested')
<1> DEFINE Kept == TimerRunsWhenNeeded' /\ (~timerActive /\ timerActive' => connectionRequested')
<1>1. ASSUME NEW new \in SocketStates, SocketStateChanged(new, connectionRequested'),
             UNCHANGED autoReconnect
      PROVE  Kept
    BY <1>1 DEF SocketStateChanged, ReconnectWanted, TimerRunsWhenNeeded, TypeOK
<1>2. ASSUME UNCHANGED <<sockState, timerActive, autoReconnect>>,
             connectionRequested' => connectionRequested \/ sockState # "unconnected"
      PROVE  Kept
    BY <1>2 DEF TimerRunsWhenNeeded
<1>3. ASSUME NEW enable \in BOOLEAN, setAutoReconnect(enable)
      PROVE  Kept
    BY <1>3 DEF setAutoReconnect, TimerRunsWhenNeeded, TypeOK
<1> USE DEF SocketStates
<1> HIDE DEF Kept
<1>4. ASSUME NEW n \in DeviceNames, connectToServer(n)
      PROVE  Kept
    BY <1>1, <1>2, <1>4 DEF connectToServer, connectToHost, connection
<1>5. ASSUME disconnectFromServer
      PROVE  Kept
    BY <1>1, <1>2, <1>5 DEF disconnectFromServer, disconnectFromHost, connection
<1>6. ASSUME LookupDone \/ AttemptFails \/ ConnectionLost
      PROVE  Kept
    BY <1>1, <1>6 DEF LookupDone, AttemptFails, ConnectionLost, request
<1>7. ASSUME Connected
      PROVE  Kept
    BY <1>1, <1>7 DEF Connected, request
<1>8. ASSUME WriteOut
      PROVE  Kept
    BY <1>1, <1>2, <1>8 DEF WriteOut, request
<1>9. ASSUME AutoReconnectTimeout
      PROVE  Kept
    BY <1>1, <1>2, <1>9 DEF AutoReconnectTimeout, connectToHost, connection, request
<1>10. ASSUME UNCHANGED <<connection, request>>
      PROVE  Kept
    BY <1>2, <1>10 DEF connection, request
<1>11. ASSUME \/ \E n \in UserSnrs : setNextSnr(n)
              \/ \E fits \in BOOLEAN : sendMessage(fits)
              \/ \E raw \in RawMessages : sendRawMessage(raw)
              \/ readMessage
              \/ MessagesArrive
              \/ readNextMessageFromSocket
              \/ UNCHANGED vars
      PROVE  UNCHANGED <<connection, request>>
    BY <1>11 DEF setNextSnr, sendMessage, sendRawMessage, readMessage, MessagesArrive,
                 readNextMessageFromSocket, vars
<1>12. Kept
    BY <1>3, <1>4, <1>5, <1>6, <1>7, <1>8, <1>9, <1>10, <1>11
       DEF Next, Application, Socket
<1> QED BY <1>12 DEF Kept

(* The timer runs exactly when a requested connection is down, whatever the  *)
(* order in which the application and the socket act.                        *)
THEOREM TimerIsRight == Spec => []TimerRunsWhenNeeded
<1>1. Init => TimerRunsWhenNeeded
    BY DEF Init, TimerRunsWhenNeeded
<1>2. TypeOK /\ TimerRunsWhenNeeded /\ [Next]_vars => TimerRunsWhenNeeded'
    BY TimerStep
<1> QED BY <1>1, <1>2, TypeCorrectness, PTL DEF Spec

(* The timer is only ever started for a connection that is asked for.        *)
THEOREM TimerFollowsRequest == Spec => TimerStartsOnRequest
<1>1. TypeOK /\ TimerRunsWhenNeeded /\ [Next]_vars =>
          [~timerActive /\ timerActive' => connectionRequested']_vars
    BY TimerStep
<1> QED BY <1>1, TypeCorrectness, TimerIsRight, PTL DEF Spec, TimerStartsOnRequest

-----------------------------------------------------------------------------
(* Reading.  What the client cuts is numbered as it arrives: the queue       *)
(* and the read buffer are in that order, one behind the other, and hold no  *)
(* number that has not been given yet.                                       *)
OrderInv ==
    /\ \A i, j \in 1 .. Len(inQueue) : i < j => inQueue[i] < inQueue[j]
    /\ \A i, j \in 1 .. Len(rx) : i < j => rx[i].id < rx[j].id
    /\ \A i \in 1 .. Len(inQueue), j \in 1 .. Len(rx) : inQueue[i] < rx[j].id
    /\ \A i \in 1 .. Len(inQueue) : inQueue[i] <= arrived
    /\ \A i \in 1 .. Len(rx) : rx[i].id <= arrived

(* The invariant is what the property says of the two behind each other.     *)
LEMMA OrderInvSuffices ==
    ASSUME TypeOK, OrderInv
    PROVE  ReceivedInOrder
<1> DEFINE late == [i \in DOMAIN rx |-> rx[i].id]
           ids == inQueue \o late
<1>1. inQueue \in Seq(Nat) /\ rx \in Seq(InCut)
    BY DEF TypeOK
<1>2. DOMAIN rx = 1 .. Len(rx) /\ Len(rx) \in Nat /\ Len(inQueue) \in Nat
    BY <1>1
<1>3. \A i \in 1 .. Len(rx) : rx[i].id \in Nat
    <2>1. \A i \in 1 .. Len(rx) : rx[i] \in InCut
        BY <1>1
    <2> QED BY <2>1 DEF InCut
<1>4. late \in Seq(Nat) /\ Len(late) = Len(rx)
    BY <1>2, <1>3
<1>5. /\ DOMAIN ids = 1 .. Len(inQueue) + Len(rx)
      /\ \A i \in 1 .. Len(inQueue) : ids[i] = inQueue[i]
      /\ \A i \in 1 .. Len(rx) : ids[Len(inQueue) + i] = rx[i].id
    BY <1>1, <1>2, <1>4
<1>6. ASSUME NEW i \in DOMAIN ids, NEW j \in DOMAIN ids, i < j
      PROVE  ids[i] < ids[j]
    <2>1. CASE j <= Len(inQueue)
        BY <1>2, <1>5, <1>6, <2>1 DEF OrderInv
    <2>2. CASE i <= Len(inQueue) /\ j > Len(inQueue)
        <3>1. j - Len(inQueue) \in 1 .. Len(rx) /\ i \in 1 .. Len(inQueue)
            BY <1>2, <1>5, <2>2
        <3>2. ids[j] = rx[j - Len(inQueue)].id
            BY <1>2, <1>5, <3>1
        <3> QED BY <1>5, <3>1, <3>2 DEF OrderInv
    <2>3. CASE i > Len(inQueue)
        <3>1. /\ i - Len(inQueue) \in 1 .. Len(rx) /\ j - Len(inQueue) \in 1 .. Len(rx)
              /\ i - Len(inQueue) < j - Len(inQueue)
            BY <1>2, <1>5, <1>6, <2>3
        <3>2. ids[i] = rx[i - Len(inQueue)].id /\ ids[j] = rx[j - Len(inQueue)].id
            BY <1>2, <1>5, <3>1
        <3> QED BY <3>1, <3>2 DEF OrderInv
    <2> QED BY <1>2, <1>5, <2>1, <2>2, <2>3
<1> QED BY <1>6 DEF ReceivedInOrder

(* A read buffer that is emptied leaves the rest in order.                   *)
LEMMA OrderWithoutPackets ==
    ASSUME OrderInv, UNCHANGED <<inQueue, arrived>>, rx' = rx \/ rx' = <<>>
    PROVE  OrderInv'
<1>1. CASE rx' = rx
    BY <1>1 DEF OrderInv
<1>2. CASE rx' = <<>>
    BY <1>2 DEF OrderInv
<1> QED BY <1>1, <1>2

(* Every action keeps the order.                                             *)
LEMMA OrderStep ==
    ASSUME TypeOK, OrderInv, [Next]_vars
    PROVE  OrderInv'
<1>1. ASSUME readMessage
      PROVE  OrderInv'
    <2>1. /\ inQueue \in Seq(Nat) /\ inQueue # <<>> /\ inQueue' = Tail(inQueue)
          /\ UNCHANGED <<rx, arrived>>
        BY <1>1 DEF readMessage, TypeOK
    <2>2. /\ Len(inQueue') = Len(inQueue) - 1 /\ Len(inQueue) \in Nat
          /\ \A i \in 1 .. Len(inQueue') : inQueue'[i] = inQueue[i + 1]
        BY <2>1
    <2> QED BY <2>1, <2>2 DEF OrderInv
<1>2. ASSUME MessagesArrive
      PROVE  OrderInv'
    <2>0. PICK n \in 1 .. MaxArrived - arrived : \E first \in [1 .. n -> BOOLEAN] :
              /\ rx' = [i \in 1 .. n |-> [id |-> arrived + i, first |-> first[i]]]
              /\ arrived' = arrived + n
        BY <1>2 DEF MessagesArrive
    <2>1. PICK first \in [1 .. n -> BOOLEAN] :
              /\ rx' = [i \in 1 .. n |-> [id |-> arrived + i, first |-> first[i]]]
              /\ arrived' = arrived + n
        BY <2>0
    <2>2. n \in Nat /\ arrived \in Nat /\ inQueue \in Seq(Nat) /\ inQueue' = inQueue
        BY <1>2, ClientAssumption DEF MessagesArrive, TypeOK, ClientAssumption
    <2>3. Len(rx') = n /\ \A i \in 1 .. n : rx'[i].id = arrived + i
        BY <2>1, <2>2
    <2>4. \A i \in 1 .. Len(inQueue) : inQueue[i] \in Nat /\ inQueue[i] <= arrived
        BY <2>2 DEF OrderInv
    <2> QED BY <2>1, <2>2, <2>3, <2>4 DEF OrderInv
<1>3. ASSUME readNextMessageFromSocket
      PROVE  OrderInv'
    <2>1. /\ inQueue \in Seq(Nat) /\ rx \in Seq(InCut) /\ rx # <<>>
          /\ rx' = Tail(rx) /\ UNCHANGED arrived
        BY <1>3 DEF readNextMessageFromSocket, TypeOK
    <2>2. /\ Len(rx) \in Nat \ {0} /\ Len(inQueue) \in Nat
          /\ Len(rx') = Len(rx) - 1 /\ \A i \in 1 .. Len(rx') : rx'[i] = rx[i + 1]
          /\ Head(rx) = rx[1] /\ rx[1] \in InCut
        BY <2>1
    <2>3. CASE inQueue' = inQueue
        BY <2>1, <2>2, <2>3 DEF OrderInv
    <2>4. CASE inQueue' = Append(inQueue, rx[1].id)
        <3>1. /\ Len(inQueue') = Len(inQueue) + 1
              /\ \A i \in 1 .. Len(inQueue) : inQueue'[i] = inQueue[i]
              /\ inQueue'[Len(inQueue) + 1] = rx[1].id
            BY <2>1, <2>2, <2>4 DEF InCut
        <3>2. \A i \in 1 .. Len(rx') : rx[1].id < rx'[i].id
            BY <2>2 DEF OrderInv
        <3>3. \A i, j \in 1 .. Len(inQueue') : i < j => inQueue'[i] < inQueue'[j]
            BY <2>2, <3>1 DEF OrderInv
        <3>4. \A i \in 1 .. Len(inQueue'), j \in 1 .. Len(rx') : inQueue'[i] < rx'[j].id
            BY <2>2, <3>1, <3>2 DEF OrderInv
        <3>5. \A i \in 1 .. Len(inQueue') : inQueue'[i] <= arrived'
            <4>1. rx[1].id <= arrived /\ \A i \in 1 .. Len(inQueue) : inQueue[i] <= arrived
                BY <2>2 DEF OrderInv
            <4>2. \A i \in 1 .. Len(inQueue') : i \in 1 .. Len(inQueue) \/ i = Len(inQueue) + 1
                BY <2>2, <3>1
            <4> QED BY <2>1, <3>1, <4>1, <4>2
        <3>6. /\ \A i, j \in 1 .. Len(rx') : i < j => rx'[i].id < rx'[j].id
              /\ \A i \in 1 .. Len(rx') : rx'[i].id <= arrived'
            BY <2>1, <2>2 DEF OrderInv
        <3> QED BY <3>3, <3>4, <3>5, <3>6 DEF OrderInv
    <2> QED BY <1>3, <2>2, <2>3, <2>4 DEF readNextMessageFromSocket
<1>4. ASSUME \/ \E n \in DeviceNames : connectToServer(n)
             \/ AutoReconnectTimeout
      PROVE  OrderInv'
    BY <1>4, OrderWithoutPackets DEF connectToServer, AutoReconnectTimeout, connectToHost
<1>5. ASSUME UNCHANGED input
      PROVE  OrderInv'
    BY <1>5, OrderWithoutPackets DEF input
<1>6. ASSUME \/ disconnectFromServer
             \/ \E n \in UserSnrs : setNextSnr(n)
             \/ \E fits \in BOOLEAN : sendMessage(fits)
             \/ \E raw \in RawMessages : sendRawMessage(raw)
             \/ \E enable \in BOOLEAN : setAutoReconnect(enable)
             \/ LookupDone \/ AttemptFails \/ Connected \/ WriteOut \/ ConnectionLost
             \/ UNCHANGED vars
      PROVE  UNCHANGED input
    BY <1>6 DEF disconnectFromServer, setNextSnr, sendMessage, sendRawMessage, setAutoReconnect,
                LookupDone, AttemptFails, Connected, WriteOut, ConnectionLost, vars
<1> QED BY <1>1, <1>2, <1>3, <1>4, <1>5, <1>6 DEF Next, Application, Socket

(* The application reads messages in the order they arrived and none twice,  *)
(* however connections end, are lost and made again while messages wait.     *)
THEOREM MessagesStayInOrder == Spec => []ReceivedInOrder
<1>1. Init => OrderInv
    BY DEF Init, OrderInv
<1>2. TypeOK /\ OrderInv /\ [Next]_vars => OrderInv'
    BY OrderStep
<1>3. TypeOK /\ OrderInv => ReceivedInOrder
    BY OrderInvSuffices
<1> QED BY <1>1, <1>2, <1>3, TypeCorrectness, PTL DEF Spec

-----------------------------------------------------------------------------
(* Writing.  Before the connection is up nothing written is a registration   *)
(* or counts as written on the connection; afterwards there is one           *)
(* registration and nothing that counts is in front of it.                   *)
Live == {"connected", "closing"}
Early(out) == \A j \in 1 .. Len(out) : out[j].kind # "HELO" /\ out[j].writtenIn \notin Live
HasHelo(out) == \E i \in 1 .. Len(out) : out[i].kind = "HELO"
HeloLeads(out) ==
    \A i, j \in 1 .. Len(out) :
        out[i].kind = "HELO" /\ (out[j].kind = "HELO" \/ out[j].writtenIn \in Live) => i <= j

RegInv ==
    /\ sockState \in Live => HasHelo(Output)
    /\ sockState \in {"hostlookup", "connecting"} => Early(Output)
    /\ HeloLeads(Output)

(* What was written and what waits is a sequence of messages.                *)
LEMMA OutputType ==
    ASSUME TypeOK
    PROVE  /\ Output \in Seq(OutMessage) /\ DOMAIN Output = 1 .. Len(Output)
           /\ wire \in Seq(OutMessage) /\ wbuf \in Seq(OutMessage)
<1>1. wire \in Seq(OutMessage) /\ wbuf \in Seq(OutMessage)
    BY DEF TypeOK
<1>2. Output \in Seq(OutMessage)
    BY <1>1 DEF Output
<1> QED BY <1>1, <1>2

(* The invariant is the property, and more.                                  *)
LEMMA RegInvSuffices ==
    ASSUME TypeOK, RegInv
    PROVE  RegistersFirst
<1>1. DOMAIN Output = 1 .. Len(Output)
    BY OutputType
<1>2. sockState \in Live => \E i \in DOMAIN Output : Output[i].kind = "HELO"
    BY <1>1 DEF RegInv, HasHelo
<1>3. HeloLeads(Output)
    BY DEF RegInv
<1> QED BY <1>1, <1>2, <1>3 DEF RegistersFirst, HeloLeads, Live

(* Flushing moves the border between what was written and what waits.        *)
LEMMA FlushKeeps ==
    ASSUME NEW out \in Seq(OutMessage), wire \in Seq(OutMessage), Flushed(out)
    PROVE  Output' = wire \o out
<1>1. PICK n \in 0 .. Len(out) : /\ wire' = wire \o SubSeq(out, 1, n)
                                 /\ wbuf' = SubSeq(out, n + 1, Len(out))
    BY DEF Flushed
<1>2. n \in Nat /\ n <= Len(out) /\ Len(out) \in Nat
    OBVIOUS
<1>3. SubSeq(out, 1, n) \in Seq(OutMessage) /\ SubSeq(out, n + 1, Len(out)) \in Seq(OutMessage)
    BY <1>2, SubSeqProperties
<1>4. SubSeq(out, 1, n) \o SubSeq(out, n + 1, Len(out)) = out
    <2>1. 1 \in 1 .. Len(out) + 1 /\ n \in 1 - 1 .. Len(out) /\ Len(out) \in n .. Len(out)
        BY <1>2
    <2>2. SubSeq(out, 1, n) \o SubSeq(out, n + 1, Len(out)) = SubSeq(out, 1, Len(out))
        BY <2>1, ConcatAdjacentSubSeq, Zenon
    <2>3. SubSeq(out, 1, Len(out)) = out
        BY SubSeqFull, Zenon
    <2> QED BY <2>2, <2>3
<1>5. Output' = (wire \o SubSeq(out, 1, n)) \o SubSeq(out, n + 1, Len(out))
    BY <1>1 DEF Output
<1>6. Output' = wire \o (SubSeq(out, 1, n) \o SubSeq(out, n + 1, Len(out)))
    <2>1. (wire \o SubSeq(out, 1, n)) \o SubSeq(out, n + 1, Len(out))
              = wire \o (SubSeq(out, 1, n) \o SubSeq(out, n + 1, Len(out)))
        <3>1. ASSUME NEW s \in Seq(OutMessage), NEW u \in Seq(OutMessage), NEW v \in Seq(OutMessage)
              PROVE  (s \o u) \o v = s \o (u \o v)
            OBVIOUS
        <3> QED BY <1>3, <3>1, Zenon
    <2> QED BY <1>5, <2>1
<1> QED BY <1>4, <1>6

(* So does a message that leaves the write buffer.                           *)
LEMMA WriteOutKeeps ==
    ASSUME TypeOK, WriteOut
    PROVE  Output' = Output
<1>1. wire \in Seq(OutMessage) /\ wbuf \in Seq(OutMessage) /\ wbuf # <<>>
    BY OutputType DEF WriteOut
<1>2. Output' = Append(wire, Head(wbuf)) \o Tail(wbuf)
    BY DEF WriteOut, Output
<1> QED BY <1>1, <1>2 DEF Output

(* A message that enters the write buffer comes last.                        *)
LEMMA AppendGoesLast ==
    ASSUME TypeOK, NEW m \in OutMessage
    PROVE  wire \o Append(wbuf, m) = Append(Output, m)
BY OutputType DEF Output

(* The message of an application may come last at any time: before the       *)
(* connection is up it does not count, and then the registration is there.   *)
LEMMA MessageLast ==
    ASSUME TypeOK, RegInv, NEW m \in OutMessage, m.kind = "message",
           m.writtenIn = sockState, sockState # "unconnected",
           Output' = Append(Output, m), sockState' = sockState
    PROVE  RegInv'
<1> DEFINE n == Len(Output)
<1>1. /\ Output \in Seq(OutMessage) /\ n \in Nat /\ Len(Output') = n + 1
      /\ \A i \in 1 .. n : Output'[i] = Output[i]
      /\ Output'[n + 1] = m
    BY OutputType
<1>2. \A i \in 1 .. n + 1 : i \in 1 .. n \/ i = n + 1
    BY <1>1
<1> HIDE DEF n
<1>3. sockState \in Live => HasHelo(Output')
    BY <1>1, <1>2 DEF RegInv, HasHelo, n
<1>4. sockState \in {"hostlookup", "connecting"} => Early(Output')
    BY <1>1, <1>2 DEF RegInv, Early, Live, n
<1>5. HeloLeads(Output')
    <2>1. ASSUME NEW i \in 1 .. n + 1, NEW j \in 1 .. n + 1, Output'[i].kind = "HELO",
                 Output'[j].kind = "HELO" \/ Output'[j].writtenIn \in Live
          PROVE  i <= j
        <3>1. i \in 1 .. n
            BY <1>1, <1>2, <2>1
        <3>2. CASE j = n + 1
            BY <1>1, <3>1, <3>2
        <3>3. CASE j \in 1 .. n
            <4>1. HeloLeads(Output)
                BY DEF RegInv
            <4> QED BY <1>1, <2>1, <3>1, <3>3, <4>1 DEF HeloLeads, n
        <3> QED BY <1>2, <3>2, <3>3
    <2> QED BY <1>1, <2>1 DEF HeloLeads
<1> QED BY <1>3, <1>4, <1>5 DEF RegInv

(* The state of the socket moves on and what it was given stays.             *)
LEMMA SameOutput ==
    ASSUME RegInv, Output' = Output,
           \/ sockState' = sockState
           \/ sockState' = "unconnected"
           \/ sockState = "hostlookup" /\ sockState' = "connecting"
           \/ sockState \in Live /\ sockState' \in Live
    PROVE  RegInv'
BY DEF RegInv, Live

(* connectToHost() starts with nothing written, or does nothing.             *)
LEMMA ConnectReg ==
    ASSUME RegInv, NEW requested, connectToHost(requested)
    PROVE  RegInv'
<1>1. CASE sockState # "unconnected"
    <2>1. sockState' = sockState /\ Output' = Output
        BY <1>1 DEF connectToHost, connection, Output
    <2> QED BY <2>1, SameOutput
<1>2. CASE sockState = "unconnected"
    <2>1. sockState' = "hostlookup" /\ Output' = <<>>
        BY <1>2 DEF connectToHost, SocketStateChanged, Output
    <2> QED BY <2>1 DEF RegInv, HasHelo, Early, HeloLeads, Live
<1> QED BY <1>1, <1>2

(* Numbering by hand leaves kind and place of every message.                 *)
LEMMA ByHandKeeps ==
    ASSUME TypeOK, NEW number \in UserSnrs, setNextSnr(number)
    PROVE  /\ Len(Output') = Len(Output)
           /\ \A i \in 1 .. Len(Output) : /\ Output'[i].kind = Output[i].kind
                                           /\ Output'[i].writtenIn = Output[i].writtenIn
<1>1. wire \in Seq(OutMessage) /\ wbuf \in Seq(OutMessage)
    BY OutputType
<1>2. ASSUME NEW out \in Seq(OutMessage)
      PROVE  /\ ByHand(out) \in Seq(OutMessage) /\ Len(ByHand(out)) = Len(out)
             /\ \A i \in 1 .. Len(out) : /\ ByHand(out)[i].kind = out[i].kind
                                         /\ ByHand(out)[i].writtenIn = out[i].writtenIn
    <2>1. \A i \in 1 .. Len(out) : out[i] \in OutMessage
        BY <1>2
    <2>2. ByHand(out) = [i \in 1 .. Len(out) |-> [out[i] EXCEPT !.auto = FALSE]]
        BY <1>2 DEF ByHand
    <2>3. ByHand(out) \in Seq(OutMessage)
        BY <1>2, ByHandType
    <2> QED BY <1>2, <2>1, <2>2, <2>3 DEF OutMessage
<1>3. Output' = ByHand(wire) \o ByHand(wbuf)
    BY DEF setNextSnr, Output
<1>4. /\ ByHand(wire) \in Seq(OutMessage) /\ ByHand(wbuf) \in Seq(OutMessage)
      /\ Len(ByHand(wire)) = Len(wire) /\ Len(ByHand(wbuf)) = Len(wbuf)
    BY <1>1, <1>2
<1>5. /\ Len(Output') = Len(wire) + Len(wbuf) /\ Len(Output) = Len(wire) + Len(wbuf)
      /\ Len(wire) \in Nat /\ Len(wbuf) \in Nat
    BY <1>1, <1>3, <1>4 DEF Output
<1>6. ASSUME NEW i \in 1 .. Len(Output)
      PROVE  Output'[i].kind = Output[i].kind /\ Output'[i].writtenIn = Output[i].writtenIn
    <2>1. CASE i <= Len(wire)
        <3>1. i \in 1 .. Len(wire) /\ Output'[i] = ByHand(wire)[i] /\ Output[i] = wire[i]
            BY <1>1, <1>3, <1>4, <1>5, <2>1 DEF Output
        <3> QED BY <1>1, <1>2, <3>1
    <2>2. CASE i > Len(wire)
        <3>1. /\ i - Len(wire) \in 1 .. Len(wbuf)
              /\ Output'[i] = ByHand(wbuf)[i - Len(wire)] /\ Output[i] = wbuf[i - Len(wire)]
            BY <1>1, <1>3, <1>4, <1>5, <2>2 DEF Output
        <3> QED BY <1>1, <1>2, <3>1
    <2> QED BY <1>5, <2>1, <2>2
<1> QED BY <1>5, <1>6

(* Every action keeps the registration in front.                             *)
LEMMA RegStep ==
    ASSUME TypeOK, RegInv, [Next]_vars
    PROVE  RegInv'
<1>1. ASSUME Connected
      PROVE  RegInv'
    <2> DEFINE n == Len(Output)
    <2>1. Helo \in OutMessage /\ Helo.kind = "HELO"
        BY DEF Helo, OutMessage, SocketStates, TypeOK
    <2>2. Append(wbuf, Helo) \in Seq(OutMessage)
        BY <2>1, OutputType
    <2>3. Output' = Append(Output, Helo)
        BY <1>1, <2>1, <2>2, FlushKeeps, AppendGoesLast, OutputType DEF Connected, registerName
    <2>4. Early(Output)
        BY <1>1 DEF RegInv, Connected
    <2>5. sockState' \in Live \cup {"unconnected"}
        BY <1>1 DEF Connected, SocketStateChanged, Live, TypeOK
    <2>6. /\ n \in Nat /\ Len(Output') = n + 1
          /\ \A i \in 1 .. n : Output'[i] = Output[i]
          /\ Output'[n + 1] = Helo
        BY <2>1, <2>3, OutputType
    <2>7. \A i \in 1 .. n + 1 : i \in 1 .. n \/ i = n + 1
        BY <2>6
    <2>8. HasHelo(Output')
        BY <2>1, <2>6 DEF HasHelo
    <2>9. HeloLeads(Output')
        BY <2>4, <2>6, <2>7 DEF HeloLeads, Early
    <2> QED BY <2>5, <2>8, <2>9 DEF RegInv, Live
<1>2. ASSUME NEW fits \in BOOLEAN, sendMessage(fits)
      PROVE  RegInv'
    <2> DEFINE m == Message(deviceName, snr, TRUE)
    <2>1. m \in OutMessage /\ m.kind = "message" /\ m.writtenIn = sockState
        BY MessageType DEF Message, TypeOK
    <2>2. sockState' = sockState /\ wire' = wire
        BY <1>2 DEF sendMessage, connection
    <2>3. CASE wbuf' = wbuf
        BY <2>2, <2>3, SameOutput DEF Output
    <2>4. CASE wbuf' = Append(wbuf, m) /\ sockState # "unconnected"
        BY <2>1, <2>2, <2>4, AppendGoesLast, MessageLast DEF Output
    <2> QED BY <1>2, <2>3, <2>4 DEF sendMessage, writeMessageToSocket
<1>3. ASSUME NEW raw \in RawMessages, sendRawMessage(raw)
      PROVE  RegInv'
    <2> DEFINE m == Message(raw.src, raw.snr, FALSE)
    <2>1. raw.src \in Sources /\ raw.snr \in Snrs
        BY ClientAssumption DEF ClientAssumption
    <2>2. m \in OutMessage /\ m.kind = "message" /\ m.writtenIn = sockState
        BY <2>1, MessageType DEF Message
    <2>3. sockState' = sockState /\ wire' = wire
        BY <1>3 DEF sendRawMessage, connection
    <2>4. CASE wbuf' = wbuf
        BY <2>3, <2>4, SameOutput DEF Output
    <2>5. CASE wbuf' = Append(wbuf, m) /\ sockState # "unconnected"
        BY <2>2, <2>3, <2>5, AppendGoesLast, MessageLast DEF Output
    <2> QED BY <1>3, <2>4, <2>5 DEF sendRawMessage, writeMessageToSocket
<1>4. ASSUME NEW number \in UserSnrs, setNextSnr(number)
      PROVE  RegInv'
    <2>1. /\ Len(Output') = Len(Output)
          /\ \A i \in 1 .. Len(Output) : /\ Output'[i].kind = Output[i].kind
                                          /\ Output'[i].writtenIn = Output[i].writtenIn
        BY <1>4, ByHandKeeps
    <2>2. sockState' = sockState
        BY <1>4 DEF setNextSnr, connection
    <2> QED BY <2>1, <2>2 DEF RegInv, HasHelo, Early, HeloLeads
<1>5. ASSUME WriteOut
      PROVE  RegInv'
    <2>1. Output' = Output
        BY <1>5, WriteOutKeeps
    <2>2. sockState' \in {sockState, "unconnected"}
        BY <1>5 DEF WriteOut, SocketStateChanged
    <2> QED BY <2>1, <2>2, SameOutput
<1>6. ASSUME \/ \E n \in DeviceNames : connectToServer(n)
             \/ AutoReconnectTimeout
      PROVE  RegInv'
    BY <1>6, ConnectReg DEF connectToServer, AutoReconnectTimeout
<1>7. ASSUME disconnectFromServer \/ LookupDone \/ AttemptFails \/ ConnectionLost
      PROVE  RegInv'
    <2>1. Output' = Output
        BY <1>7 DEF disconnectFromServer, LookupDone, AttemptFails, ConnectionLost, output, Output
    <2>2. \/ sockState' = sockState
          \/ sockState' = "unconnected"
          \/ sockState = "hostlookup" /\ sockState' = "connecting"
          \/ sockState \in Live /\ sockState' \in Live
        BY <1>7 DEF disconnectFromServer, disconnectFromHost, LookupDone, AttemptFails,
                    ConnectionLost, SocketStateChanged, connection, Live
    <2> QED BY <2>1, <2>2, SameOutput
<1>8. ASSUME \/ readMessage
             \/ \E enable \in BOOLEAN : setAutoReconnect(enable)
             \/ MessagesArrive
             \/ readNextMessageFromSocket
             \/ UNCHANGED vars
      PROVE  RegInv'
    <2>1. Output' = Output /\ sockState' = sockState
        BY <1>8 DEF readMessage, setAutoReconnect, MessagesArrive, readNextMessageFromSocket,
                    vars, connection, output, Output
    <2> QED BY <2>1, SameOutput
<1> QED BY <1>1, <1>2, <1>3, <1>4, <1>5, <1>6, <1>7, <1>8 DEF Next, Application, Socket

(* Every connection is registered once, reconnections included, and nothing  *)
(* that is written once it is up overtakes the registration, whatever the    *)
(* application sends before and however much of it the socket takes at once. *)
THEOREM ConnectionsRegisterFirst == Spec => []RegistersFirst
<1>1. Init => RegInv
    BY DEF Init, RegInv, Output, HasHelo, Early, HeloLeads, Live
<1>2. TypeOK /\ RegInv /\ [Next]_vars => RegInv'
    BY RegStep
<1>3. TypeOK /\ RegInv => RegistersFirst
    BY RegInvSuffices
<1> QED BY <1>1, <1>2, <1>3, TypeCorrectness, PTL DEF Spec

-----------------------------------------------------------------------------
(* Numbering.  What keeps numbers apart across the wrap is how long ago each *)
(* was given: the next number is one that was given, if at all, MaxSnr       *)
(* numbers ago, and a connection has used up no more than its messages and   *)
(* its registration.  Zero, which is never given again, has no age.          *)
Age(number, next) == IF number < next THEN next - number ELSE (next + MaxSnr) - number

Fresh(out, next, used) ==
    \A i \in 1 .. Len(out) :
        out[i].auto => /\ next # 0
                       /\ out[i].snr # 0 => Age(out[i].snr, next) <= used

Distinct(out) ==
    \A i, j \in 1 .. Len(out) :
        out[i].auto /\ out[j].auto /\ out[i].snr = out[j].snr => i = j

Used == calls + (IF HasHelo(Output) THEN 1 ELSE 0)

SnrInv ==
    /\ calls <= MaxCalls
    /\ Distinct(Output)
    /\ Fresh(Output, snr, Used)

(* A number that is taken makes those given before it one older, and it was  *)
(* none of them.                                                             *)
LEMMA NumberTaken ==
    ASSUME NEW out \in Seq(OutMessage), NEW next \in Snrs, NEW used \in Nat,
           used < MaxSnr, Fresh(out, next, used)
    PROVE  /\ Fresh(out, NextSnr(next), used + 1)
           /\ \A i \in 1 .. Len(out) : out[i].auto => out[i].snr # next
<1>1. MaxSnr \in Nat /\ MaxSnr > 0 /\ next \in Nat /\ next <= MaxSnr
    BY ClientAssumption DEF ClientAssumption, Snrs
<1>2. NextSnr(next) # 0
    BY <1>1 DEF NextSnr
<1>3. ASSUME NEW i \in 1 .. Len(out), out[i].auto
      PROVE  /\ out[i].snr # next
             /\ out[i].snr # 0 => Age(out[i].snr, NextSnr(next)) <= used + 1
    <2>1. PICK number \in Nat : number = out[i].snr /\ number <= MaxSnr
        <3>1. out[i] \in OutMessage
            OBVIOUS
        <3>2. out[i].snr \in 0 .. MaxSnr
            BY <3>1 DEF OutMessage, Snrs
        <3> QED BY <1>1, <3>2
    <2>2. next # 0 /\ (number # 0 => Age(number, next) <= used)
        BY <1>3, <2>1 DEF Fresh
    <2>3. number # next
        BY <1>1, <2>2 DEF Age
    <2>4. number # 0 => Age(number, NextSnr(next)) <= used + 1
        BY <1>1, <2>1, <2>2, <2>3 DEF Age, NextSnr
    <2> QED BY <2>1, <2>3, <2>4
<1> QED BY <1>2, <1>3 DEF Fresh

(* A message the client has numbered comes last.                             *)
LEMMA NumberedLast ==
    ASSUME NEW out \in Seq(OutMessage), NEW next \in Snrs, NEW used \in Nat,
           used < MaxSnr, Fresh(out, next, used), Distinct(out),
           NEW m \in OutMessage, m.snr = next
    PROVE  Fresh(Append(out, m), NextSnr(next), used + 1) /\ Distinct(Append(out, m))
<1> DEFINE all == Append(out, m)
           n == Len(out)
<1>1. /\ n \in Nat /\ Len(all) = n + 1 /\ all[n + 1] = m
      /\ \A i \in 1 .. n : all[i] = out[i]
    OBVIOUS
<1>2. \A i \in 1 .. n + 1 : i \in 1 .. n \/ i = n + 1
    BY <1>1
<1>3. /\ Fresh(out, NextSnr(next), used + 1)
      /\ \A i \in 1 .. n : out[i].auto => out[i].snr # next
    BY NumberTaken
<1>4. NextSnr(next) # 0 /\ (next # 0 => Age(next, NextSnr(next)) = 1)
    BY ClientAssumption DEF ClientAssumption, Snrs, NextSnr, Age
<1> HIDE DEF all, n
<1>5. Distinct(all)
    <2> SUFFICES ASSUME NEW i \in 1 .. n + 1, NEW j \in 1 .. n + 1,
                        all[i].auto, all[j].auto, all[i].snr = all[j].snr
                 PROVE  i = j
        BY <1>1 DEF Distinct
    <2>1. CASE i \in 1 .. n /\ j \in 1 .. n
        BY <1>1, <2>1 DEF Distinct, n
    <2>2. CASE i = n + 1 /\ j \in 1 .. n
        BY <1>1, <1>3, <2>2
    <2>3. CASE i \in 1 .. n /\ j = n + 1
        BY <1>1, <1>3, <2>3
    <2> QED BY <1>2, <2>1, <2>2, <2>3
<1>6. Fresh(all, NextSnr(next), used + 1)
    <2> SUFFICES ASSUME NEW i \in 1 .. n + 1, all[i].auto
                 PROVE  /\ NextSnr(next) # 0
                        /\ all[i].snr # 0 => Age(all[i].snr, NextSnr(next)) <= used + 1
        BY <1>1 DEF Fresh
    <2>1. CASE i \in 1 .. n
        BY <1>1, <1>3, <2>1 DEF Fresh, n
    <2>2. CASE i = n + 1
        BY <1>1, <1>4, <2>2
    <2> QED BY <1>2, <2>1, <2>2
<1> QED BY <1>5, <1>6 DEF all

(* A message with a number of the application comes last.                    *)
LEMMA ByHandLast ==
    ASSUME NEW out \in Seq(OutMessage), NEW next, NEW used,
           Fresh(out, next, used), Distinct(out), NEW m \in OutMessage, m.auto = FALSE
    PROVE  Fresh(Append(out, m), next, used) /\ Distinct(Append(out, m))
<1>1. /\ Len(out) \in Nat /\ Len(Append(out, m)) = Len(out) + 1
      /\ Append(out, m)[Len(out) + 1] = m
      /\ \A i \in 1 .. Len(out) : Append(out, m)[i] = out[i]
    OBVIOUS
<1>2. \A i \in 1 .. Len(out) + 1 : Append(out, m)[i].auto => i \in 1 .. Len(out)
    BY <1>1
<1> QED BY <1>1, <1>2 DEF Fresh, Distinct

\* More may have been used than was.
LEMMA FreshForMore ==
    ASSUME NEW out \in Seq(OutMessage), NEW next \in Snrs, NEW used \in Nat, NEW more \in Nat,
           used <= more, Fresh(out, next, used)
    PROVE  Fresh(out, next, more)
<1>1. ASSUME NEW i \in 1 .. Len(out)
      PROVE  Age(out[i].snr, next) \in Int
    <2>1. out[i].snr \in Nat /\ next \in Nat /\ MaxSnr \in Nat
        <3>1. out[i] \in OutMessage
            OBVIOUS
        <3>2. out[i].snr \in 0 .. MaxSnr
            BY <3>1 DEF OutMessage, Snrs
        <3> QED BY <3>2, ClientAssumption DEF Snrs, ClientAssumption
    <2> QED BY <2>1 DEF Age
<1> QED BY <1>1 DEF Fresh

\* A message that is no registration does not count as one.
LEMMA HeloByAppend ==
    ASSUME NEW out \in Seq(OutMessage), NEW m \in OutMessage
    PROVE  HasHelo(Append(out, m)) <=> HasHelo(out) \/ m.kind = "HELO"
<1>1. /\ Len(out) \in Nat /\ Len(Append(out, m)) = Len(out) + 1
      /\ Append(out, m)[Len(out) + 1] = m
      /\ \A i \in 1 .. Len(out) : Append(out, m)[i] = out[i]
    OBVIOUS
<1>2. \A i \in 1 .. Len(out) + 1 : i \in 1 .. Len(out) \/ i = Len(out) + 1
    BY <1>1
<1>3. Len(out) + 1 \in 1 .. Len(out) + 1 /\ \A i \in 1 .. Len(out) : i \in 1 .. Len(out) + 1
    BY <1>1
<1> QED BY <1>1, <1>2, <1>3 DEF HasHelo

\* What the application has set a number behind has no number of the client.
LEMMA NothingNumbered ==
    ASSUME TypeOK, NEW number \in UserSnrs, setNextSnr(number)
    PROVE  \A i \in 1 .. Len(Output') : Output'[i].auto = FALSE
<1>1. ASSUME NEW out \in Seq(OutMessage)
      PROVE  /\ ByHand(out) \in Seq(OutMessage)
             /\ \A i \in 1 .. Len(ByHand(out)) : ByHand(out)[i].auto = FALSE
    <2>1. \A i \in 1 .. Len(out) : out[i] \in OutMessage
        BY <1>1
    <2>2. ByHand(out) = [i \in 1 .. Len(out) |-> [out[i] EXCEPT !.auto = FALSE]]
        BY <1>1 DEF ByHand
    <2>3. ByHand(out) \in Seq(OutMessage)
        BY <1>1, ByHandType
    <2> QED BY <1>1, <2>1, <2>2, <2>3 DEF OutMessage
<1>2. PICK sentByHand \in Seq(OutMessage) :
          /\ sentByHand = ByHand(wire)
          /\ \A i \in 1 .. Len(sentByHand) : sentByHand[i].auto = FALSE
    BY <1>1, OutputType
<1>3. PICK heldByHand \in Seq(OutMessage) :
          /\ heldByHand = ByHand(wbuf)
          /\ \A i \in 1 .. Len(heldByHand) : heldByHand[i].auto = FALSE
    BY <1>1, OutputType
<1>4. Output' = sentByHand \o heldByHand
    BY <1>2, <1>3 DEF setNextSnr, Output
<1>5. /\ Len(Output') = Len(sentByHand) + Len(heldByHand)
      /\ Len(sentByHand) \in Nat /\ Len(heldByHand) \in Nat
      /\ \A i \in 1 .. Len(sentByHand) + Len(heldByHand) :
             Output'[i] = IF i <= Len(sentByHand) THEN sentByHand[i]
                          ELSE heldByHand[i - Len(sentByHand)]
    BY <1>4, ConcatProperties
<1>6. ASSUME NEW i \in 1 .. Len(sentByHand) + Len(heldByHand)
      PROVE  Output'[i].auto = FALSE
    <2>1. CASE i <= Len(sentByHand)
        BY <1>2, <1>5, <2>1
    <2>2. CASE ~(i <= Len(sentByHand))
        <3>1. i - Len(sentByHand) \in 1 .. Len(heldByHand)
            BY <1>5, <2>2
        <3> QED BY <1>3, <1>5, <2>2, <3>1
    <2> QED BY <2>1, <2>2
<1> QED BY <1>5, <1>6

(* Every action keeps the numbers apart, as long as a connection needs no    *)
(* more of them than there are.                                              *)
LEMMA SnrStep ==
    ASSUME MaxCalls < MaxSnr, TypeOK, RegInv, SnrInv, [Next]_vars
    PROVE  SnrInv'
<1> USE DEF SnrInv
<1>1. /\ Output \in Seq(OutMessage) /\ snr \in Snrs /\ calls \in Nat
      /\ MaxCalls \in Nat /\ MaxSnr \in Nat
    BY OutputType, ClientAssumption DEF TypeOK, ClientAssumption
<1>2. Used \in Nat /\ Used <= calls + 1
    BY <1>1 DEF Used
<1>3. ASSUME UNCHANGED <<snr, calls>>, Output' = Output
      PROVE  SnrInv'
    BY <1>3 DEF Used
<1>4. ASSUME NEW requested, connectToHost(requested), snr' = snr
      PROVE  SnrInv'
    <2>1. CASE sockState # "unconnected"
        BY <1>3, <1>4, <2>1 DEF connectToHost, Output
    <2>2. CASE sockState = "unconnected"
        <3>1. calls' = 0 /\ Output' = <<>>
            BY <1>4, <2>2 DEF connectToHost, Output
        <3> QED BY <1>1, <3>1 DEF Distinct, Fresh
    <2> QED BY <2>1, <2>2
<1>5. ASSUME Connected
      PROVE  SnrInv'
    <2>1. Helo \in OutMessage /\ Helo.kind = "HELO" /\ Helo.snr = snr
        BY DEF Helo, OutMessage, SocketStates, TypeOK
    <2>2. Append(wbuf, Helo) \in Seq(OutMessage) /\ wire \in Seq(OutMessage)
        BY <2>1, OutputType
    <2>3. Output' = Append(Output, Helo) /\ snr' = NextSnr(snr) /\ calls' = calls
        BY <1>5, <2>1, <2>2, FlushKeeps, AppendGoesLast DEF Connected, registerName
    <2>4. ~HasHelo(Output)
        BY <1>5 DEF RegInv, Early, HasHelo, Connected
    <2>5. Used = calls /\ Used' = calls + 1
        BY <1>1, <2>1, <2>3, <2>4, HeloByAppend DEF Used
    <2>6. Fresh(Output, snr, calls) /\ Distinct(Output) /\ calls < MaxSnr
        BY <1>1, <2>5
    <2>7. Fresh(Output', snr', calls + 1) /\ Distinct(Output')
        BY <1>1, <2>1, <2>3, <2>6, NumberedLast
    <2> QED BY <2>3, <2>5, <2>7
<1>6. ASSUME NEW fits \in BOOLEAN, sendMessage(fits)
      PROVE  SnrInv'
    <2> DEFINE m == Message(deviceName, snr, TRUE)
    <2>1. m \in OutMessage /\ m.kind = "message" /\ m.snr = snr
        BY <1>1, MessageType DEF Message, TypeOK
    <2> HIDE DEF m
    <2>2. /\ calls < MaxCalls /\ calls' = calls + 1 /\ snr' = NextSnr(snr) /\ wire' = wire
          /\ wbuf' = wbuf \/ wbuf' = Append(wbuf, m)
        BY <1>6 DEF sendMessage, writeMessageToSocket, m
    <2>3. Used < MaxSnr /\ calls' <= MaxCalls
        BY <1>1, <1>2, <2>2
    <2>4. CASE wbuf' = wbuf
        <3>1. Output' = Output
            BY <2>2, <2>4 DEF Output
        <3>2. Used' = Used + 1
            BY <1>1, <2>2, <3>1 DEF Used
        <3>3. Fresh(Output, NextSnr(snr), Used + 1)
            BY <1>1, <1>2, <2>3, NumberTaken
        <3> QED BY <2>2, <2>3, <3>1, <3>2, <3>3
    <2>5. CASE wbuf' = Append(wbuf, m)
        <3>1. Output' = Append(Output, m)
            BY <2>1, <2>2, <2>5, AppendGoesLast DEF Output
        <3>2. Used' = Used + 1
            BY <1>1, <2>1, <2>2, <3>1, HeloByAppend DEF Used
        <3>3. Fresh(Output', NextSnr(snr), Used + 1) /\ Distinct(Output')
            BY <1>1, <1>2, <2>1, <2>3, <3>1, NumberedLast
        <3> QED BY <2>2, <2>3, <3>2, <3>3
    <2> QED BY <2>2, <2>4, <2>5
<1>7. ASSUME NEW raw \in RawMessages, sendRawMessage(raw)
      PROVE  SnrInv'
    <2> DEFINE m == Message(raw.src, raw.snr, FALSE)
    <2>1. raw.src \in Sources /\ raw.snr \in Snrs
        BY ClientAssumption DEF ClientAssumption
    <2>2. m \in OutMessage /\ m.kind = "message" /\ m.auto = FALSE
        BY <2>1, MessageType DEF Message
    <2> HIDE DEF m
    <2>3. /\ calls < MaxCalls /\ calls' = calls + 1 /\ snr' = snr /\ wire' = wire
          /\ wbuf' = wbuf \/ wbuf' = Append(wbuf, m)
        BY <1>7 DEF sendRawMessage, writeMessageToSocket, m
    <2>4. \/ Output' = Output
          \/ Output' = Append(Output, m)
        BY <2>2, <2>3, AppendGoesLast DEF Output
    <2>5. HasHelo(Output') <=> HasHelo(Output)
        <3>1. HasHelo(Append(Output, m)) <=> HasHelo(Output)
            BY <1>1, <2>2, HeloByAppend
        <3> QED BY <2>4, <3>1
    <2>6. Used' = Used + 1
        BY <1>1, <2>3, <2>5 DEF Used
    <2>7. Fresh(Output', snr, Used) /\ Distinct(Output') /\ Output' \in Seq(OutMessage)
        <3>1. Fresh(Output, snr, Used) /\ Distinct(Output) /\ Output \in Seq(OutMessage)
            BY <1>1
        <3>2. Fresh(Append(Output, m), snr, Used) /\ Distinct(Append(Output, m))
            BY <2>2, <3>1, ByHandLast, Zenon
        <3>3. Append(Output, m) \in Seq(OutMessage)
            BY <1>1, <2>2
        <3> HIDE DEF SnrInv
        <3> QED BY <2>4, <3>1, <3>2, <3>3, Zenon
    <2>8. Fresh(Output', snr, Used + 1)
        BY <1>1, <1>2, <2>7, FreshForMore
    <2>9. calls' <= MaxCalls
        BY <1>1, <2>3
    <2> QED BY <2>3, <2>6, <2>7, <2>8, <2>9
<1>8. ASSUME NEW number \in UserSnrs, setNextSnr(number)
      PROVE  SnrInv'
    <2>1. \A i \in 1 .. Len(Output') : Output'[i].auto = FALSE
        BY <1>8, NothingNumbered
    <2>2. calls' = calls
        BY <1>8 DEF setNextSnr
    <2> QED BY <2>1, <2>2 DEF Fresh, Distinct
<1>9. ASSUME WriteOut
      PROVE  SnrInv'
    BY <1>3, <1>9, WriteOutKeeps DEF WriteOut
<1>10. ASSUME \/ \E n \in DeviceNames : connectToServer(n)
              \/ AutoReconnectTimeout
       PROVE  SnrInv'
    BY <1>4, <1>10 DEF connectToServer, AutoReconnectTimeout
<1>11. ASSUME \/ disconnectFromServer \/ LookupDone \/ AttemptFails \/ ConnectionLost
              \/ readMessage
              \/ \E enable \in BOOLEAN : setAutoReconnect(enable)
              \/ MessagesArrive
              \/ readNextMessageFromSocket
              \/ UNCHANGED vars
       PROVE  SnrInv'
    <2>1. UNCHANGED output
        BY <1>11 DEF disconnectFromServer, LookupDone, AttemptFails, ConnectionLost,
                     readMessage, setAutoReconnect, MessagesArrive, readNextMessageFromSocket,
                     vars
    <2> QED BY <1>3, <2>1 DEF output, Output
<1> QED BY <1>5, <1>6, <1>7, <1>8, <1>9, <1>10, <1>11 DEF Next, Application, Socket

(* The numbers the client gives on one connection, the registration's among  *)
(* them, are distinct, across the wrap and through reconnections, as long as *)
(* the application sends fewer messages on it than there are numbers: what   *)
(* incrementSnr() skips, zero, is given at most once.                        *)
THEOREM NumbersTellApart ==
    ASSUME MaxCalls < MaxSnr
    PROVE  Spec => []SnrUnique
<1>1. Init => RegInv
    BY DEF Init, RegInv, Output, HasHelo, Early, HeloLeads, Live
<1>2. Init => SnrInv
    BY ClientAssumption DEF Init, SnrInv, Output, Distinct, Fresh, ClientAssumption
<1>3. TypeOK /\ RegInv /\ [Next]_vars => RegInv'
    BY RegStep
<1>4. TypeOK /\ RegInv /\ SnrInv /\ [Next]_vars => SnrInv'
    BY SnrStep
<1>5. TypeOK /\ SnrInv => SnrUnique
    BY OutputType DEF SnrInv, Distinct, SnrUnique
<1> QED BY <1>1, <1>2, <1>3, <1>4, <1>5, TypeCorrectness, PTL DEF Spec
=============================================================================
