----------------------------- MODULE DcpFraming -----------------------------
(***************************************************************************)
(* Packets as bytes: a device writes packets to the hub, the hub cuts them *)
(* out of what has arrived and forwards them as they are, and a            *)
(* Dcp::Client cuts messages out of what arrives from the hub. Hub and     *)
(* client use different fields of the header to do so.                     *)
(*                                                                         *)
(* A byte stream is a sequence of cells. A packet is one cell per field of *)
(* the header that counts here, and one per byte of data; device names,    *)
(* flags and serial number are left out. Any cell may be taken for a size, *)
(* so each holds a quint32, and sums of sizes wrap where they do in the    *)
(* code: packets of other devices have any size a header can give.         *)
(***************************************************************************)
EXTENDS Integers, SequencesExt

CONSTANTS
    Payloads,       \* data of the messages written by devices with Dcp::Client
    OtherPackets,   \* packets of other devices: [msgSize, offset, data]
    AnswerData,     \* data of the answers of the hub
    MaxPacketSize,
    MaxInt,         \* the largest int
    MaxWritten,     \* bound: packets written to the hub
    MaxAnswers      \* bound: answers of the hub

\* Cells of the packet header (msgSize, offset) and the message header (dataLen).
PacketHeaderSize == 2
MessageHeaderSize == 1
FullHeaderSize == PacketHeaderSize + MessageHeaderSize

\* quint32, how sums wrap in it, and its conversion to int.
WordSize == 2 * (MaxInt + 1)
Words == 0 .. WordSize - 1
Word(n) == n % WordSize
Int32(word) == IF word <= MaxInt THEN word ELSE word - WordSize

(* A message that the library makes is a QByteArray, whose size is an int,   *)
(* and so is that of any message in a packet the hub takes; a packet made    *)
(* elsewhere fits its own header.                                            *)
ASSUME FramingAssumption ==
    /\ MaxInt \in Nat
    /\ MaxPacketSize \in FullHeaderSize .. PacketHeaderSize + MaxInt
    /\ MaxWritten \in Nat /\ MaxAnswers \in Nat
    /\ \A d \in Payloads \cup AnswerData :
           d \in Seq(Words) /\ MessageHeaderSize + Len(d) <= MaxInt
    /\ \A p \in OtherPackets :
           /\ p \in [msgSize : Words, offset : Words, data : Seq(Words)]
           /\ Len(p.data) \in Words

VARIABLES
    sent,       \* packets the device has written to the hub
    toHub,      \* their bytes on the way
    hubIn,      \* read buffer of the hub
    hubOpen,    \* the hub has not ended the connection
    cut,        \* packets the hub has cut out
    delivered,  \* packets the hub has written to the client
    toClient,   \* their bytes on the way
    clientIn,   \* read buffer of the client
    inQueue     \* messages the client has cut out

device == <<sent, toHub>>
hub == <<hubIn, hubOpen, cut>>
link == <<delivered, toClient>>
client == <<clientIn, inQueue>>
vars == <<device, hub, link, client>>

Init ==
    /\ sent = <<>> /\ cut = <<>> /\ delivered = <<>>
    /\ toHub = <<>> /\ hubIn = <<>>
    /\ hubOpen = TRUE
    /\ toClient = <<>> /\ clientIn = <<>>
    /\ inQueue = <<>>

-----------------------------------------------------------------------------
(* Writing.                                                                  *)

Packet(msgSize, offset, data) == <<msgSize, offset, Len(data)>> \o data

\* The message in a packet that holds all of it.
MessageIn(packet) == SubSeq(packet, PacketHeaderSize + 1, Len(packet))

Written(packet) ==
    /\ sent' = Append(sent, packet)
    /\ toHub' = toHub \o packet
    /\ UNCHANGED <<hub, link, client>>

\* ClientPrivate::writeMessageToSocket() at the device.
writeMessageToSocket(data) ==
    /\ Len(sent) < MaxWritten
    /\ Len(data) + FullHeaderSize <= MaxPacketSize
    /\ Written(Packet(Len(data), 0, data))

\* A device that makes packets itself, parts of larger messages among them.
OtherDeviceWrites(p) ==
    /\ Len(sent) < MaxWritten
    /\ Written(Packet(p.msgSize, p.offset, p.data))

\* The size check of DcpHub::sendMessage(): `!` binds before `+`.
TooLargeToAnswer(data) ==
    (IF Len(data) = 0 THEN 1 ELSE 0) + FullHeaderSize > MaxPacketSize

\* DcpHub::sendMessage()
sendMessage(data) ==
    /\ Len(delivered) - Len(cut) < MaxAnswers
    /\ ~TooLargeToAnswer(data)
    /\ delivered' = Append(delivered, Packet(Len(data), 0, data))
    /\ toClient' = toClient \o Packet(Len(data), 0, data)
    /\ UNCHANGED <<device, hub, client>>

-----------------------------------------------------------------------------
(* The hub reads.                                                            *)

\* Faulty variant: the header of the message is not counted.
PacketSizeShort(in) == Word(PacketHeaderSize + in[PacketHeaderSize + 1])

\* The size readNextPacket() takes from the length in the message header.
PacketSize(in) == Word(FullHeaderSize + in[PacketHeaderSize + 1])

\* Faulty variant: a packet that just fits is refused.
TooLargeByOne(in) == Len(in) >= FullHeaderSize /\ PacketSize(in) >= MaxPacketSize

TooLarge(in) == Len(in) >= FullHeaderSize /\ PacketSize(in) > MaxPacketSize

\* Faulty variant: a packet is read when something comes behind it.
PacketCompleteLate(in) == Len(in) >= FullHeaderSize /\ Len(in) > PacketSize(in)

PacketComplete(in) == Len(in) >= FullHeaderSize /\ Len(in) >= PacketSize(in)

\* Bytes arrive; the loop of socketReadyRead() has read what it could before.
ArriveAtHub ==
    /\ hubOpen
    /\ ~TooLarge(hubIn) /\ ~PacketComplete(hubIn)
    /\ \E n \in 1 .. Len(toHub) :
           /\ hubIn' = hubIn \o SubSeq(toHub, 1, n)
           /\ toHub' = SubSeq(toHub, n + 1, Len(toHub))
    /\ UNCHANGED <<sent, hubOpen, cut, link, client>>

ReadFromSocket ==
    /\ hubOpen
    /\ ~TooLarge(hubIn) /\ PacketComplete(hubIn)
    /\ hubIn' = SubSeq(hubIn, PacketSize(hubIn) + 1, Len(hubIn))

\* readNextPacket() reads a packet, which processPacket() forwards unchanged.
readNextPacket ==
    /\ ReadFromSocket
    /\ PacketSize(hubIn) >= FullHeaderSize
    /\ LET packet == SubSeq(hubIn, 1, PacketSize(hubIn))
       IN  /\ cut' = Append(cut, packet)
           /\ delivered' = Append(delivered, packet)
           /\ toClient' = toClient \o packet
    /\ UNCHANGED <<device, hubOpen, client>>

(* Where the size wraps, what is read is shorter than the headers, and       *)
(* setData() clears it: it has no name to register and no destination. With  *)
(* nothing read at all, the loop of socketReadyRead() does not end.          *)
ReadClearedPacket ==
    /\ ReadFromSocket
    /\ PacketSize(hubIn) < FullHeaderSize
    /\ hubOpen' = (cut # <<>>)
    /\ UNCHANGED <<device, cut, link, client>>

\* readNextPacket() ends the connection as soon as it sees the size.
RefusePacket ==
    /\ hubOpen
    /\ TooLarge(hubIn)
    /\ hubOpen' = FALSE
    /\ UNCHANGED <<device, hubIn, cut, link, client>>

-----------------------------------------------------------------------------
(* The client reads.                                                         *)

\* Faulty variant: the header of the message is not counted.
MessageEndShort(in) == Word(PacketHeaderSize + in[1])

\* What the client waits for, and what it reads behind the packet header: both by the size
\* in that header.
MessageEnd(in) == Word(FullHeaderSize + in[1])
MessageSize(in) == Word(MessageHeaderSize + in[1])

MessageComplete(in) == Len(in) >= FullHeaderSize /\ Len(in) >= MessageEnd(in)

ArriveAtClient ==
    /\ ~MessageComplete(clientIn)
    /\ \E n \in 1 .. Len(toClient) :
           /\ clientIn' = clientIn \o SubSeq(toClient, 1, n)
           /\ toClient' = SubSeq(toClient, n + 1, Len(toClient))
    /\ UNCHANGED <<device, hub, delivered, inQueue>>

\* Message::fromByteArray(): the null message unless the lengths agree.
Null == <<>>
fromByteArray(raw) ==
    IF Len(raw) >= MessageHeaderSize /\ Len(raw) = Int32(Word(MessageHeaderSize + raw[1]))
    THEN raw ELSE Null

(* A message is cut out, and then ignored if it is a later part of a larger  *)
(* one, or if less could be read than its size.                              *)
readNextMessageFromSocket ==
    /\ MessageComplete(clientIn)
    /\ LET size == MessageSize(clientIn)
           end == Min({PacketHeaderSize + size, Len(clientIn)})
           rawMsg == SubSeq(clientIn, PacketHeaderSize + 1, end)
       IN  /\ inQueue' = IF clientIn[2] # 0 \/ Len(rawMsg) # Int32(size) THEN inQueue
                         ELSE Append(inQueue, fromByteArray(rawMsg))
           /\ clientIn' = SubSeq(clientIn, end + 1, Len(clientIn))
    /\ UNCHANGED <<device, hub, link>>

-----------------------------------------------------------------------------
Next ==
    \/ \E d \in Payloads : writeMessageToSocket(d)
    \/ \E p \in OtherPackets : OtherDeviceWrites(p)
    \/ \E d \in AnswerData : sendMessage(d)
    \/ ArriveAtHub
    \/ readNextPacket
    \/ ReadClearedPacket
    \/ RefusePacket
    \/ ArriveAtClient
    \/ readNextMessageFromSocket

Spec == Init /\ [][Next]_vars

(* Fairness: TCP delivers what was written, and each end runs its slot. That *)
(* anything is written is never assumed.                                     *)
FairSpec ==
    /\ Spec
    /\ WF_vars(ArriveAtHub) /\ WF_vars(readNextPacket)
    /\ WF_vars(ReadClearedPacket) /\ WF_vars(RefusePacket)
    /\ WF_vars(ArriveAtClient) /\ WF_vars(readNextMessageFromSocket)

-----------------------------------------------------------------------------
\* The size of none of the first n packets wraps in the sum of readNextPacket().
NoneWraps(n) == \A i \in DOMAIN sent : i <= n => Len(sent[i]) < WordSize

(* Between a device and the hub, packets stay what they were, parts of       *)
(* larger messages included, up to the first whose size wraps: the hub is    *)
(* right to cut by the message header.                                       *)
CutUnwrapped == [i \in {j \in DOMAIN cut : NoneWraps(j)} |-> cut[i]]
HubPipe == INSTANCE PacketPipe WITH written <- sent, read <- CutUnwrapped
HubReadsPackets == HubPipe!Spec

(* Between the hub and the client, messages are read as they were written,   *)
(* answers above MaxPacketSize included, until a part of a larger message    *)
(* comes: the client cuts by the packet header, which gives the size of the  *)
(* whole message, so it takes the packets behind the part for the rest of it.*)
InOnePacket(packet) == packet[2] = 0 /\ packet[1] = packet[3]
AllInOnePacket == \A i \in DOMAIN delivered : InOnePacket(delivered[i])
ClientReadsWhole ==
    AllInOnePacket =>
        IsPrefix(inQueue, [i \in DOMAIN delivered |-> MessageIn(delivered[i])])

(* No packet above MaxPacketSize is taken, whatever its header says, and a   *)
(* connection is ended for such a packet only: it is the first that was not  *)
(* cut out, and nothing behind it was. (Behind a packet whose size wraps,    *)
(* which is not refused, the hub reads what lies in its data.)               *)
RefusedForSize ==
    /\ \A i \in DOMAIN cut : Len(cut[i]) <= MaxPacketSize
    /\ ~hubOpen /\ NoneWraps(Len(cut)) =>
           /\ Len(cut) < Len(sent)
           /\ Len(sent[Len(cut) + 1]) > MaxPacketSize

(* The warning of DcpHub::sendMessage() says that a large answer is skipped. *)
LargeAnswersSkipped == \A i \in DOMAIN delivered : Len(delivered[i]) <= MaxPacketSize

(* Nothing complete is held back: a packet is forwarded unless the hub ends  *)
(* the connection or its size, or one before, wraps, and a message is read   *)
(* unless a part of one is on the way.                                       *)
NothingHeldBack ==
    /\ \A n \in 1 .. MaxWritten :
           Len(sent) >= n ~> Len(cut) >= n \/ ~hubOpen \/ ~NoneWraps(n)
    /\ \A n \in 1 .. MaxWritten + MaxAnswers :
           Len(delivered) >= n ~> Len(inQueue) >= n \/ ~AllInOnePacket
=============================================================================
