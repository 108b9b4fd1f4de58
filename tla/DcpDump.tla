------------------------------ MODULE DcpDump -------------------------------
(***************************************************************************)
(* examples/dcpdump: a device that passes the messages of some devices on  *)
(* to others, as the pairs on its command line say, and prints all it      *)
(* gets.                                                                   *)
(***************************************************************************)
EXTENDS MessageFormat

CONSTANTS Devices,    \* device names, on the command line and in messages
          DumpTexts   \* data of the messages that arrive

\* Names end before the null bytes that fill them up.
ASSUME DumpAssumption ==
  \A d \in Devices : d \in Seq(Nat) /\ (d # <<>> => d[Len(d)] # NUL)

VARIABLES phase,      \* "parsing" the command line, "running" or "failed"
          deviceMap,
          forwarded   \* what the last message was passed on as, null if it was not

dumpVars == <<phase, deviceMap, forwarded>>

DumpInit ==
  /\ phase = "parsing"
  /\ deviceMap = [d \in {} |-> <<>>]
  /\ forwarded = NullMessage

-----------------------------------------------------------------------------
(* The command line                                                        *)

\* Faulty variant: only the first name of a pair is looked up.
MayMapFirst(dev1, dev2) == dev1 \notin DOMAIN deviceMap

MayMap(dev1, dev2) == dev1 \notin DOMAIN deviceMap /\ dev2 \notin DOMAIN deviceMap

ParseMapping(dev1, dev2) ==
  /\ phase = "parsing"
  /\ IF MayMap(dev1, dev2)
     THEN /\ deviceMap' = [d \in DOMAIN deviceMap \cup {dev1, dev2} |->
                             IF d = dev1 THEN dev2
                             ELSE IF d = dev2 THEN dev1 ELSE deviceMap[d]]
          /\ UNCHANGED phase
     ELSE phase' = "failed" /\ UNCHANGED deviceMap
  /\ UNCHANGED forwarded

Start ==
  /\ phase = "parsing"
  /\ phase' = "running"
  /\ UNCHANGED <<deviceMap, forwarded>>

-----------------------------------------------------------------------------
(* Passing on                                                              *)

\* Faulty variant: the receiver sees the device that sent, not the one it was sent to.
ForwardKeepingSource(m) == setDestination(m, deviceMap[m.source])

Forward(m) == setDestination(setSource(m, m.destination), deviceMap[m.source])

MessageReceived(m) ==
  /\ phase = "running"
  /\ forwarded' = IF m.source \in DOMAIN deviceMap THEN Forward(m) ELSE NullMessage
  /\ UNCHANGED <<phase, deviceMap>>

\* The hub delivers messages to the name they have as their destination.
Incoming ==
  {MessageData(flags, 1, source, destination, data) :
     flags \in {{}, {ReplyFlag}}, source \in Devices, destination \in Devices, data \in DumpTexts}

DumpNext ==
  \/ \E dev1, dev2 \in Devices : ParseMapping(dev1, dev2)
  \/ Start
  \/ \E m \in Incoming : MessageReceived(m)

DumpSpec == DumpInit /\ [][DumpNext]_dumpVars

-----------------------------------------------------------------------------
(* Every mapping goes both ways, whatever pairs the command line gives and in what order
   (CmdLineOptions::parse()): each device of a pair is passed on to the other. *)
MapSymmetric ==
  \A d \in DOMAIN deviceMap : deviceMap[d] \in DOMAIN deviceMap /\ deviceMap[deviceMap[d]] = d

(* The device that a message is passed on to can answer as if it had been asked itself
   (DcpDump::messageReceived()): what it answers is passed on as the answer of the device that
   was asked, under the same number, to the one that asked.  Names that fit into a header. *)
AnswersComeBack ==
  \A m \in Incoming :
    /\ m.source \in DOMAIN deviceMap
    /\ Len(deviceMap[m.source]) <= NameSize
    => \A data \in DumpTexts :
         LET answer == replyMessage(Forward(m), data, 0)
         IN  /\ answer.source \in DOMAIN deviceMap
             /\ Forward(answer) = replyMessage(m, data, 0)
=============================================================================
