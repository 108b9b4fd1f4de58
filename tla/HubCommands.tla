----------------------------- MODULE HubCommands -----------------------------
(***************************************************************************)
(* The commands the hub itself understands: what DcpHub::handleCommand     *)
(* answers to a command addressed to the server, as a function of the      *)
(* command, of the registered devices and of the debug flags.              *)
(*                                                                         *)
(* A message is modelled by its body: free text no parser accepts, a       *)
(* command (type, identifier, arguments) or a reply (error code, words).   *)
(* Words are split and percent-encoded as in the code, so a device name    *)
(* stands for itself wherever it occurs as a word.                         *)
(***************************************************************************)
EXTENDS Integers, Sequences, SequencesExt, FiniteSets

CONSTANTS
    Names,      \* device names: non-null keys of MessageDeviceNameSize bytes
    Words,      \* other words that occur as arguments of commands
    Spaced      \* the names percentEncodeSpaces() changes: those that hold a
                \* space or a percent character

ASSUME NamesAssumption == IsFiniteSet(Names) /\ Spaced \subseteq Names

AckNoError == 0
AckUnknownCommandError == 2
AckParameterError == 3

NoDebug == 0
MessageDebug == 1
PacketDebug == 2
FullDebug == 3
DebugFlags == NoDebug .. FullDebug

(* The word "get debug" answers for each value of the flags, and the flags   *)
(* each word of "set debug" stands for.                                      *)
ModeWord(flags) ==
    CASE flags = NoDebug -> "none"
      [] flags = MessageDebug -> "msg"
      [] flags = PacketDebug -> "pkg"
      [] OTHER -> "full"
ModeWords == {"none", "off", "0", "msg", "on", "1", "pkg", "full"}
ModeFlags(word) ==
    CASE word \in {"none", "off", "0"} -> NoDebug
      [] word \in {"msg", "on", "1"} -> MessageDebug
      [] word = "pkg" -> PacketDebug
      [] OTHER -> FullDebug

Args == Names \cup Words
ReplyWords == Args \cup {"ACK", "FIN", "version", "qtversion",
                         "none", "msg", "pkg", "full"}

CmdTypes == {"set", "get", "def", "undef"}
Command == [kind : {"command"}, type : CmdTypes, id : STRING, args : Seq(Args)]
ReplyBody == [kind : {"reply"}, code : Int, data : Seq(ReplyWords)]
Body == [kind : {"text", "oversize"}] \cup Command \cup ReplyBody

-----------------------------------------------------------------------------
(* The two messages made from a command: Message::ackMessage() and          *)
(* Message::replyMessage(), which writes FIN where there is no data.        *)

Reply(code, data) ==
    [kind |-> "reply", code |-> code,
     data |-> IF data = <<>> THEN <<"FIN">> ELSE data]
Ack(code) == [kind |-> "reply", code |-> code, data |-> <<"ACK">>]

\* ReplyParser::isAckReply(): the parser knows an ACK by its single word.
IsAckReply(b) == b.kind = "reply" /\ b.data = <<"ACK">>

-----------------------------------------------------------------------------
\* The commands some branch of handleCommand() names.
Known == ({"get"} \X {"devlist", "devinfo", "debug", "version", "qtversion",
                      "echo"})
         \cup ({"set"} \X {"nop", "debug"})

\* The argument check of each branch; "get devinfo" takes any arguments.
ArgumentsAccepted(c) ==
    /\ c.id = "echo" => c.args # <<>>
    /\ c.type = "set" /\ c.id = "debug" =>
           Len(c.args) = 1 /\ c.args[1] \in ModeWords
    /\ c.id \notin {"echo", "devinfo"} /\ <<c.type, c.id>> # <<"set", "debug">> =>
           c.args = <<>>

\* QMap::keys() lists the registered names in key order, here a fixed order.
deviceList(registered) == SetToSeq(registered)

(* The devices "get devinfo" finds among the names it looks up. deviceKey()  *)
(* with percentDecode pads the key from the length of the ENCODED name, so   *)
(* the bytes of a shorter decoded name up to there are left over or          *)
(* uninitialised: a registered device whose name needs encoding may or may   *)
(* not be found.                                                             *)
Found(asked, registered) ==
    LET known == registered \cap asked
    IN  {known \ missed : missed \in SUBSET (known \cap Spaced)}

\* Faulty variant: a device that is not known is passed over in silence.
DevInfoRepliesNoError(c, registered) ==
    LET asked == IF c.args = <<>> THEN registered ELSE ToSet(c.args)
    IN  {Reply(0, deviceList(found)) : found \in Found(asked, registered)}

(* The bodies the reply to "get devinfo" may have. The order of the entries  *)
(* and the address and port in each are abstracted: an entry is its device.  *)
DevInfoReplies(c, registered) ==
    LET asked == IF c.args = <<>> THEN registered ELSE ToSet(c.args)
    IN  {Reply(IF asked \subseteq found THEN 0 ELSE -1, deviceList(found)) :
             found \in Found(asked, registered)}

\* The bodies the reply to an accepted command may have.
Replies(c, registered, flags) ==
    CASE c.id = "devlist" -> {Reply(0, deviceList(registered))}
      [] c.id = "devinfo" -> DevInfoReplies(c, registered)
      [] c.id = "debug" /\ c.type = "get" -> {Reply(0, <<ModeWord(flags)>>)}
      [] c.id \in {"version", "qtversion"} -> {Reply(0, <<c.id>>)}
      [] c.id = "echo" -> {Reply(0, c.args)}
      [] OTHER -> {Reply(0, <<>>)}

(* What handleCommand() writes for a command: a refusal is one ACK with the  *)
(* error, anything else an ACK without error and then the reply.             *)
Answers(c, registered, flags) ==
    IF <<c.type, c.id>> \notin Known THEN {<<Ack(AckUnknownCommandError)>>}
    ELSE IF ~ArgumentsAccepted(c) THEN {<<Ack(AckParameterError)>>}
    ELSE {<<Ack(AckNoError), r>> : r \in Replies(c, registered, flags)}

\* The debug flags after the command: only an accepted "set debug" sets them.
FlagsAfter(c, flags) ==
    IF <<c.type, c.id>> = <<"set", "debug">> /\ ArgumentsAccepted(c)
    THEN ModeFlags(c.args[1])
    ELSE flags
=============================================================================
