--------------------------- MODULE MessageFormat ---------------------------
(***************************************************************************)
(* DCP messages, the byte arrays they are sent as, and the parsers that    *)
(* read commands and replies: dcpclient/message.cpp and                    *)
(* dcpclient/messageparser.cpp, as operators.                              *)
(*                                                                         *)
(* Device names are sequences of bytes.  Message data is a sequence of     *)
(* characters; a keyword counts as one character.  The flags are the set   *)
(* of the numbers of the bits that are set.  A byte array holds its fields *)
(* at fixed places and is a record of them; `header' is FALSE when it is   *)
(* too short to have them.                                                 *)
(***************************************************************************)
EXTENDS Integers, SequencesExt

CONSTANT NameSize     \* MessageDeviceNameSize, 16 in the code

ASSUME NameSizeAssumption == NameSize \in Nat

NUL == 0              \* the byte that fills up a name
Blank == " "          \* the character between words

UrgentFlag == 2       \* numbers of bits of the DCP flags; bit 1 is that of GRECO
ReplyFlag == 3
DcpBits == 0..7
UserBits == 8..15

Digits == <<"0", "1", "2", "3", "4", "5", "6", "7", "8", "9">>

-----------------------------------------------------------------------------
(* Names                                                                   *)

truncate(name) == SubSeq(name, 1, IF Len(name) < NameSize THEN Len(name) ELSE NameSize)

stripRight(ba, c) ==
  LET kept == {n \in 0..Len(ba) : \A i \in (n + 1)..Len(ba) : ba[i] = c}
  IN  SubSeq(ba, 1, CHOOSE n \in kept : \A k \in kept : n <= k)

\* A name as it stands in a message header, filled up with null bytes.
Padded(name) == [i \in 1..NameSize |-> IF i <= Len(name) THEN name[i] ELSE NUL]

-----------------------------------------------------------------------------
(* Message objects                                                         *)

NullMessage ==
  [isNull |-> TRUE, flags |-> {}, snr |-> 0,
   source |-> <<>>, destination |-> <<>>, data |-> <<>>]

\* Faulty variant: the destination keeps the nulls of the header.
MessageDataPadded(flags, snr, source, destination, data) ==
  [isNull |-> FALSE, flags |-> flags, snr |-> snr,
   source |-> stripRight(truncate(source), NUL),
   destination |-> truncate(destination), data |-> data]

MessageData(flags, snr, source, destination, data) ==
  [isNull |-> FALSE, flags |-> flags, snr |-> snr,
   source |-> stripRight(truncate(source), NUL),
   destination |-> stripRight(truncate(destination), NUL), data |-> data]

\* The flags made of a byte of DCP flags and a byte of user flags.
Flags(dcp, user) == dcp \cup {b + 8 : b \in user}

dcpFlags(msg) == msg.flags \cap DcpBits
userFlags(msg) == {b - 8 : b \in msg.flags \cap UserBits}
isReply(msg) == ReplyFlag \in msg.flags
isUrgent(msg) == UrgentFlag \in msg.flags

setFlags(msg, flags) == [msg EXCEPT !.isNull = FALSE, !.flags = flags]
setDcpFlags(msg, dcp) == setFlags(msg, (msg.flags \cap UserBits) \cup dcp)
setUserFlags(msg, user) ==
  setFlags(msg, (msg.flags \cap DcpBits) \cup {b + 8 : b \in user})
setSnr(msg, snr) == [msg EXCEPT !.isNull = FALSE, !.snr = snr]
setSource(msg, source) == [msg EXCEPT !.isNull = FALSE, !.source = truncate(source)]
setDestination(msg, destination) ==
  [msg EXCEPT !.isNull = FALSE, !.destination = truncate(destination)]
setData(msg, data) == [msg EXCEPT !.isNull = FALSE, !.data = data]

-----------------------------------------------------------------------------
(* The codec                                                               *)

toByteArray(msg) ==
  [header |-> TRUE, flags |-> msg.flags, snr |-> msg.snr,
   source |-> Padded(msg.source), destination |-> Padded(msg.destination),
   dataLen |-> Len(msg.data), data |-> msg.data]

fromByteArray(raw) ==
  IF ~raw.header \/ raw.dataLen # Len(raw.data) THEN NullMessage
  ELSE MessageData(raw.flags, raw.snr, raw.source, raw.destination, raw.data)

-----------------------------------------------------------------------------
(* Answers                                                                 *)

\* QByteArray::number()
number(code) ==
  LET absolute == IF code < 0 THEN -code ELSE code
      decimal[n \in 0..absolute] ==
        IF n < 10 THEN <<Digits[n + 1]>> ELSE Append(decimal[n \div 10], Digits[(n % 10) + 1])
  IN  IF code < 0 THEN <<"-">> \o decimal[absolute] ELSE decimal[absolute]

ackMessage(msg, code) ==
  MessageData(msg.flags \cup {ReplyFlag, UrgentFlag}, msg.snr, msg.destination,
              msg.source, number(code) \o <<Blank, "ACK">>)

replyMessage(msg, data, code) ==
  MessageData(msg.flags \cup {ReplyFlag}, msg.snr, msg.destination, msg.source,
              number(code) \o <<Blank>> \o (IF data = <<>> THEN <<"FIN">> ELSE data))

\* QByteArray::replace()
Replace(ba, c, by) == FlattenSeq([i \in DOMAIN ba |-> IF ba[i] = c THEN by ELSE <<ba[i]>>])

\* Faulty variant: the percent signs of the first step are encoded by the second.
percentEncodeSpacesFirst(input) ==
  Replace(Replace(input, Blank, <<"%", "2", "0">>), "%", <<"%", "2", "5">>)

percentEncodeSpaces(input) ==
  Replace(Replace(input, "%", <<"%", "2", "5">>), Blank, <<"%", "2", "0">>)

-----------------------------------------------------------------------------
(* The parsers                                                             *)

\* The n-th of a set of numbers, the smallest first.
Nth(S, n) == CHOOSE i \in S : Cardinality({j \in S : j <= i}) = n

\* split(' ') without the empty parts: the longest runs of other characters.
Words(data) ==
  LET starts == {i \in DOMAIN data : data[i] # Blank /\ (i = 1 \/ data[i - 1] = Blank)}
      EndOf(i) == CHOOSE k \in i..Len(data) :
                     /\ \A j \in i..k : data[j] # Blank
                     /\ k = Len(data) \/ data[k + 1] = Blank
  IN  [n \in 1..Cardinality(starts) |-> SubSeq(data, Nth(starts, n), EndOf(Nth(starts, n)))]

joinedArguments(args) ==
  FlattenSeq([n \in DOMAIN args |-> IF n = 1 THEN args[n] ELSE <<Blank>> \o args[n]])

\* QByteArray::toInt(): an optional sign and digits.
Unsigned(word) == IF word # <<>> /\ word[1] \in {"-", "+"} THEN Tail(word) ELSE word
IsNumber(word) == Unsigned(word) # <<>> /\ Range(Unsigned(word)) \subseteq Range(Digits)
DigitOf(c) == (CHOOSE d \in DOMAIN Digits : Digits[d] = c) - 1
Value(digits) ==
  LET value[n \in 0..Len(digits)] ==
        IF n = 0 THEN 0 ELSE 10 * value[n - 1] + DigitOf(digits[n])
  IN  value[Len(digits)]
toInt(word) ==
  IF ~IsNumber(word) THEN 0
  ELSE IF word[1] = "-" THEN -Value(Unsigned(word)) ELSE Value(Unsigned(word))

FreshReplyParser == [args |-> <<>>, isAck |-> FALSE, errorCode |-> 0]
FreshCommandParser ==
  [args |-> <<>>, command |-> <<>>, identifier |-> <<>>, cmdType |-> "set"]

\* Faulty variant: what an ACK has set stays.
ReplyParserClearArgs(parser) == [parser EXCEPT !.args = <<>>, !.errorCode = 0]

ReplyParserClear(parser) == [parser EXCEPT !.args = <<>>, !.isAck = FALSE, !.errorCode = 0]
CommandParserClear(parser) ==
  [parser EXCEPT !.args = <<>>, !.command = <<>>, !.identifier = <<>>, !.cmdType = "set"]

\* The parser after ReplyParser::parse(), and what the call returns.
ReplyParserParse(parser, msg) ==
  LET cleared == ReplyParserClear(parser)
      words == Words(msg.data)
      rest == Tail(words)
      ok == IsNumber(words[1])
  IN  IF ~isReply(msg) \/ words = <<>>
      THEN [ok |-> FALSE, parser |-> cleared]
      ELSE [ok |-> ok,
            parser |-> [cleared EXCEPT !.args = rest, !.errorCode = toInt(words[1]),
                          !.isAck = IF ok /\ rest = <<<<"ACK">>>> THEN TRUE ELSE @]]

CmdTypes == {"set", "get", "def", "undef"}

\* The parser after CommandParser::parse(), and what the call returns.
CommandParserParse(parser, msg) ==
  LET cleared == CommandParserClear(parser)
      words == Words(msg.data)
      types == {t \in CmdTypes : words[1] = <<t>>}
  IN  IF isReply(msg) THEN [ok |-> FALSE, parser |-> cleared]
      ELSE IF Len(words) < 2
      THEN [ok |-> FALSE, parser |-> [cleared EXCEPT !.args = words]]
      ELSE [ok |-> types # {},
            parser |-> [cleared EXCEPT !.args = SubSeq(words, 3, Len(words)),
                          !.command = words[1], !.identifier = words[2],
                          !.cmdType = IF types = {} THEN @ ELSE CHOOSE t \in types : TRUE]]
=============================================================================
