----------------------------- MODULE MessageApi -----------------------------
(***************************************************************************)
(* A Dcp::Message object under any sequence of the calls an application    *)
(* can make: it is built, changed, answered, sent and received.            *)
(***************************************************************************)
EXTENDS MessageFormat

CONSTANTS Names,      \* names an application uses, longer ones and ones with nulls too
          Texts,      \* message data
          FlagBits,   \* bits the application sets in a byte of flags
          Numbers,    \* serial numbers
          ErrorCodes  \* error codes of answers

ASSUME MessageAssumption ==
  /\ Names \subseteq Seq(Nat) /\ Texts \subseteq Seq(STRING)
  /\ FlagBits \subseteq DcpBits /\ ErrorCodes \subseteq Int

VARIABLE msg

MessageInit == msg = NullMessage

\* Another object in place of a null message.
Construct ==
  msg = NullMessage /\
  \E source \in Names, destination \in Names, data \in Texts, dcp, user \in SUBSET FlagBits,
     snr \in Numbers :
    msg' = MessageData(Flags(dcp, user), snr, source, destination, data)

Clear == msg' = NullMessage

SetFlags == \E dcp, user \in SUBSET FlagBits : msg' = setFlags(msg, Flags(dcp, user))
SetDcpFlags == \E dcp \in SUBSET FlagBits : msg' = setDcpFlags(msg, dcp)
SetUserFlags == \E user \in SUBSET FlagBits : msg' = setUserFlags(msg, user)
SetSnr == \E snr \in Numbers : msg' = setSnr(msg, snr)
SetSource == \E name \in Names : msg' = setSource(msg, name)
SetDestination == \E name \in Names : msg' = setDestination(msg, name)
SetData == \E data \in Texts : msg' = setData(msg, data)

Answer ==
  \E code \in ErrorCodes :
    \/ msg' = ackMessage(msg, code)
    \/ \E data \in Texts : msg' = replyMessage(msg, data, code)

Transfer == msg' = fromByteArray(toByteArray(msg))

MessageNext ==
  \/ Construct \/ Clear \/ SetFlags \/ SetDcpFlags \/ SetUserFlags \/ SetSnr
  \/ SetSource \/ SetDestination \/ SetData \/ Answer \/ Transfer

MessageSpec == MessageInit /\ [][MessageNext]_msg

-----------------------------------------------------------------------------
(* What the receiver of a message has *)
Received(m) == fromByteArray(toByteArray(m))

(* What is sent is what is received, whatever calls made the message (Message::toByteArray(),
   fromByteArray()): only the null bytes at the end of names, which the setters leave in and
   the constructor takes off, are lost, once.  The flag bytes reach each other nowhere, and an
   array of another length than its header says is no message. *)
RoundTrips ==
  LET raw == toByteArray(msg)
      Name(name) == stripRight(name, NUL)
  IN  /\ Received(msg) = [msg EXCEPT !.isNull = FALSE, !.source = Name(@), !.destination = Name(@)]
      /\ Received(Received(msg)) = Received(msg)
      /\ Flags(dcpFlags(msg), userFlags(msg)) = msg.flags
      /\ \A data \in Texts :
           fromByteArray([raw EXCEPT !.data = data]).isNull <=> Len(data) # Len(msg.data)

\* fromPercentEncoding(), for what percentEncodeSpaces() makes.
Decoded(text) ==
  LET Keeps(i) == /\ ~(i > 1 /\ text[i - 1] = "%")
                  /\ ~(i > 2 /\ text[i - 2] = "%")
      Char(i) == IF text[i] # "%" THEN text[i] ELSE IF text[i + 2] = "5" THEN "%" ELSE Blank
      kept == {i \in DOMAIN text : Keeps(i)}
  IN  [n \in 1..Cardinality(kept) |-> Char(Nth(kept, n))]

(* The answers to a message reach its sender under its number and are read there for what they
   are (Message::ackMessage(), replyMessage(), percentEncodeSpaces(), ReplyParser::parse()): the
   error code, the words that were echoed, an encoded text as the one word that decodes to it.
   A reply is taken for an ACK when its data is the word ACK, and only then, and no answer is
   taken for a command. *)
AnswersReadBack ==
  LET Reads(answer, code, args, isAck) ==
        LET got == Received(answer)
            r == ReplyParserParse(FreshReplyParser, got)
        IN  /\ got.destination = stripRight(msg.source, NUL)
            /\ got.source = stripRight(msg.destination, NUL)
            /\ got.snr = msg.snr
            /\ userFlags(got) = userFlags(msg)
            /\ r.ok /\ r.parser = [args |-> args, isAck |-> isAck, errorCode |-> code]
            /\ ~CommandParserParse(FreshCommandParser, got).ok
      words == Words(msg.data)
      echoed == IF words = <<>> THEN <<<<"FIN">>>> ELSE words
      encoded == percentEncodeSpaces(msg.data)
  IN  \A code \in ErrorCodes :
        /\ Reads(ackMessage(msg, code), code, <<<<"ACK">>>>, TRUE)
        /\ isUrgent(Received(ackMessage(msg, code)))
        /\ Reads(replyMessage(msg, joinedArguments(words), code), code, echoed,
                 words = <<<<"ACK">>>>)
        /\ msg.data # <<>> =>
             /\ Reads(replyMessage(msg, encoded, code), code, <<encoded>>, msg.data = <<"ACK">>)
             /\ Decoded(encoded) = msg.data
=============================================================================
