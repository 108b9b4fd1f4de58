-------------------------- MODULE AlgorithmProofs ---------------------------
(***************************************************************************)
(* What holds of messages, parsers and the device map of dcpdump for all   *)
(* names, data, flags and numbers; and of toHex() for inputs of every      *)
(* size, every width and every choice of the options.                      *)
(***************************************************************************)
EXTENDS MessageApi, ParserApi, DcpDump, HexFormatter, FiniteSetTheorems,
        SequenceTheorems, WellFoundedInduction, TLAPS

-----------------------------------------------------------------------------
(* Names                                                                     *)

IsName(name) == name \in Seq(Nat) /\ (name # <<>> => name[Len(name)] # NUL)

\* A name in the field of a header.
FitsHeader(name) == name \in Seq(Nat) /\ Len(name) <= NameSize

LEMMA LeastNumber ==
  ASSUME NEW S \in SUBSET Nat, S # {}
  PROVE  \E n \in S : \A k \in S : n <= k
<1>1. PICK n \in S : \A k \in S : <<k, n>> \notin OpToRel(<, Nat)
  BY NatLessThanWellFounded, WFMin, Zenon
<1>2. ASSUME NEW k \in S PROVE n <= k
  <2>1. ~(k < n)
    BY <1>1 DEF OpToRel
  <2>2. QED BY <2>1
<1>3. QED BY <1>2

(* The name without the nulls at its end is one name, and there is none      *)
(* other.                                                                    *)
LEMMA StripOnly ==
  ASSUME NEW ba \in Seq(Nat), NEW n \in 0..Len(ba),
         \A i \in (n + 1)..Len(ba) : ba[i] = NUL,
         n # 0 => ba[n] # NUL
  PROVE  stripRight(ba, NUL) = SubSeq(ba, 1, n)
<1> DEFINE kept == {k \in 0..Len(ba) : \A i \in (k + 1)..Len(ba) : ba[i] = NUL}
<1>1. n \in kept
  OBVIOUS
<1>2. ASSUME NEW k \in kept PROVE n <= k
  <2>1. n # 0 /\ k < n => n \in (k + 1)..Len(ba)
    OBVIOUS
  <2>2. QED BY <2>1
<1>3. ASSUME NEW m \in kept, \A k \in kept : m <= k PROVE m = n
  <2>1. m <= n /\ n <= m
    BY <1>1, <1>2, <1>3
  <2>2. QED BY <2>1
<1>4. (CHOOSE m \in kept : \A k \in kept : m <= k) = n
  <2> HIDE DEF kept
  <2> QED BY <1>1, <1>2, <1>3
<1>5. QED BY <1>4 DEF stripRight

LEMMA StripFinds ==
  ASSUME NEW ba \in Seq(Nat)
  PROVE  \E n \in 0..Len(ba) :
           /\ \A i \in (n + 1)..Len(ba) : ba[i] = NUL
           /\ n # 0 => ba[n] # NUL
<1> DEFINE kept == {k \in 0..Len(ba) : \A i \in (k + 1)..Len(ba) : ba[i] = NUL}
<1>1. Len(ba) \in kept /\ kept \in SUBSET Nat
  OBVIOUS
<1>2. PICK n \in kept : \A k \in kept : n <= k
  <2> HIDE DEF kept
  <2> QED BY <1>1, LeastNumber
<1>3. n # 0 => ba[n] # NUL
  <2> SUFFICES ASSUME n # 0, ba[n] = NUL PROVE FALSE
    OBVIOUS
  <2>1. n \in 0..Len(ba) /\ \A i \in (n + 1)..Len(ba) : ba[i] = NUL
    OBVIOUS
  <2>2. ASSUME NEW i \in (n - 1 + 1)..Len(ba) PROVE ba[i] = NUL
    <3>1. i = n \/ i \in (n + 1)..Len(ba)
      BY <2>1
    <3>2. QED BY <2>1, <3>1
  <2>3. n - 1 \in 0..Len(ba)
    BY <2>1
  <2>4. n - 1 \in kept
    BY <2>2, <2>3
  <2>5. n <= n - 1
    <3> HIDE DEF kept
    <3> QED BY <1>2, <2>4
  <2>6. QED BY <2>1, <2>5
<1>4. n \in 0..Len(ba) /\ \A i \in (n + 1)..Len(ba) : ba[i] = NUL
  BY <1>2
<1>5. QED BY <1>3, <1>4

LEMMA StripName ==
  ASSUME NEW ba \in Seq(Nat)
  PROVE  /\ IsName(stripRight(ba, NUL))
         /\ Len(stripRight(ba, NUL)) <= Len(ba)
<1>1. PICK n \in 0..Len(ba) :
        /\ \A i \in (n + 1)..Len(ba) : ba[i] = NUL
        /\ n # 0 => ba[n] # NUL
  BY StripFinds, Zenon
<1>2. stripRight(ba, NUL) = SubSeq(ba, 1, n)
  BY <1>1, StripOnly, Zenon
<1>3. /\ SubSeq(ba, 1, n) \in Seq(Nat)
      /\ Len(SubSeq(ba, 1, n)) = n
      /\ n # 0 => SubSeq(ba, 1, n)[n] = ba[n]
  OBVIOUS
<1>4. QED BY <1>1, <1>2, <1>3 DEF IsName

LEMMA StripOfName ==
  ASSUME NEW name, IsName(name)
  PROVE  stripRight(name, NUL) = name
<1>1. name \in Seq(Nat) /\ Len(name) \in 0..Len(name) /\ SubSeq(name, 1, Len(name)) = name
  BY DEF IsName
<1>2. \A i \in (Len(name) + 1)..Len(name) : name[i] = NUL
  BY <1>1
<1>3. Len(name) # 0 => name[Len(name)] # NUL
  BY <1>1 DEF IsName
<1>4. stripRight(name, NUL) = SubSeq(name, 1, Len(name))
  BY <1>1, <1>2, <1>3, StripOnly, Zenon
<1>5. QED BY <1>1, <1>4

LEMMA TruncateFits ==
  ASSUME NEW name \in Seq(Nat)
  PROVE  FitsHeader(truncate(name))
BY NameSizeAssumption DEF truncate, FitsHeader

LEMMA TruncateFitting ==
  ASSUME NEW name, FitsHeader(name)
  PROVE  truncate(name) = name
BY NameSizeAssumption DEF truncate, FitsHeader

\* The name that the constructor makes of what it gets.
LEMMA NameOfField ==
  ASSUME NEW name \in Seq(Nat)
  PROVE  IsName(stripRight(truncate(name), NUL)) /\ FitsHeader(stripRight(truncate(name), NUL))
<1>1. truncate(name) \in Seq(Nat) /\ Len(truncate(name)) <= NameSize
  BY TruncateFits DEF FitsHeader
<1>2. /\ IsName(stripRight(truncate(name), NUL))
      /\ Len(stripRight(truncate(name), NUL)) <= Len(truncate(name))
  BY <1>1, StripName
<1>3. QED BY <1>1, <1>2, NameSizeAssumption DEF IsName, FitsHeader

LEMMA FieldOfName ==
  ASSUME NEW name, IsName(name), FitsHeader(name)
  PROVE  stripRight(truncate(name), NUL) = name
BY TruncateFitting, StripOfName

-----------------------------------------------------------------------------
(* Message objects                                                           *)

\* An object that calls can make.
IsMessage(m) ==
  /\ m = [isNull |-> m.isNull, flags |-> m.flags, snr |-> m.snr,
          source |-> m.source, destination |-> m.destination, data |-> m.data]
  /\ m.flags \subseteq DcpBits \cup UserBits
  /\ FitsHeader(m.source) /\ FitsHeader(m.destination)

\* The names of it are those of a message that has been constructed.
Tidy(m) == IsMessage(m) /\ IsName(m.source) /\ IsName(m.destination)

LEMMA NullIsTidy == Tidy(NullMessage)
BY NameSizeAssumption DEF NullMessage, Tidy, IsMessage, IsName, FitsHeader

LEMMA MessageDataIsTidy ==
  ASSUME NEW flags \in SUBSET (DcpBits \cup UserBits), NEW snr, NEW data,
         NEW source \in Seq(Nat), NEW destination \in Seq(Nat)
  PROVE  Tidy(MessageData(flags, snr, source, destination, data))
<1> DEFINE m == MessageData(flags, snr, source, destination, data)
<1>1. /\ m = [isNull |-> FALSE, flags |-> flags, snr |-> snr,
             source |-> stripRight(truncate(source), NUL),
             destination |-> stripRight(truncate(destination), NUL), data |-> data]
  BY DEF MessageData
<1>2. /\ IsName(m.source) /\ FitsHeader(m.source)
      /\ IsName(m.destination) /\ FitsHeader(m.destination)
  BY <1>1, NameOfField
<1>3. QED BY <1>1, <1>2 DEF Tidy, IsMessage

LEMMA FlagsAreBits ==
  ASSUME NEW dcp \in SUBSET DcpBits, NEW user \in SUBSET DcpBits
  PROVE  Flags(dcp, user) \in SUBSET (DcpBits \cup UserBits)
<1>1. ASSUME NEW b \in user PROVE b + 8 \in 8..15
  BY DEF DcpBits
<1>2. QED BY <1>1 DEF Flags, DcpBits, UserBits

(* A name in the field of a header is read as the name without the nulls at  *)
(* its end.                                                                  *)
LEMMA PaddedName ==
  ASSUME NEW name, FitsHeader(name)
  PROVE  stripRight(truncate(Padded(name)), NUL) = stripRight(name, NUL)
<1>1. name \in Seq(Nat) /\ Len(name) \in Nat /\ Len(name) <= NameSize
  BY DEF FitsHeader
<1>2. /\ Padded(name) \in Seq(Nat) /\ Len(Padded(name)) = NameSize
      /\ \A i \in 1..Len(name) : Padded(name)[i] = name[i]
      /\ \A i \in 1..NameSize : i > Len(name) => Padded(name)[i] = NUL
  BY <1>1, NameSizeAssumption DEF Padded, NUL
<1>3. truncate(Padded(name)) = Padded(name)
  BY <1>2, TruncateFitting, NameSizeAssumption DEF FitsHeader
<1>4. PICK n \in 0..Len(name) :
        /\ \A i \in (n + 1)..Len(name) : name[i] = NUL
        /\ n # 0 => name[n] # NUL
  BY <1>1, StripFinds, Zenon
<1>5. /\ n \in 0..Len(Padded(name))
      /\ \A i \in (n + 1)..Len(Padded(name)) : Padded(name)[i] = NUL
      /\ n # 0 => Padded(name)[n] # NUL
  <2>1. n \in 0..NameSize /\ n <= Len(name)
    BY <1>1, <1>4, NameSizeAssumption
  <2>2. ASSUME NEW i \in (n + 1)..NameSize PROVE Padded(name)[i] = NUL
    <3>1. CASE i \in (n + 1)..Len(name)
      BY <1>1, <1>2, <1>4, <3>1
    <3>2. CASE i > Len(name)
      BY <1>1, <1>2, <2>1, <3>2, NameSizeAssumption
    <3>3. QED BY <1>1, <2>1, <3>1, <3>2, NameSizeAssumption
  <2>3. n # 0 => Padded(name)[n] # NUL
    BY <1>1, <1>2, <1>4, <2>1
  <2>4. QED BY <1>2, <2>1, <2>2, <2>3
<1>6. stripRight(name, NUL) = SubSeq(name, 1, n)
  BY <1>1, <1>4, StripOnly, Zenon
<1>7. stripRight(Padded(name), NUL) = SubSeq(Padded(name), 1, n)
  BY <1>2, <1>5, StripOnly, Zenon
<1>8. SubSeq(name, 1, n) = SubSeq(Padded(name), 1, n)
  <2>1. SubSeq(name, 1, n) = [i \in 1..n |-> name[i]]
    BY <1>1, <1>4
  <2> DEFINE padded == Padded(name)
  <2>3. padded \in Seq(Nat) /\ n \in 0..Len(padded)
    BY <1>2, <1>5
  <2>4. SubSeq(padded, 1, n) = [i \in 1..n |-> padded[i]]
    <3> HIDE DEF padded
    <3> QED BY <2>3
  <2>2. \A i \in 1..n : Padded(name)[i] = name[i]
    BY <1>1, <1>2, <1>4
  <2>5. QED BY <2>1, <2>2, <2>4
<1>9. QED BY <1>3, <1>6, <1>7, <1>8

(* What is received is the message that was sent, with tidy names.           *)
LEMMA ReceivedIs ==
  ASSUME NEW m, IsMessage(m)
  PROVE  /\ Received(m) = [isNull |-> FALSE, flags |-> m.flags, snr |-> m.snr,
                           source |-> stripRight(m.source, NUL),
                           destination |-> stripRight(m.destination, NUL), data |-> m.data]
         /\ Tidy(Received(m))
<1>1. Received(m) = MessageData(m.flags, m.snr, Padded(m.source), Padded(m.destination), m.data)
  BY DEF Received, fromByteArray, toByteArray
<1>2. FitsHeader(m.source) /\ FitsHeader(m.destination)
  BY DEF IsMessage
<1>3. /\ stripRight(truncate(Padded(m.source)), NUL) = stripRight(m.source, NUL)
      /\ stripRight(truncate(Padded(m.destination)), NUL) = stripRight(m.destination, NUL)
  BY <1>2, PaddedName
<1>4. ASSUME NEW name, FitsHeader(name)
      PROVE  IsName(stripRight(name, NUL)) /\ FitsHeader(stripRight(name, NUL))
  <2>1. name \in Seq(Nat) /\ Len(name) <= NameSize
    BY <1>4 DEF FitsHeader
  <2>2. IsName(stripRight(name, NUL)) /\ Len(stripRight(name, NUL)) <= Len(name)
    BY <2>1, StripName
  <2>3. QED BY <2>1, <2>2, NameSizeAssumption DEF IsName, FitsHeader
<1>5. Received(m) = [isNull |-> FALSE, flags |-> m.flags, snr |-> m.snr,
                     source |-> stripRight(m.source, NUL),
                     destination |-> stripRight(m.destination, NUL), data |-> m.data]
  BY <1>1, <1>3 DEF MessageData
<1>6. m.flags \subseteq DcpBits \cup UserBits
  BY DEF IsMessage
<1>7. QED BY <1>2, <1>4, <1>5, <1>6 DEF Tidy, IsMessage

MessageInv == IsMessage(msg)

LEMMA AnswersAreMessages ==
  ASSUME NEW m, IsMessage(m), NEW data, NEW code
  PROVE  Tidy(ackMessage(m, code)) /\ Tidy(replyMessage(m, data, code))
<1>1. /\ m.source \in Seq(Nat) /\ m.destination \in Seq(Nat)
      /\ m.flags \cup {ReplyFlag, UrgentFlag} \in SUBSET (DcpBits \cup UserBits)
      /\ m.flags \cup {ReplyFlag} \in SUBSET (DcpBits \cup UserBits)
  BY DEF IsMessage, FitsHeader, ReplyFlag, UrgentFlag, DcpBits
<1>2. QED BY <1>1, MessageDataIsTidy DEF ackMessage, replyMessage

LEMMA InitMessage == MessageInit => MessageInv
BY NullIsTidy DEF MessageInit, MessageInv, Tidy

LEMMA NextMessage == MessageInv /\ [MessageNext]_msg => MessageInv'
<1> SUFFICES ASSUME MessageInv, [MessageNext]_msg PROVE IsMessage(msg')
  BY DEF MessageInv
<1> USE DEF MessageInv
<1>0. ASSUME NEW dcp \in SUBSET FlagBits, NEW user \in SUBSET FlagBits
      PROVE  Flags(dcp, user) \in SUBSET (DcpBits \cup UserBits)
  BY <1>0, MessageAssumption, FlagsAreBits
<1>1. CASE Construct
  <2>1. PICK source \in Names, destination \in Names, data \in Texts,
             dcp \in SUBSET FlagBits, user \in SUBSET FlagBits, snr \in Numbers :
          msg' = MessageData(Flags(dcp, user), snr, source, destination, data)
    BY <1>1 DEF Construct
  <2>2. source \in Seq(Nat) /\ destination \in Seq(Nat)
    BY MessageAssumption
  <2>3. QED BY <1>0, <2>1, <2>2, MessageDataIsTidy DEF Tidy
<1>2. CASE Clear
  BY <1>2, NullIsTidy DEF Clear, Tidy
<1>3. ASSUME NEW flags \in SUBSET (DcpBits \cup UserBits), msg' = setFlags(msg, flags)
      PROVE  IsMessage(msg')
  BY <1>3 DEF IsMessage, setFlags
<1>4. CASE SetFlags
  BY <1>0, <1>3, <1>4 DEF SetFlags
<1>5. CASE SetDcpFlags
  <2>1. PICK dcp \in SUBSET FlagBits : msg' = setFlags(msg, (msg.flags \cap UserBits) \cup dcp)
    BY <1>5 DEF SetDcpFlags, setDcpFlags
  <2>2. (msg.flags \cap UserBits) \cup dcp \in SUBSET (DcpBits \cup UserBits)
    BY MessageAssumption
  <2>3. QED BY <1>3, <2>1, <2>2
<1>6. CASE SetUserFlags
  <2>1. PICK user \in SUBSET FlagBits :
          msg' = setFlags(msg, (msg.flags \cap DcpBits) \cup {b + 8 : b \in user})
    BY <1>6 DEF SetUserFlags, setUserFlags
  <2>2. Flags({}, user) \in SUBSET (DcpBits \cup UserBits)
    BY <1>0
  <2>3. (msg.flags \cap DcpBits) \cup {b + 8 : b \in user} \in SUBSET (DcpBits \cup UserBits)
    BY <2>2 DEF Flags
  <2>4. QED BY <1>3, <2>1, <2>3
<1>7. CASE SetSnr
  BY <1>7 DEF SetSnr, setSnr, IsMessage
<1>8. CASE SetSource
  <2>1. PICK name \in Names : msg' = setSource(msg, name)
    BY <1>8 DEF SetSource
  <2>2. FitsHeader(truncate(name))
    BY MessageAssumption, TruncateFits
  <2>3. QED BY <2>1, <2>2 DEF setSource, IsMessage
<1>9. CASE SetDestination
  <2>1. PICK name \in Names : msg' = setDestination(msg, name)
    BY <1>9 DEF SetDestination
  <2>2. FitsHeader(truncate(name))
    BY MessageAssumption, TruncateFits
  <2>3. QED BY <2>1, <2>2 DEF setDestination, IsMessage
<1>10. CASE SetData
  BY <1>10 DEF SetData, setData, IsMessage
<1>11. CASE Answer
  BY <1>11, AnswersAreMessages DEF Answer, Tidy
<1>12. CASE Transfer
  BY <1>12, ReceivedIs DEF Transfer, Received, Tidy
<1>13. CASE UNCHANGED msg
  BY <1>13
<1>14. QED BY <1>1, <1>2, <1>4, <1>5, <1>6, <1>7, <1>8, <1>9, <1>10, <1>11, <1>12, <1>13
           DEF MessageNext

LEMMA FlagsOfBytes ==
  ASSUME NEW m, m.flags \subseteq DcpBits \cup UserBits
  PROVE  Flags(dcpFlags(m), userFlags(m)) = m.flags
<1> DEFINE high == {b - 8 : b \in m.flags \cap UserBits}
<1>1. {b + 8 : b \in high} = m.flags \cap UserBits
  <2>1. ASSUME NEW b \in m.flags \cap UserBits PROVE b \in {k + 8 : k \in high}
    <3>1. b - 8 \in high /\ b = (b - 8) + 8
      BY DEF UserBits
    <3> HIDE DEF high
    <3>2. QED BY <3>1
  <2>2. ASSUME NEW k \in high PROVE k + 8 \in m.flags \cap UserBits
    <3>1. PICK b \in m.flags \cap UserBits : k = b - 8
      OBVIOUS
    <3>2. k + 8 = b
      BY <3>1 DEF UserBits
    <3>3. QED BY <3>2
  <2> HIDE DEF high
  <2>3. QED BY <2>1, <2>2
<1>2. QED BY <1>1 DEF Flags, dcpFlags, userFlags

(* What is sent is what is received, whatever calls made the message         *)
(* (Message::toByteArray(), fromByteArray()): for names of any length with   *)
(* nulls anywhere, all data and all flags.                                   *)
THEOREM SentIsReceived == MessageSpec => []RoundTrips
<1>1. MessageInv => RoundTrips
  <2> SUFFICES ASSUME MessageInv PROVE RoundTrips
    OBVIOUS
  <2> USE DEF MessageInv
  <2>1. /\ Received(msg) = [isNull |-> FALSE, flags |-> msg.flags, snr |-> msg.snr,
                            source |-> stripRight(msg.source, NUL),
                            destination |-> stripRight(msg.destination, NUL), data |-> msg.data]
        /\ Tidy(Received(msg))
    BY ReceivedIs
  <2>2. Received(msg) = [msg EXCEPT !.isNull = FALSE, !.source = stripRight(@, NUL),
                                    !.destination = stripRight(@, NUL)]
    <3> DEFINE source == stripRight(msg.source, NUL)
               destination == stripRight(msg.destination, NUL)
    <3>1. PICK m : m = [msg EXCEPT !.isNull = FALSE, !.source = source, !.destination = destination]
      OBVIOUS
    <3>2. m = [isNull |-> FALSE, flags |-> msg.flags, snr |-> msg.snr,
               source |-> source, destination |-> destination, data |-> msg.data]
      <4> HIDE DEF source, destination
      <4> QED BY <3>1, Zenon DEF IsMessage
    <3>3. m = Received(msg)
      BY <2>1, <3>2, Zenon
    <3>4. QED BY <3>1, <3>3
  <2>3. Received(Received(msg)) = Received(msg)
    <3> DEFINE m == Received(msg)
    <3>1. /\ stripRight(m.source, NUL) = m.source
          /\ stripRight(m.destination, NUL) = m.destination
      BY <2>1, StripOfName DEF Tidy
    <3>2. Received(m) = [isNull |-> FALSE, flags |-> m.flags, snr |-> m.snr,
                         source |-> stripRight(m.source, NUL),
                         destination |-> stripRight(m.destination, NUL), data |-> m.data]
      BY <2>1, ReceivedIs DEF Tidy
    <3>3. /\ m.flags = msg.flags /\ m.snr = msg.snr /\ m.data = msg.data
          /\ m.source = stripRight(msg.source, NUL)
          /\ m.destination = stripRight(msg.destination, NUL)
      BY <2>1
    <3>4. Received(m) = m
      <4> HIDE DEF m
      <4>1. m = [isNull |-> FALSE, flags |-> msg.flags, snr |-> msg.snr,
                 source |-> stripRight(msg.source, NUL),
                 destination |-> stripRight(msg.destination, NUL), data |-> msg.data]
        BY <2>1 DEF m
      <4>2. QED BY <3>1, <3>2, <3>3, <4>1, Zenon
    <3>5. QED BY <3>4
  <2>4. Flags(dcpFlags(msg), userFlags(msg)) = msg.flags
    BY FlagsOfBytes DEF IsMessage
  <2>5. ASSUME NEW data \in Texts
        PROVE  fromByteArray([toByteArray(msg) EXCEPT !.data = data]).isNull
                 <=> Len(data) # Len(msg.data)
    BY DEF fromByteArray, toByteArray, NullMessage, MessageData
  <2>6. QED BY <2>2, <2>3, <2>4, <2>5 DEF RoundTrips
<1>2. QED BY InitMessage, NextMessage, <1>1, PTL DEF MessageSpec

-----------------------------------------------------------------------------
(* The parsers                                                               *)

IsReplyParser(p) == p = [args |-> p.args, isAck |-> p.isAck, errorCode |-> p.errorCode]
IsCommandParser(p) ==
  p = [args |-> p.args, command |-> p.command, identifier |-> p.identifier, cmdType |-> p.cmdType]

LEMMA ClearedIsFresh ==
  /\ \A p : IsReplyParser(p) => ReplyParserClear(p) = FreshReplyParser
  /\ \A p : IsCommandParser(p) => CommandParserClear(p) = FreshCommandParser
<1>1. ASSUME NEW p, IsReplyParser(p), NEW q, q = ReplyParserClear(p) PROVE q = FreshReplyParser
  BY <1>1, Zenon DEF IsReplyParser, ReplyParserClear, FreshReplyParser
<1>2. ASSUME NEW p, IsCommandParser(p), NEW q, q = CommandParserClear(p) PROVE q = FreshCommandParser
  BY <1>2, Zenon DEF IsCommandParser, CommandParserClear, FreshCommandParser
<1>3. QED BY <1>1, <1>2

LEMMA FreshParsers == IsReplyParser(FreshReplyParser) /\ IsCommandParser(FreshCommandParser)
BY DEF IsReplyParser, IsCommandParser, FreshReplyParser, FreshCommandParser

(* What a call returns depends on the message alone.                         *)
LEMMA ParseIsFresh ==
  ASSUME NEW m
  PROVE  /\ \A p : IsReplyParser(p) => ReplyParserParse(p, m) = ReplyParserParse(FreshReplyParser, m)
         /\ \A p : IsCommandParser(p)
              => CommandParserParse(p, m) = CommandParserParse(FreshCommandParser, m)
<1>1. ASSUME NEW p, IsReplyParser(p)
      PROVE  ReplyParserParse(p, m) = ReplyParserParse(FreshReplyParser, m)
  <2>1. ReplyParserClear(p) = ReplyParserClear(FreshReplyParser)
    BY <1>1, ClearedIsFresh, FreshParsers
  <2>2. QED BY <2>1, Zenon DEF ReplyParserParse
<1>2. ASSUME NEW p, IsCommandParser(p)
      PROVE  CommandParserParse(p, m) = CommandParserParse(FreshCommandParser, m)
  <2>1. CommandParserClear(p) = CommandParserClear(FreshCommandParser)
    BY <1>2, ClearedIsFresh, FreshParsers
  <2>2. QED BY <2>1, Zenon DEF CommandParserParse
<1>3. QED BY <1>1, <1>2

LEMMA ParsersStay ==
  ASSUME NEW m
  PROVE  /\ IsReplyParser(ReplyParserParse(FreshReplyParser, m).parser)
         /\ IsCommandParser(CommandParserParse(FreshCommandParser, m).parser)
<1>1. /\ ReplyParserClear(FreshReplyParser) = FreshReplyParser
      /\ CommandParserClear(FreshCommandParser) = FreshCommandParser
  BY ClearedIsFresh, FreshParsers
<1>2. ASSUME NEW args, NEW code, NEW isAck
      PROVE  IsReplyParser([FreshReplyParser EXCEPT !.args = args, !.errorCode = code, !.isAck = isAck])
  <2>1. PICK p : p = [FreshReplyParser EXCEPT !.args = args, !.errorCode = code, !.isAck = isAck]
    OBVIOUS
  <2>2. p = [args |-> args, isAck |-> isAck, errorCode |-> code]
    BY <2>1, Zenon DEF FreshReplyParser
  <2>3. IsReplyParser(p)
    BY <2>2 DEF IsReplyParser
  <2>4. QED BY <2>1, <2>3, Zenon
<1>3. ASSUME NEW args, NEW command, NEW identifier, NEW cmdType
      PROVE  /\ IsCommandParser([FreshCommandParser EXCEPT !.args = args])
             /\ IsCommandParser([FreshCommandParser EXCEPT !.args = args, !.command = command,
                                   !.identifier = identifier, !.cmdType = cmdType])
  <2>1. PICK p : p = [FreshCommandParser EXCEPT !.args = args]
    OBVIOUS
  <2>2. PICK q : q = [FreshCommandParser EXCEPT !.args = args, !.command = command,
                        !.identifier = identifier, !.cmdType = cmdType]
    OBVIOUS
  <2>3. /\ p = [args |-> args, command |-> <<>>, identifier |-> <<>>, cmdType |-> "set"]
        /\ q = [args |-> args, command |-> command, identifier |-> identifier, cmdType |-> cmdType]
    BY <2>1, <2>2, Zenon DEF FreshCommandParser
  <2>4. IsCommandParser(p) /\ IsCommandParser(q)
    BY <2>3 DEF IsCommandParser
  <2>5. QED BY <2>1, <2>2, <2>4, Zenon
<1>4. IsReplyParser(ReplyParserParse(FreshReplyParser, m).parser)
  BY <1>1, <1>2, FreshParsers, Zenon DEF ReplyParserParse
<1>5. IsCommandParser(CommandParserParse(FreshCommandParser, m).parser)
  BY <1>1, <1>3, FreshParsers, Zenon DEF CommandParserParse
<1>6. QED BY <1>4, <1>5

\* The parsers have their members, which is all that the next call takes from them.
ParserInv == IsReplyParser(replyParser) /\ IsCommandParser(commandParser) /\ NoLeftovers

LEMMA NoWords == Words(<<>>) = <<>>
<1>1. {i \in DOMAIN <<>> : <<>>[i] # Blank /\ (i = 1 \/ <<>>[i - 1] = Blank)} = {}
  OBVIOUS
<1>2. Cardinality({}) = 0
  BY FS_EmptySet
<1>3. QED BY <1>1, <1>2 DEF Words

LEMMA InitParser == ParserInit => ParserInv
<1> SUFFICES ASSUME ParserInit PROVE ParserInv
  OBVIOUS
<1>1. ~isReply(NullMessage) /\ NullMessage.data = <<>>
  BY DEF isReply, NullMessage
<1>2. ReplyParserParse(FreshReplyParser, NullMessage) = [ok |-> FALSE, parser |-> FreshReplyParser]
  BY <1>1, ClearedIsFresh, FreshParsers, Zenon DEF ReplyParserParse
<1>3. /\ Words(NullMessage.data) = <<>>
      /\ Len(Words(NullMessage.data)) < 2
  BY <1>1, NoWords
<1>4. ASSUME NEW p, p = [FreshCommandParser EXCEPT !.args = <<>>]
      PROVE  p = FreshCommandParser
  BY <1>4, Zenon DEF FreshCommandParser
<1>5. CommandParserParse(FreshCommandParser, NullMessage) = [ok |-> FALSE, parser |-> FreshCommandParser]
  <2>1. CommandParserParse(FreshCommandParser, NullMessage)
          = [ok |-> FALSE, parser |-> [FreshCommandParser EXCEPT !.args = Words(NullMessage.data)]]
    BY <1>1, <1>3, ClearedIsFresh, FreshParsers, Zenon DEF CommandParserParse
  <2>2. [FreshCommandParser EXCEPT !.args = Words(NullMessage.data)] = FreshCommandParser
    BY <1>3, <1>4
  <2>3. QED BY <2>1, <2>2
<1>6. /\ replyParser = FreshReplyParser /\ commandParser = FreshCommandParser
      /\ replyCall.msg = NullMessage /\ replyCall.ok = FALSE
      /\ commandCall.msg = NullMessage /\ commandCall.ok = FALSE
  BY DEF ParserInit, NoCall
<1>7. NoLeftovers
  <2>1. /\ ReplyParserParse(FreshReplyParser, NullMessage).ok = FALSE
        /\ ReplyParserParse(FreshReplyParser, NullMessage).parser = FreshReplyParser
    BY <1>2
  <2>2. /\ CommandParserParse(FreshCommandParser, NullMessage).ok = FALSE
        /\ CommandParserParse(FreshCommandParser, NullMessage).parser = FreshCommandParser
    BY <1>5
  <2>3. QED BY <1>6, <2>1, <2>2, Zenon DEF NoLeftovers
<1>8. QED BY <1>6, <1>7, FreshParsers DEF ParserInv

LEMMA NextParser == ParserInv /\ [ParserNext]_parserVars => ParserInv'
<1> SUFFICES ASSUME ParserInv, [ParserNext]_parserVars PROVE ParserInv'
  OBVIOUS
<1>1. ASSUME NEW m \in ParsedMessages, ParseReply(m) PROVE ParserInv'
  <2>1. ReplyParserParse(replyParser, m) = ReplyParserParse(FreshReplyParser, m)
    BY ParseIsFresh, Zenon DEF ParserInv
  <2>2. /\ replyParser' = ReplyParserParse(FreshReplyParser, m).parser
        /\ replyCall' = [msg |-> m, ok |-> ReplyParserParse(FreshReplyParser, m).ok]
        /\ UNCHANGED <<commandParser, commandCall>>
    BY <1>1, <2>1, Zenon DEF ParseReply
  <2>3. IsReplyParser(replyParser')
    BY <2>2, ParsersStay, Zenon
  <2>4. replyCall'.msg = m /\ replyCall'.ok = ReplyParserParse(FreshReplyParser, m).ok
    BY <2>2
  <2>5. QED BY <2>2, <2>3, <2>4, Zenon DEF ParserInv, NoLeftovers
<1>2. ASSUME NEW m \in ParsedMessages, ParseCommand(m) PROVE ParserInv'
  <2>1. CommandParserParse(commandParser, m) = CommandParserParse(FreshCommandParser, m)
    BY ParseIsFresh, Zenon DEF ParserInv
  <2>2. /\ commandParser' = CommandParserParse(FreshCommandParser, m).parser
        /\ commandCall' = [msg |-> m, ok |-> CommandParserParse(FreshCommandParser, m).ok]
        /\ UNCHANGED <<replyParser, replyCall>>
    BY <1>2, <2>1, Zenon DEF ParseCommand
  <2>3. IsCommandParser(commandParser')
    BY <2>2, ParsersStay, Zenon
  <2>4. commandCall'.msg = m /\ commandCall'.ok = CommandParserParse(FreshCommandParser, m).ok
    BY <2>2
  <2>5. QED BY <2>2, <2>3, <2>4, Zenon DEF ParserInv, NoLeftovers
<1>3. CASE UNCHANGED parserVars
  BY <1>3 DEF parserVars, ParserInv, NoLeftovers
<1>4. QED BY <1>1, <1>2, <1>3 DEF ParserNext

(* What a parser says of a message is what a new parser would say of it,     *)
(* whatever it has parsed before (ReplyParser::parse(),                      *)
(* CommandParser::parse() and their clear()): for all texts.                 *)
THEOREM NothingIsLeftBehind == ParserSpec => []NoLeftovers
<1>1. ParserInv => NoLeftovers
  BY DEF ParserInv
<1>2. QED BY InitParser, NextParser, <1>1, PTL DEF ParserSpec

-----------------------------------------------------------------------------
(* Induction.                                                                *)

LEMMA ByCounting ==
  ASSUME NEW S, 0 \in S, \A n \in Nat : n \in S => n + 1 \in S
  PROVE  Nat \subseteq S
<1> DEFINE others == {n \in Nat : n \notin S}
<1>1. ASSUME others # {} PROVE FALSE
  <2>1. PICK n \in others : \A k \in others : n <= k
    <3>1. others \in SUBSET Nat
      OBVIOUS
    <3> HIDE DEF others
    <3>2. QED BY <1>1, <3>1, LeastNumber
  <2>2. n \in Nat /\ n \notin S /\ n # 0 /\ n - 1 \in Nat
    OBVIOUS
  <2>3. n - 1 \in S
    BY <2>1, <2>2
  <2>4. (n - 1) + 1 \in S
    BY <2>2, <2>3
  <2>5. QED BY <2>2, <2>4
<1>2. QED BY <1>1

LEMMA Appended ==
  ASSUME NEW E, NEW s \in Seq(E), NEW x \in E
  PROVE  /\ Append(s, x) \in Seq(E) /\ Append(s, x) # <<>>
         /\ Len(s) \in Nat /\ Len(Append(s, x)) = Len(s) + 1
         /\ Append(s, x)[Len(s) + 1] = x
         /\ \A i \in 1..Len(s) : Append(s, x)[i] = s[i]
OBVIOUS

\* Induction over sequences: what holds of none and of one more holds of all.
LEMMA ByAppending ==
  ASSUME NEW E, NEW S, <<>> \in S, \A s \in Seq(E), c \in E : s \in S => Append(s, c) \in S
  PROVE  Seq(E) \subseteq S
<1> SUFFICES ASSUME NEW d \in Seq(E) PROVE d \in S
  OBVIOUS
<1> DEFINE T == {n \in Nat : n <= Len(d) => SubSeq(d, 1, n) \in S}
<1>1. 0 \in T
  <2>1. SubSeq(d, 1, 0) = <<>>
    OBVIOUS
  <2>2. QED BY <2>1
<1>2. ASSUME NEW n \in Nat, n \in T PROVE n + 1 \in T
  <2>1. ASSUME n + 1 <= Len(d) PROVE SubSeq(d, 1, n + 1) \in S
    <3>1. SubSeq(d, 1, n) \in S /\ SubSeq(d, 1, n) \in Seq(E) /\ d[n + 1] \in E
      BY <1>2, <2>1
    <3>2. SubSeq(d, 1, n + 1) = Append(SubSeq(d, 1, n), d[n + 1])
      BY <2>1
    <3>3. QED BY <3>1, <3>2
  <2>2. QED BY <2>1
<1>3. Nat \subseteq T
  <2> HIDE DEF T
  <2>1. QED BY <1>1, <1>2, ByCounting
<1>4. Len(d) \in Nat /\ Len(d) <= Len(d) /\ SubSeq(d, 1, Len(d)) = d
  OBVIOUS
<1>5. Len(d) \in T
  <2> HIDE DEF T
  <2>1. QED BY <1>3, <1>4
<1>6. SubSeq(d, 1, Len(d)) \in S
  BY <1>4, <1>5, Zenon
<1>7. QED BY <1>4, <1>6, Zenon

-----------------------------------------------------------------------------
(* One sequence after the other.                                             *)

\* f has what the first of the sequences s make together.
Flattens(f, s) == f = [i \in 1..Len(s) |-> IF i = 1 THEN s[i] ELSE f[i - 1] \o s[i]]

LEMMA FlattensOnce ==
  ASSUME NEW s, Len(s) \in Nat, NEW f, Flattens(f, s), NEW g, Flattens(g, s)
  PROVE  f = g
<1> DEFINE T == {n \in Nat : n \in 1..Len(s) => f[n] = g[n]}
<1>1. 0 \in T
  OBVIOUS
<1>2. ASSUME NEW n \in Nat, n \in T PROVE n + 1 \in T
  <2>1. CASE n + 1 = 1 /\ n + 1 \in 1..Len(s)
    <3>1. f[1] = s[1] /\ g[1] = s[1]
      BY <2>1 DEF Flattens
    <3>2. QED BY <2>1, <3>1
  <2>2. CASE n + 1 # 1 /\ n + 1 \in 1..Len(s)
    <3>1. n \in 1..Len(s) /\ (n + 1) - 1 = n
      BY <2>2
    <3>2. f[n] = g[n]
      BY <1>2, <3>1
    <3>3. f[n + 1] = f[n] \o s[n + 1] /\ g[n + 1] = g[n] \o s[n + 1]
      BY <2>2, <3>1 DEF Flattens
    <3>4. f[n + 1] = g[n + 1]
      BY <3>2, <3>3, Zenon
    <3>5. QED BY <3>4
  <2>3. QED BY <2>1, <2>2
<1>3. Nat \subseteq T
  <2> HIDE DEF T
  <2>1. QED BY <1>1, <1>2, ByCounting
<1>4. ASSUME NEW n \in 1..Len(s) PROVE f[n] = g[n]
  BY <1>3
<1>5. f = [n \in 1..Len(s) |-> f[n]] /\ g = [n \in 1..Len(s) |-> g[n]]
  BY DEF Flattens
<1>6. QED BY <1>4, <1>5

LEMMA FlattenIs ==
  ASSUME NEW s, Len(s) \in Nat \ {0}, NEW f, Flattens(f, s)
  PROVE  FlattenSeq(s) = f[Len(s)]
<1>1. (CHOOSE g : Flattens(g, s)) = f
  <2>1. \A g : Flattens(g, s) => g = f
    BY FlattensOnce
  <2>2. QED BY <2>1
<1>2. FlattenSeq(s) = (CHOOSE g : Flattens(g, s))[Len(s)]
  BY DEF FlattenSeq, Flattens
<1>3. QED BY <1>1, <1>2

\* The sequences up to each of them in one.
Flat(E, s, f) == Flattens(f, s) /\ \A i \in 1..Len(s) : f[i] \in Seq(E)

\* One sequence more.
LEMMA FlattensNext ==
  ASSUME NEW E, NEW s \in Seq(Seq(E)), NEW x \in Seq(E), NEW f, Flat(E, s, f)
  PROVE  \E g : /\ Flat(E, Append(s, x), g)
                /\ g[Len(s) + 1] = IF s = <<>> THEN x ELSE f[Len(s)] \o x
                /\ \A i \in 1..Len(s) : g[i] = f[i]
<1>1. PICK t \in Seq(Seq(E)) : t = Append(s, x)
  BY Appended
<1>2. /\ Len(t) = Len(s) + 1 /\ t[Len(s) + 1] = x
      /\ \A i \in 1..Len(s) : t[i] = s[i]
      /\ Len(s) \in Nat
  BY <1>1, Appended
<1>3. PICK last : last = IF s = <<>> THEN x ELSE f[Len(s)] \o x
  OBVIOUS
<1>4. last \in Seq(E)
  BY <1>3 DEF Flat
<1>5. PICK g : g = [i \in 1..Len(t) |-> IF i = Len(t) THEN last ELSE f[i]]
  OBVIOUS
<1>6. ASSUME NEW i \in 1..Len(t)
      PROVE  /\ g[i] = IF i = 1 THEN t[i] ELSE g[i - 1] \o t[i]
             /\ g[i] \in Seq(E)
  <2>1. CASE i = Len(t) /\ i = 1
    <3>1. s = <<>>
      BY <1>2, <2>1
    <3>2. QED BY <1>2, <1>3, <1>4, <1>5, <2>1, <3>1
  <2>2. CASE i = Len(t) /\ i # 1
    <3>1. s # <<>> /\ i - 1 = Len(s) /\ i - 1 \in 1..Len(t) /\ i - 1 # Len(t)
      BY <1>2, <2>2
    <3>2. g[i - 1] = f[i - 1]
      BY <1>5, <3>1
    <3>3. g[i] = f[Len(s)] \o x
      BY <1>3, <1>5, <2>2, <3>1
    <3>4. g[i] = g[i - 1] \o t[i]
      BY <1>2, <2>2, <3>1, <3>2, <3>3
    <3>5. QED BY <1>4, <1>5, <2>2, <3>4
  <2>3. CASE i # Len(t)
    <3>1. i \in 1..Len(s) /\ g[i] = f[i] /\ t[i] = s[i] /\ f[i] \in Seq(E)
      BY <1>2, <1>5, <2>3 DEF Flat
    <3>2. f[i] = IF i = 1 THEN s[i] ELSE f[i - 1] \o s[i]
      BY <3>1 DEF Flat, Flattens
    <3>3. i # 1 => g[i - 1] = f[i - 1]
      BY <1>2, <1>5, <3>1
    <3>4. QED BY <3>1, <3>2, <3>3
  <2>4. QED BY <2>1, <2>2, <2>3
<1>7. Flat(E, t, g)
  BY <1>5, <1>6, Zenon DEF Flat, Flattens
<1>8. g[Len(s) + 1] = last /\ \A i \in 1..Len(s) : g[i] = f[i]
  BY <1>2, <1>5
<1>9. QED BY <1>1, <1>3, <1>7, <1>8

LEMMA FlattensSome ==
  ASSUME NEW E, NEW s \in Seq(Seq(E))
  PROVE  \E f : Flat(E, s, f)
<1> DEFINE T == {t \in Seq(Seq(E)) : \E f : Flat(E, t, f)}
<1>1. <<>> \in T
  <2>1. PICK f : f = [i \in 1..0 |-> 0]
    OBVIOUS
  <2>2. Flat(E, <<>>, f)
    BY <2>1 DEF Flat, Flattens
  <2>3. QED BY <2>2
<1>2. ASSUME NEW t \in Seq(Seq(E)), NEW x \in Seq(E), t \in T PROVE Append(t, x) \in T
  BY <1>2, FlattensNext
<1>3. Seq(Seq(E)) \subseteq T
  <2> HIDE DEF T
  <2>1. QED BY <1>1, <1>2, ByAppending
<1>4. QED BY <1>3

LEMMA FlattenNone == FlattenSeq(<<>>) = <<>>
BY DEF FlattenSeq

\* FlattenSeq() puts the last sequence after the others.
LEMMA FlattenMore ==
  ASSUME NEW E, NEW s \in Seq(Seq(E)), NEW x \in Seq(E)
  PROVE  /\ FlattenSeq(s) \in Seq(E)
         /\ FlattenSeq(Append(s, x)) = FlattenSeq(s) \o x
<1>1. PICK f : Flat(E, s, f)
  BY FlattensSome
<1>2. PICK g : /\ Flat(E, Append(s, x), g)
               /\ g[Len(s) + 1] = IF s = <<>> THEN x ELSE f[Len(s)] \o x
  BY <1>1, FlattensNext
<1>3. PICK t \in Seq(Seq(E)) : t = Append(s, x)
  BY Appended
<1>4. Len(t) = Len(s) + 1 /\ Len(t) \in Nat \ {0} /\ Len(s) \in Nat
  BY <1>3, Appended
<1>5. FlattenSeq(t) = g[Len(s) + 1]
  BY <1>2, <1>3, <1>4, FlattenIs DEF Flat
<1>6. CASE s = <<>>
  <2>1. FlattenSeq(s) = <<>>
    BY <1>6, FlattenNone
  <2>2. <<>> \o x = x
    OBVIOUS
  <2>3. FlattenSeq(t) = x
    BY <1>2, <1>5, <1>6, Zenon
  <2>4. FlattenSeq(t) = FlattenSeq(s) \o x
    BY <2>1, <2>2, <2>3, Zenon
  <2>5. FlattenSeq(s) \in Seq(E)
    BY <2>1
  <2>6. QED BY <1>3, <2>4, <2>5, Zenon
<1>7. CASE s # <<>>
  <2>1. Len(s) \in Nat \ {0}
    BY <1>7
  <2>2. FlattenSeq(s) = f[Len(s)]
    BY <1>1, <2>1, FlattenIs DEF Flat
  <2>3. f[Len(s)] \in Seq(E)
    BY <1>1, <2>1 DEF Flat
  <2>4. QED BY <1>2, <1>3, <1>5, <1>7, <2>2, <2>3
<1>8. QED BY <1>6, <1>7

-----------------------------------------------------------------------------
(* The n-th of a set of numbers.                                             *)

\* How many numbers of a set are up to one of them: its place in the set.
UpToIn(S, i) == {j \in S : j <= i}

\* No two of them have one place.
LEMMA Counting ==
  ASSUME NEW S \in SUBSET Nat, IsFiniteSet(S), NEW i \in S
  PROVE  /\ Cardinality(UpToIn(S, i)) \in 1..Cardinality(S)
         /\ \A k \in S : Cardinality(UpToIn(S, i)) = Cardinality(UpToIn(S, k)) => i = k
<1>1. ASSUME NEW k \in S
      PROVE  /\ IsFiniteSet(UpToIn(S, k)) /\ Cardinality(UpToIn(S, k)) \in Nat
             /\ Cardinality(UpToIn(S, k)) <= Cardinality(S)
  <2>1. UpToIn(S, k) \subseteq S
    BY DEF UpToIn
  <2>2. IsFiniteSet(UpToIn(S, k)) /\ Cardinality(UpToIn(S, k)) <= Cardinality(S)
    BY <2>1, FS_Subset
  <2>3. QED BY <2>2, FS_CardinalityType
<1>2. Cardinality(UpToIn(S, i)) # 0
  <2>1. i \in UpToIn(S, i)
    BY DEF UpToIn
  <2>2. QED BY <1>1, <2>1, FS_EmptySet
<1>3. ASSUME NEW k \in S, NEW l \in S, k < l
      PROVE  Cardinality(UpToIn(S, k)) # Cardinality(UpToIn(S, l))
  <2>1. UpToIn(S, k) \subseteq UpToIn(S, l) /\ l \in UpToIn(S, l) /\ l \notin UpToIn(S, k)
    <3>1. k \in Nat /\ l \in Nat /\ l <= l /\ ~(l <= k) /\ \A j \in S : j \in Nat
      BY <1>3
    <3>2. /\ \A j : j \in UpToIn(S, k) <=> j \in S /\ j <= k
          /\ \A j : j \in UpToIn(S, l) <=> j \in S /\ j <= l
      BY DEF UpToIn
    <3>3. \A j \in S : j <= k => j <= l
      BY <1>3, <3>1
    <3>4. QED BY <3>1, <3>2, <3>3
  <2>2. Cardinality(UpToIn(S, k)) = Cardinality(UpToIn(S, l)) => UpToIn(S, k) = UpToIn(S, l)
    BY <1>1, <2>1, FS_Subset
  <2>3. QED BY <2>1, <2>2
<1>4. ASSUME NEW k \in S, Cardinality(UpToIn(S, i)) = Cardinality(UpToIn(S, k))
      PROVE  i = k
  <2>1. ~(i < k) /\ ~(k < i)
    BY <1>3, <1>4, Zenon
  <2>2. QED BY <2>1
<1>5. Cardinality(S) \in Nat
  BY FS_CardinalityType
<1>6. QED BY <1>1, <1>2, <1>4, <1>5

\* Every number up to how many there are is taken by one of them.
LEMMA Numbering ==
  ASSUME NEW S \in SUBSET Nat, IsFiniteSet(S), NEW n \in 1..Cardinality(S)
  PROVE  \E i \in S : Cardinality(UpToIn(S, i)) = n
<1>1. PICK c \in Nat : c = Cardinality(S)
  BY FS_CardinalityType
<1>2. PICK f : f = [i \in S |-> Cardinality(UpToIn(S, i))]
  OBVIOUS
<1>3. f \in Injection(S, 1..c)
  BY <1>1, <1>2, Counting DEF Injection, IsInjective
<1>4. IsFiniteSet(1..c) /\ Cardinality(1..c) = c
  BY <1>1, FS_Interval
<1>5. f \in Surjection(S, 1..c)
  BY <1>1, <1>3, <1>4, FS_Injection
<1>6. QED BY <1>1, <1>2, <1>5 DEF Surjection

LEMMA NthIs ==
  ASSUME NEW S \in SUBSET Nat, IsFiniteSet(S), NEW i \in S
  PROVE  Nth(S, Cardinality(UpToIn(S, i))) = i
<1> DEFINE n == Cardinality(UpToIn(S, i))
<1>1. \A k \in S : Cardinality(UpToIn(S, k)) = n => k = i
  BY Counting
<1>2. (CHOOSE k \in S : Cardinality(UpToIn(S, k)) = n) = i
  BY <1>1
<1>3. Nth(S, n) = CHOOSE k \in S : Cardinality(UpToIn(S, k)) = n
  BY DEF Nth, UpToIn
<1>4. QED BY <1>2, <1>3

\* The n-th is in the set, at place n.
LEMMA NthOf ==
  ASSUME NEW S \in SUBSET Nat, IsFiniteSet(S), NEW n \in 1..Cardinality(S)
  PROVE  Nth(S, n) \in S /\ Cardinality(UpToIn(S, Nth(S, n))) = n
<1>1. PICK i \in S : Cardinality(UpToIn(S, i)) = n
  BY Numbering
<1>2. Nth(S, n) = i
  BY <1>1, NthIs
<1>3. QED BY <1>1, <1>2

\* The greatest is the last.
LEMMA NthLast ==
  ASSUME NEW S \in SUBSET Nat, IsFiniteSet(S), S # {}
  PROVE  /\ Cardinality(S) \in Nat \ {0}
         /\ Nth(S, Cardinality(S)) \in S
         /\ \A j \in S : j <= Nth(S, Cardinality(S))
         /\ \A n \in 1..Cardinality(S) : n # Cardinality(S) => Nth(S, n) < Nth(S, Cardinality(S))
<1>1. PICK c : c = Cardinality(S)
  OBVIOUS
<1>2. c \in Nat \ {0}
  BY <1>1, FS_CardinalityType, FS_EmptySet
<1>3. PICK m : m = Nth(S, c)
  OBVIOUS
<1>4. m \in S /\ Cardinality(UpToIn(S, m)) = c
  BY <1>1, <1>2, <1>3, NthOf
<1>5. UpToIn(S, m) \subseteq S
  BY DEF UpToIn
<1>6. UpToIn(S, m) = S
  BY <1>1, <1>4, <1>5, FS_Subset
<1>7. \A j \in S : j <= m
  BY <1>6 DEF UpToIn
<1>8. ASSUME NEW n \in 1..c, n # c PROVE Nth(S, n) < m
  <2>1. Nth(S, n) \in S /\ Cardinality(UpToIn(S, Nth(S, n))) = n
    BY <1>1, NthOf
  <2>2. Nth(S, n) # m
    BY <1>4, <1>8, <2>1
  <2>3. Nth(S, n) <= m /\ Nth(S, n) \in Nat /\ m \in Nat
    BY <1>4, <1>7, <2>1
  <2>4. QED BY <2>2, <2>3
<1>9. QED BY <1>1, <1>2, <1>3, <1>4, <1>7, <1>8

\* A greater number in the set is the last, and the others stay where they are.
LEMMA NthMore ==
  ASSUME NEW S \in SUBSET Nat, IsFiniteSet(S), NEW m \in Nat, \A j \in S : j < m
  PROVE  /\ IsFiniteSet(S \cup {m}) /\ Cardinality(S \cup {m}) = Cardinality(S) + 1
         /\ Cardinality(S) \in Nat
         /\ Nth(S \cup {m}, Cardinality(S) + 1) = m
         /\ \A n \in 1..Cardinality(S) : Nth(S \cup {m}, n) = Nth(S, n) /\ Nth(S, n) \in S
<1>1. PICK T \in SUBSET Nat : T = S \cup {m}
  OBVIOUS
<1>2. m \notin S
  OBVIOUS
<1>3. IsFiniteSet(T) /\ Cardinality(T) = Cardinality(S) + 1 /\ Cardinality(S) \in Nat
  BY <1>1, <1>2, FS_AddElement, FS_CardinalityType
<1>4. UpToIn(T, m) = T
  <2>1. m <= m /\ \A j \in S : j <= m
    OBVIOUS
  <2>2. QED BY <1>1, <2>1 DEF UpToIn
<1>5. Nth(T, Cardinality(S) + 1) = m
  BY <1>1, <1>3, <1>4, NthIs
<1>6. ASSUME NEW n \in 1..Cardinality(S) PROVE Nth(T, n) = Nth(S, n) /\ Nth(S, n) \in S
  <2>1. PICK i \in S : i = Nth(S, n)
    BY NthOf
  <2>2. Cardinality(UpToIn(S, i)) = n
    BY <2>1, NthOf
  <2>3. UpToIn(T, i) = UpToIn(S, i)
    <3>1. ~(m <= i)
      OBVIOUS
    <3>2. QED BY <1>1, <3>1 DEF UpToIn
  <2>4. i \in T
    BY <1>1
  <2>5. Nth(T, n) = i
    BY <1>3, <2>2, <2>3, <2>4, NthIs
  <2>6. QED BY <2>1, <2>5
<1>7. QED BY <1>1, <1>3, <1>5, <1>6

-----------------------------------------------------------------------------
(* The words of a text, as one character after the other is added.           *)

\* The characters of a text: strings, as are those that the code names.
Chars == STRING \cup {Blank, "%", "-", "ACK", "FIN"}
           \cup {"0", "1", "2", "3", "4", "5", "6", "7", "8", "9"}

\* Where the words of a text begin.
Starts(data) == {i \in DOMAIN data : data[i] # Blank /\ (i = 1 \/ data[i - 1] = Blank)}

\* A word from i on ends at k.
EndsAt(data, i, k) ==
  /\ k \in i..Len(data)
  /\ \A j \in i..k : data[j] # Blank
  /\ k = Len(data) \/ data[k + 1] = Blank

EndOfWord(data, i) == CHOOSE k \in i..Len(data) :
                        /\ \A j \in i..k : data[j] # Blank
                        /\ k = Len(data) \/ data[k + 1] = Blank

LEMMA WordsAre ==
  ASSUME NEW data
  PROVE  Words(data) = [n \in 1..Cardinality(Starts(data)) |->
                          SubSeq(data, Nth(Starts(data), n), EndOfWord(data, Nth(Starts(data), n)))]
BY DEF Words, Starts, EndOfWord

LEMMA StartsAreNumbers ==
  ASSUME NEW data \in Seq(Chars)
  PROVE  /\ Starts(data) \in SUBSET Nat /\ Starts(data) \subseteq 1..Len(data)
         /\ IsFiniteSet(Starts(data)) /\ Cardinality(Starts(data)) \in Nat
<1>1. Starts(data) \subseteq 1..Len(data) /\ Len(data) \in Nat
  BY DEF Starts
<1>2. IsFiniteSet(1..Len(data))
  BY <1>1, FS_Interval
<1>3. IsFiniteSet(Starts(data))
  BY <1>1, <1>2, FS_Subset
<1>4. QED BY <1>1, <1>3, FS_CardinalityType

\* There is one end of a word, and there is one.
LEMMA EndIs ==
  ASSUME NEW data \in Seq(Chars), NEW i \in 1..Len(data), NEW k, EndsAt(data, i, k)
  PROVE  EndOfWord(data, i) = k
<1>1. ASSUME NEW l \in i..Len(data), EndsAt(data, i, l) PROVE l = k
  <2>1. /\ k \in i..Len(data) /\ \A j \in i..k : data[j] # Blank
        /\ k = Len(data) \/ data[k + 1] = Blank
    BY DEF EndsAt
  <2>2. /\ \A j \in i..l : data[j] # Blank
        /\ l = Len(data) \/ data[l + 1] = Blank
    BY <1>1 DEF EndsAt
  <2>3. ~(k < l)
    <3>1. k < l => k + 1 \in i..l /\ k # Len(data)
      BY <2>1
    <3>2. QED BY <2>1, <2>2, <3>1
  <2>4. ~(l < k)
    <3>1. l < k => l + 1 \in i..k /\ l # Len(data)
      BY <2>1
    <3>2. QED BY <2>1, <2>2, <3>1
  <2>5. QED BY <2>1, <2>3, <2>4
<1>2. k \in i..Len(data)
  BY DEF EndsAt
<1>3. EndOfWord(data, i) = CHOOSE l \in i..Len(data) : EndsAt(data, i, l)
  BY DEF EndOfWord, EndsAt
<1>4. QED BY <1>1, <1>2, <1>3

LEMMA EndSome ==
  ASSUME NEW data \in Seq(Chars), NEW i \in 1..Len(data), data[i] # Blank
  PROVE  \E k \in i..Len(data) : EndsAt(data, i, k)
<1> DEFINE ends == {k \in i..Len(data) : k = Len(data) \/ data[k + 1] = Blank}
<1>1. ends \in SUBSET Nat /\ Len(data) \in ends
  OBVIOUS
<1>2. PICK k \in ends : \A l \in ends : k <= l
  <2> HIDE DEF ends
  <2>1. QED BY <1>1, LeastNumber
<1>3. k \in i..Len(data) /\ (k = Len(data) \/ data[k + 1] = Blank)
  OBVIOUS
<1>4. ASSUME NEW j \in i..k PROVE data[j] # Blank
  <2> SUFFICES ASSUME data[j] = Blank PROVE FALSE
    OBVIOUS
  <2>1. j # i
    OBVIOUS
  <2>2. j - 1 \in i..Len(data) /\ (j - 1) + 1 = j
    BY <1>3, <2>1
  <2>3. j - 1 \in ends
    BY <2>2
  <2>4. k <= j - 1
    BY <1>2, <2>3
  <2>5. QED BY <1>3, <2>4
<1>5. QED BY <1>3, <1>4 DEF EndsAt

\* The text with one character more.
Longer(data, c, more) ==
  /\ more \in Seq(Chars) /\ Len(data) \in Nat /\ Len(more) = Len(data) + 1
  /\ more[Len(data) + 1] = c
  /\ \A i \in 1..Len(data) : more[i] = data[i]

LEMMA LongerIs ==
  ASSUME NEW data \in Seq(Chars), NEW c \in Chars
  PROVE  Longer(data, c, Append(data, c))
BY DEF Longer

LEMMA LongerParts ==
  ASSUME NEW data \in Seq(Chars), NEW c \in Chars, NEW more, Longer(data, c, more),
         NEW i \in 1..Len(data), NEW k \in i..Len(data)
  PROVE  SubSeq(more, i, k) = SubSeq(data, i, k)
<1>1. /\ more \in Seq(Chars) /\ Len(more) = Len(data) + 1
      /\ \A j \in 1..Len(data) : more[j] = data[j]
  BY DEF Longer
<1>2. SubSeq(more, i, k) \in Seq(Chars) /\ Len(SubSeq(more, i, k)) = k - i + 1
  BY <1>1
<1>3. SubSeq(data, i, k) \in Seq(Chars) /\ Len(SubSeq(data, i, k)) = k - i + 1
  OBVIOUS
<1>4. ASSUME NEW j \in 1..(k - i + 1) PROVE SubSeq(more, i, k)[j] = SubSeq(data, i, k)[j]
  <2>1. SubSeq(more, i, k)[j] = more[i + j - 1] /\ SubSeq(data, i, k)[j] = data[i + j - 1]
    BY <1>1
  <2>2. QED BY <1>1, <2>1
<1>5. QED BY <1>2, <1>3, <1>4, SeqEqual

\* A character begins a word where no other stands before it.
LEMMA StartsOfLonger ==
  ASSUME NEW data \in Seq(Chars), NEW c \in Chars, NEW more, Longer(data, c, more)
  PROVE  Starts(more) = Starts(data)
           \cup (IF c # Blank /\ (data = <<>> \/ data[Len(data)] = Blank)
                 THEN {Len(data) + 1} ELSE {})
<1>1. /\ more \in Seq(Chars) /\ Len(data) \in Nat /\ Len(more) = Len(data) + 1
      /\ more[Len(data) + 1] = c
      /\ \A j \in 1..Len(data) : more[j] = data[j]
  BY DEF Longer
<1>2. ASSUME NEW i \in 1..Len(data) PROVE i \in Starts(more) <=> i \in Starts(data)
  <2>1. i # 1 => i - 1 \in 1..Len(data)
    OBVIOUS
  <2>2. QED BY <1>1, <2>1 DEF Starts
<1>3. Len(data) + 1 \in Starts(more) <=> c # Blank /\ (data = <<>> \/ data[Len(data)] = Blank)
  <2>1. Len(data) + 1 = 1 <=> data = <<>>
    BY <1>1
  <2>2. data # <<>> => Len(data) \in 1..Len(data) /\ (Len(data) + 1) - 1 = Len(data)
    BY <1>1
  <2>3. Len(data) + 1 \in Starts(more)
          <=> more[Len(data) + 1] # Blank
                /\ (Len(data) + 1 = 1 \/ more[(Len(data) + 1) - 1] = Blank)
    <3>1. PICK n \in 1..Len(more) : n = Len(data) + 1
      BY <1>1
    <3>2. n \in Starts(more) <=> more[n] # Blank /\ (n = 1 \/ more[n - 1] = Blank)
      BY <1>1 DEF Starts
    <3>3. QED BY <3>1, <3>2
  <2>4. data # <<>> => more[Len(data)] = data[Len(data)]
    BY <1>1, <2>2
  <2>5. QED BY <1>1, <2>1, <2>2, <2>3, <2>4
<1>4. Starts(more) \subseteq 1..(Len(data) + 1) /\ Starts(data) \subseteq 1..Len(data)
  BY <1>1 DEF Starts
<1>5. ASSUME NEW i PROVE i \in 1..(Len(data) + 1) <=> i \in 1..Len(data) \/ i = Len(data) + 1
  BY <1>1
<1>6. Len(data) + 1 \notin 1..Len(data)
  BY <1>1
<1>7. QED BY <1>2, <1>3, <1>4, <1>5, <1>6

\* A word that has ended is not changed.
LEMMA WordStays ==
  ASSUME NEW data \in Seq(Chars), NEW c \in Chars, NEW more, Longer(data, c, more),
         NEW i \in 1..Len(data), NEW k, EndsAt(data, i, k), k # Len(data) \/ c = Blank
  PROVE  SubSeq(more, i, EndOfWord(more, i)) = SubSeq(data, i, EndOfWord(data, i))
<1>1. /\ more \in Seq(Chars) /\ Len(data) \in Nat /\ Len(more) = Len(data) + 1
      /\ more[Len(data) + 1] = c
      /\ \A j \in 1..Len(data) : more[j] = data[j]
  BY DEF Longer
<1>2. /\ k \in i..Len(data) /\ \A j \in i..k : data[j] # Blank
      /\ k = Len(data) \/ data[k + 1] = Blank
  BY DEF EndsAt
<1>3. k \in i..Len(more) /\ i \in 1..Len(more)
  BY <1>1, <1>2
<1>4. \A j \in i..k : more[j] # Blank
  BY <1>1, <1>2
<1>5. more[k + 1] = Blank
  <2>1. CASE k = Len(data)
    BY <1>1, <2>1
  <2>2. CASE k # Len(data)
    <3>1. data[k + 1] = Blank /\ k + 1 \in 1..Len(data)
      BY <1>2, <2>2
    <3>2. QED BY <1>1, <3>1
  <2>3. QED BY <2>1, <2>2
<1>6. EndsAt(more, i, k)
  BY <1>3, <1>4, <1>5 DEF EndsAt
<1>7. EndOfWord(more, i) = k /\ EndOfWord(data, i) = k
  BY <1>1, <1>3, <1>6, EndIs
<1>8. k \in i..Len(data)
  BY <1>2
<1>9. SubSeq(more, i, k) = SubSeq(data, i, k)
  BY <1>8, LongerParts
<1>10. QED BY <1>7, <1>9, Zenon

LEMMA AppendForm ==
  ASSUME NEW E, NEW w \in Seq(E), NEW x \in E
  PROVE  Append(w, x) = [n \in 1..(Len(w) + 1) |-> IF n = Len(w) + 1 THEN x ELSE w[n]]
<1>1. PICK g : g = [n \in 1..(Len(w) + 1) |-> IF n = Len(w) + 1 THEN x ELSE w[n]]
  OBVIOUS
<1>2. g \in Seq(E) /\ Len(g) = Len(w) + 1
  <2>1. Len(w) \in Nat /\ \A n \in 1..(Len(w) + 1) : g[n] \in E
    BY <1>1
  <2>2. QED BY <1>1, <2>1
<1>3. /\ Append(w, x) \in Seq(E) /\ Len(Append(w, x)) = Len(w) + 1 /\ Len(w) \in Nat
      /\ Append(w, x)[Len(w) + 1] = x
      /\ \A n \in 1..Len(w) : Append(w, x)[n] = w[n]
  BY Appended
<1>4. ASSUME NEW n \in 1..Len(g) PROVE Append(w, x)[n] = g[n]
  <2>1. n = Len(w) + 1 \/ (n \in 1..Len(w) /\ n # Len(w) + 1)
    BY <1>2, <1>3
  <2>2. g[n] = IF n = Len(w) + 1 THEN x ELSE w[n]
    BY <1>1, <1>2
  <2>3. QED BY <1>3, <2>1, <2>2
<1>5. Append(w, x) = g
  BY <1>2, <1>3, <1>4, SeqEqual
<1>6. QED BY <1>1, <1>5

LEMMA OneOf ==
  ASSUME NEW E, NEW s \in Seq(E), NEW m \in 1..Len(s)
  PROVE  SubSeq(s, m, m) = <<s[m]>>
<1>1. PICK t : t = SubSeq(s, m, m)
  OBVIOUS
<1>2. t \in Seq(E) /\ Len(t) = 1 /\ t[1] = s[m]
  BY <1>1
<1>3. t = <<t[1]>>
  BY <1>2
<1>4. QED BY <1>1, <1>2, <1>3, Zenon

LEMMA OneMore ==
  ASSUME NEW E, NEW s \in Seq(E), NEW e \in Nat, e + 1 \in 1..Len(s), NEW m \in 1..e
  PROVE  SubSeq(s, m, e + 1) = Append(SubSeq(s, m, e), s[e + 1])
OBVIOUS

\* The words by their number.
WordAt(data, n) == LET i == Nth(Starts(data), n) IN SubSeq(data, i, EndOfWord(data, i))

LEMMA WordsByNumber ==
  ASSUME NEW data
  PROVE  Words(data) = [n \in 1..Cardinality(Starts(data)) |-> WordAt(data, n)]
BY WordsAre DEF WordAt

LEMMA StartIn ==
  ASSUME NEW data \in Seq(Chars), NEW i \in Starts(data)
  PROVE  i \in 1..Len(data) /\ data[i] # Blank /\ (i = 1 \/ data[i - 1] = Blank)
BY DEF Starts

\* Where no character is in a word at the end of the text, all words stay.
LEMMA WordsStay ==
  ASSUME NEW data \in Seq(Chars), NEW c \in Chars, NEW more, Longer(data, c, more),
         c = Blank \/ (data # <<>> => data[Len(data)] = Blank),
         NEW i \in Starts(data)
  PROVE  SubSeq(more, i, EndOfWord(more, i)) = SubSeq(data, i, EndOfWord(data, i))
<1>1. i \in 1..Len(data) /\ data[i] # Blank
  BY StartIn
<1>2. PICK k \in i..Len(data) : EndsAt(data, i, k)
  BY <1>1, EndSome
<1>3. data[k] # Blank
  BY <1>1, <1>2 DEF EndsAt
<1>4. data # <<>>
  BY <1>1
<1>5. k # Len(data) \/ c = Blank
  BY <1>3, <1>4
<1>6. QED BY <1>1, <1>2, <1>5, WordStays

\* A blank at the end changes no word.
LEMMA WordsOfBlank ==
  ASSUME NEW data \in Seq(Chars)
  PROVE  Words(Append(data, Blank)) = Words(data)
<1>1. PICK more : more = Append(data, Blank)
  OBVIOUS
<1>2. Blank \in Chars
  BY DEF Chars
<1>3. Longer(data, Blank, more)
  BY <1>1, <1>2, LongerIs
<1>4. Starts(more) = Starts(data)
  <2>1. Starts(more) = Starts(data)
          \cup (IF Blank # Blank /\ (data = <<>> \/ data[Len(data)] = Blank)
                THEN {Len(data) + 1} ELSE {})
    BY <1>2, <1>3, StartsOfLonger
  <2>2. QED BY <2>1
<1>5. ASSUME NEW n \in 1..Cardinality(Starts(data)) PROVE WordAt(more, n) = WordAt(data, n)
  <2>1. PICK i : i = Nth(Starts(data), n)
    OBVIOUS
  <2>2. i \in Starts(data)
    BY <2>1, StartsAreNumbers, NthOf
  <2>3. SubSeq(more, i, EndOfWord(more, i)) = SubSeq(data, i, EndOfWord(data, i))
    BY <1>2, <1>3, <2>2, WordsStay
  <2>4. QED BY <1>4, <2>1, <2>3, Zenon DEF WordAt
<1>6. Words(more) = [n \in 1..Cardinality(Starts(data)) |-> WordAt(more, n)]
  BY <1>4, WordsByNumber, Zenon
<1>7. Words(data) = [n \in 1..Cardinality(Starts(data)) |-> WordAt(data, n)]
  BY WordsByNumber, Zenon
<1>8. Words(more) = Words(data)
  BY <1>5, <1>6, <1>7
<1>9. QED BY <1>1, <1>8

\* What follows a blank, or nothing, starts a word.
LEMMA WordsOfFirst ==
  ASSUME NEW data \in Seq(Chars), data # <<>> => data[Len(data)] = Blank,
         NEW c \in Chars, c # Blank
  PROVE  Words(Append(data, c)) = Append(Words(data), <<c>>)
<1>1. PICK more : more = Append(data, c)
  OBVIOUS
<1>2. Longer(data, c, more)
  BY <1>1, LongerIs
<1>3. PICK S \in SUBSET Nat : S = Starts(data)
  BY StartsAreNumbers
<1>4. PICK m \in Nat : m = Len(data) + 1
  OBVIOUS
<1>5. Starts(more) = S \cup {m}
  <2>1. Starts(more) = Starts(data)
          \cup (IF c # Blank /\ (data = <<>> \/ data[Len(data)] = Blank)
                THEN {Len(data) + 1} ELSE {})
    BY <1>2, StartsOfLonger
  <2>2. QED BY <1>3, <1>4, <2>1
<1>6. IsFiniteSet(S) /\ \A j \in S : j < m
  BY <1>3, <1>4, StartsAreNumbers
<1>7. PICK count \in Nat : count = Cardinality(S)
  BY <1>6, FS_CardinalityType
<1>8. /\ Cardinality(Starts(more)) = count + 1
      /\ Nth(Starts(more), count + 1) = m
      /\ \A n \in 1..count : Nth(Starts(more), n) = Nth(S, n) /\ Nth(S, n) \in S
  <2>1. IsFiniteSet(S) /\ (\A j \in S : j < m)
    BY <1>6
  <2>2. /\ Cardinality(S \cup {m}) = Cardinality(S) + 1
        /\ Nth(S \cup {m}, Cardinality(S) + 1) = m
        /\ \A n \in 1..Cardinality(S) : Nth(S \cup {m}, n) = Nth(S, n) /\ Nth(S, n) \in S
    BY <2>1, NthMore
  <2>3. QED BY <1>5, <1>7, <2>2
<1>9. ASSUME NEW n \in 1..count PROVE WordAt(more, n) = WordAt(data, n)
  <2>1. PICK i \in S : i = Nth(S, n)
    BY <1>8
  <2>2. i \in Starts(data)
    BY <1>3
  <2>3. SubSeq(more, i, EndOfWord(more, i)) = SubSeq(data, i, EndOfWord(data, i))
    BY <1>2, <2>2, WordsStay
  <2>4. Nth(Starts(more), n) = i /\ Nth(Starts(data), n) = i
    BY <1>3, <1>8, <2>1
  <2>5. QED BY <2>3, <2>4, Zenon DEF WordAt
<1>10. WordAt(more, count + 1) = <<c>>
  <2>1. more \in Seq(Chars) /\ Len(more) = m /\ more[m] = c /\ m \in 1..Len(more)
    <3>1. more \in Seq(Chars) /\ Len(more) = Len(data) + 1 /\ more[Len(data) + 1] = c
      BY <1>2 DEF Longer
    <3>2. m \in 1..m
      BY <1>4
    <3>3. QED BY <1>4, <3>1, <3>2, Zenon
  <2>2. EndsAt(more, m, m)
    <3>1. m \in m..Len(more) /\ \A j \in m..m : j = m
      BY <2>1
    <3>2. QED BY <2>1, <3>1 DEF EndsAt
  <2>3. EndOfWord(more, m) = m
    BY <2>1, <2>2, EndIs
  <2>4. SubSeq(more, m, m) = <<c>>
    <3>1. SubSeq(more, m, m) = <<more[m]>>
      BY <2>1, OneOf
    <3>2. QED BY <2>1, <3>1
  <2>5. QED BY <1>8, <2>3, <2>4, Zenon DEF WordAt
<1>11. PICK w : w = [n \in 1..count |-> WordAt(data, n)]
  OBVIOUS
<1>12. Words(data) = w
  BY <1>3, <1>7, <1>11, WordsByNumber, Zenon
<1>13. Words(more) = [n \in 1..(count + 1) |-> WordAt(more, n)]
  BY <1>8, WordsByNumber, Zenon
<1>14. Append(w, <<c>>) = [n \in 1..(count + 1) |-> IF n = count + 1 THEN <<c>> ELSE w[n]]
  <2>1. PICK E : E = {WordAt(data, n) : n \in 1..count} \cup {<<c>>}
    OBVIOUS
  <2>2. Len(w) = count /\ w \in Seq(E)
    <3>1. \A n \in 1..count : w[n] \in E
      BY <1>11, <2>1
    <3>2. QED BY <1>11, <3>1
  <2>3. <<c>> \in E
    BY <2>1
  <2>4. Append(w, <<c>>) = [n \in 1..(Len(w) + 1) |-> IF n = Len(w) + 1 THEN <<c>> ELSE w[n]]
    BY <2>2, <2>3, AppendForm
  <2>5. QED BY <2>2, <2>4, Zenon
<1>15. ASSUME NEW n \in 1..(count + 1)
       PROVE  WordAt(more, n) = IF n = count + 1 THEN <<c>> ELSE w[n]
  <2>1. CASE n = count + 1
    BY <1>10, <2>1, Zenon
  <2>2. CASE n # count + 1
    <3>1. n \in 1..count
      BY <2>2
    <3>2. w[n] = WordAt(data, n)
      BY <1>11, <3>1
    <3>3. QED BY <1>9, <2>2, <3>1, <3>2, Zenon
  <2>3. QED BY <2>1, <2>2
<1>16. Words(more) = Append(w, <<c>>)
  BY <1>13, <1>14, <1>15, Zenon
<1>17. QED BY <1>1, <1>12, <1>16

\* What follows another character belongs to the last word.
LEMMA WordsOfNext ==
  ASSUME NEW data \in Seq(Chars), data # <<>>, data[Len(data)] # Blank,
         NEW c \in Chars, c # Blank
  PROVE  /\ Words(data) # <<>> /\ Len(Words(data)) \in Nat
         /\ Words(data)[Len(Words(data))] \in Seq(Chars)
         /\ Words(Append(data, c))
              = [n \in 1..Len(Words(data)) |-> IF n = Len(Words(data))
                                               THEN Append(Words(data)[n], c) ELSE Words(data)[n]]
<1>1. PICK more : more = Append(data, c)
  OBVIOUS
<1>2. Longer(data, c, more)
  BY <1>1, LongerIs
<1>3. PICK S \in SUBSET Nat : S = Starts(data)
  BY StartsAreNumbers
<1>4. PICK e \in Nat \ {0} : e = Len(data)
  OBVIOUS
<1>5. Starts(more) = S
  BY <1>2, <1>3, StartsOfLonger
<1>6. IsFiniteSet(S) /\ S \subseteq 1..e
  BY <1>3, <1>4, StartsAreNumbers
<1>7. ASSUME NEW b \in 0..(e - 1), b # 0 => data[b] = Blank, \A j \in (b + 1)..e : data[j] # Blank
      PROVE  b + 1 \in S
  BY <1>3, <1>4, <1>7 DEF Starts
<1>8. \E b \in 0..(e - 1) : (b # 0 => data[b] = Blank) /\ \A j \in (b + 1)..e : data[j] # Blank
  <2> DEFINE ok == {b \in 0..(e - 1) : \A j \in (b + 1)..e : data[j] # Blank}
  <2>1. ok \in SUBSET Nat /\ e - 1 \in ok
    BY <1>4
  <2>2. PICK b \in ok : \A k \in ok : b <= k
    <3> HIDE DEF ok
    <3>1. QED BY <2>1, LeastNumber
  <2>3. b \in 0..(e - 1) /\ \A j \in (b + 1)..e : data[j] # Blank
    OBVIOUS
  <2>4. ASSUME b # 0, data[b] # Blank PROVE FALSE
    <3>1. b - 1 \in 0..(e - 1) /\ \A j \in ((b - 1) + 1)..e : j = b \/ j \in (b + 1)..e
      BY <2>3, <2>4
    <3>2. b - 1 \in ok
      BY <2>3, <2>4, <3>1
    <3>3. b <= b - 1
      BY <2>2, <3>2
    <3>4. QED BY <2>3, <3>3
  <2>5. QED BY <2>3, <2>4
<1>9. PICK m \in S : /\ \A j \in m..e : data[j] # Blank
                     /\ m \in 1..e /\ (m = 1 \/ data[m - 1] = Blank)
  <2>1. PICK b \in 0..(e - 1) : (b # 0 => data[b] = Blank) /\ \A j \in (b + 1)..e : data[j] # Blank
    BY <1>8
  <2>2. b + 1 \in S
    BY <1>7, <2>1
  <2>3. b + 1 \in 1..e /\ (b + 1 = 1 \/ data[(b + 1) - 1] = Blank)
    BY <2>1
  <2>4. QED BY <2>1, <2>2, <2>3
<1>10. ASSUME NEW i \in S PROVE i <= m
  <2>1. i \in 1..e /\ (i = 1 \/ data[i - 1] = Blank)
    BY <1>3, <1>4, StartIn
  <2>2. m < i => i - 1 \in m..e /\ i # 1
    BY <1>9, <2>1
  <2>3. QED BY <1>9, <2>1, <2>2
<1>11. PICK count \in Nat \ {0} : count = Cardinality(S)
  BY <1>6, <1>9, NthLast
<1>12. /\ Nth(S, count) = m
       /\ \A n \in 1..count : n # count => Nth(S, n) < m
       /\ \A n \in 1..count : Nth(S, n) \in S
  <2>1. /\ Nth(S, count) \in S /\ \A j \in S : j <= Nth(S, count)
        /\ \A n \in 1..count : n # count => Nth(S, n) < Nth(S, count)
    BY <1>6, <1>9, <1>11, NthLast
  <2>2. Nth(S, count) <= m /\ m <= Nth(S, count) /\ Nth(S, count) \in Nat /\ m \in Nat
    BY <1>10, <2>1
  <2>3. Nth(S, count) = m
    BY <2>2
  <2>4. \A n \in 1..count : Nth(S, n) \in S
    BY <1>6, <1>11, NthOf
  <2>5. QED BY <2>1, <2>3, <2>4
<1>13. WordAt(data, count) = SubSeq(data, m, e) /\ WordAt(more, count) = SubSeq(more, m, e + 1)
  <2>1. EndsAt(data, m, e)
    BY <1>4, <1>9 DEF EndsAt
  <2>2. EndOfWord(data, m) = e
    BY <1>4, <1>9, <2>1, EndIs
  <2>3. more \in Seq(Chars) /\ Len(more) = e + 1 /\ m \in 1..Len(more)
    BY <1>2, <1>4, <1>9 DEF Longer
  <2>4. EndsAt(more, m, e + 1)
    <3>1. ASSUME NEW j \in m..(e + 1) PROVE more[j] # Blank
      <4>1. CASE j = e + 1
        BY <1>2, <1>4, <4>1 DEF Longer
      <4>2. CASE j # e + 1
        <5>1. j \in m..e /\ j \in 1..e
          BY <1>9, <4>2
        <5>2. QED BY <1>2, <1>4, <1>9, <5>1 DEF Longer
      <4>3. QED BY <4>1, <4>2
    <3>2. e + 1 \in m..Len(more)
      BY <1>9, <2>3
    <3>3. QED BY <2>3, <3>1, <3>2 DEF EndsAt
  <2>5. EndOfWord(more, m) = e + 1
    BY <2>3, <2>4, EndIs
  <2>6. QED BY <1>3, <1>5, <1>12, <2>2, <2>5, Zenon DEF WordAt
<1>14. /\ SubSeq(data, m, e) \in Seq(Chars)
       /\ SubSeq(more, m, e + 1) = Append(SubSeq(data, m, e), c)
  <2>1. /\ more \in Seq(Chars) /\ Len(more) = e + 1 /\ more[e + 1] = c
        /\ \A j \in 1..e : more[j] = data[j]
    BY <1>2, <1>4 DEF Longer
  <2>2. SubSeq(more, m, e) = SubSeq(data, m, e)
    <3>1. m \in 1..Len(data) /\ e \in m..Len(data)
      BY <1>4, <1>9
    <3>2. QED BY <1>2, <3>1, LongerParts
  <2>3. SubSeq(data, m, e) \in Seq(Chars)
    BY <1>4, <1>9
  <2>4. SubSeq(more, m, e + 1) = Append(SubSeq(more, m, e), more[e + 1])
    <3>1. m \in 1..e
      BY <1>9
    <3>2. e + 1 \in 1..Len(more)
      BY <2>1
    <3>3. QED BY <2>1, <3>1, <3>2, OneMore
  <2>5. QED BY <2>1, <2>2, <2>3, <2>4
<1>15. ASSUME NEW n \in 1..count, n # count PROVE WordAt(more, n) = WordAt(data, n)
  <2>1. PICK i \in S : i = Nth(S, n)
    BY <1>12
  <2>2. i < m /\ i \in 1..e /\ data[i] # Blank
    BY <1>3, <1>4, <1>12, <1>15, <2>1, StartIn
  <2>3. PICK k \in i..Len(data) : EndsAt(data, i, k)
    BY <1>4, <2>2, EndSome
  <2>4. ASSUME k = Len(data) PROVE FALSE
    <3>1. \A j \in i..e : data[j] # Blank
      BY <1>4, <2>3, <2>4 DEF EndsAt
    <3>2. m # 1 /\ m - 1 \in i..e
      BY <1>9, <2>2
    <3>3. QED BY <1>9, <3>1, <3>2
  <2>5. SubSeq(more, i, EndOfWord(more, i)) = SubSeq(data, i, EndOfWord(data, i))
    BY <1>2, <1>4, <2>2, <2>3, <2>4, WordStays
  <2>6. Nth(Starts(more), n) = i /\ Nth(Starts(data), n) = i
    BY <1>3, <1>5, <2>1
  <2>7. QED BY <2>5, <2>6, Zenon DEF WordAt
<1>16. PICK w : w = [n \in 1..count |-> WordAt(data, n)]
  OBVIOUS
<1>17. Words(data) = w
  BY <1>3, <1>11, <1>16, WordsByNumber, Zenon
<1>18. Words(more) = [n \in 1..count |-> WordAt(more, n)]
  BY <1>5, <1>11, WordsByNumber, Zenon
<1>19. /\ Len(w) = count /\ w # <<>> /\ w[count] = SubSeq(data, m, e)
       /\ \A n \in 1..count : w[n] = WordAt(data, n)
  <2>1. Len(w) = count /\ count \in 1..count
    BY <1>16
  <2>2. \A n \in 1..count : w[n] = WordAt(data, n)
    BY <1>16
  <2>3. w # <<>>
    BY <2>1
  <2>4. QED BY <1>13, <2>1, <2>2, <2>3
<1>20. ASSUME NEW n \in 1..count
       PROVE  WordAt(more, n) = IF n = count THEN Append(w[n], c) ELSE w[n]
  <2>1. CASE n = count
    BY <1>13, <1>14, <1>19, <2>1, Zenon
  <2>2. CASE n # count
    BY <1>15, <1>19, <2>2, Zenon
  <2>3. QED BY <2>1, <2>2
<1>21. Words(more) = [n \in 1..count |-> IF n = count THEN Append(w[n], c) ELSE w[n]]
  BY <1>18, <1>20
<1>22. w[count] \in Seq(Chars)
  BY <1>14, <1>19
<1>23. QED BY <1>1, <1>17, <1>19, <1>21, <1>22, Zenon

LEMMA AppendedTo ==
  ASSUME NEW E, NEW s \in Seq(E), NEW x \in E, NEW all, all = Append(s, x)
  PROVE  /\ all \in Seq(E) /\ all # <<>> /\ Len(s) \in Nat /\ Len(all) = Len(s) + 1
         /\ all[Len(s) + 1] = x
         /\ \A i \in 1..Len(s) : all[i] = s[i]
OBVIOUS

LEMMA Joined ==
  ASSUME NEW E, NEW s \in Seq(E), NEW t \in Seq(E), NEW all, all = s \o t
  PROVE  /\ all \in Seq(E) /\ Len(s) \in Nat /\ Len(t) \in Nat /\ Len(all) = Len(s) + Len(t)
         /\ \A i \in 1..Len(s) : all[i] = s[i]
         /\ \A i \in 1..Len(t) : all[Len(s) + i] = t[i]
OBVIOUS

\* Two sequences and an element, put together from either side.
InOne(E, s, t, x, all, a, later, b) ==
  /\ s \in Seq(E) /\ t \in Seq(E) /\ x \in E
  /\ all = s \o t /\ a = Append(all, x)
  /\ later = Append(t, x) /\ b = s \o later

\* Appending and joining go in either order.
LEMMA JoinedLater ==
  ASSUME NEW E, NEW s, NEW t, NEW x, NEW all, NEW a, NEW later, NEW b,
         InOne(E, s, t, x, all, a, later, b)
  PROVE  a = b
<1>1. /\ s \in Seq(E) /\ t \in Seq(E) /\ x \in E
      /\ all = s \o t /\ a = Append(all, x)
      /\ later = Append(t, x) /\ b = s \o later
  BY DEF InOne
<1>2. /\ all \in Seq(E) /\ Len(s) \in Nat /\ Len(t) \in Nat /\ Len(all) = Len(s) + Len(t)
      /\ \A i \in 1..Len(s) : all[i] = s[i]
      /\ \A i \in 1..Len(t) : all[Len(s) + i] = t[i]
  BY <1>1, Joined
<1>3. /\ later \in Seq(E) /\ Len(later) = Len(t) + 1 /\ later[Len(t) + 1] = x
      /\ \A i \in 1..Len(t) : later[i] = t[i]
  BY <1>1, AppendedTo
<1>4. /\ a \in Seq(E) /\ Len(a) = Len(all) + 1 /\ a[Len(all) + 1] = x
      /\ \A i \in 1..Len(all) : a[i] = all[i]
  <2>1. all \in Seq(E)
    BY <1>2
  <2>2. QED BY <1>1, <2>1, AppendedTo
<1>5. /\ b \in Seq(E) /\ Len(b) = Len(s) + Len(later)
      /\ \A i \in 1..Len(s) : b[i] = s[i]
      /\ \A i \in 1..Len(later) : b[Len(s) + i] = later[i]
  <2>1. later \in Seq(E)
    BY <1>3
  <2>2. QED BY <1>1, <2>1, Joined
<1>6. ASSUME NEW i \in 1..Len(a) PROVE a[i] = b[i]
  <2>1. CASE i \in 1..Len(s)
    BY <1>2, <1>4, <1>5, <2>1
  <2>2. CASE i \notin 1..Len(s)
    <3>1. PICK k \in 1..Len(later) : i = Len(s) + k
      <4>1. i - Len(s) \in 1..Len(later) /\ i = Len(s) + (i - Len(s))
        BY <1>2, <1>3, <1>4, <2>2
      <4>2. QED BY <4>1
    <3>2. b[i] = later[k]
      BY <1>5, <3>1
    <3>3. CASE k = Len(t) + 1
      <4>1. i = Len(all) + 1
        BY <1>2, <3>1, <3>3
      <4>2. QED BY <1>3, <1>4, <3>2, <3>3, <4>1
    <3>4. CASE k # Len(t) + 1
      <4>1. k \in 1..Len(t)
        BY <1>2, <1>3, <3>4
      <4>2. i \in 1..Len(all)
        BY <1>2, <3>1, <4>1
      <4>3. QED BY <1>2, <1>3, <1>4, <3>1, <3>2, <4>1, <4>2
    <3>5. QED BY <3>3, <3>4
  <2>3. QED BY <2>1, <2>2
<1>7. Len(a) = Len(b)
  BY <1>2, <1>3, <1>4, <1>5
<1>8. a \in Seq(E) /\ b \in Seq(E)
  BY <1>4, <1>5
<1>9. QED BY <1>6, <1>7, <1>8, SeqEqual

\* Characters without a blank among them.
Word == {w \in Seq(Chars) : w # <<>> /\ \A i \in 1..Len(w) : w[i] # Blank}

\* The sequence with a character more in its last word.
Lengthened(words, c) ==
  [n \in 1..Len(words) |-> IF n = Len(words) THEN Append(words[n], c) ELSE words[n]]

\* Where the text ends in a word, that word is longer.
LEMMA WordsOfLonger ==
  ASSUME NEW data \in Seq(Chars), NEW c \in Chars
  PROVE  \/ c = Blank /\ Words(Append(data, c)) = Words(data)
         \/ /\ c # Blank /\ (data = <<>> \/ data[Len(data)] = Blank)
            /\ Words(Append(data, c)) = Append(Words(data), <<c>>)
         \/ /\ c # Blank /\ data # <<>> /\ data[Len(data)] # Blank
            /\ Words(data) # <<>>
            /\ Words(Append(data, c)) = Lengthened(Words(data), c)
<1>1. CASE c = Blank
  BY <1>1, WordsOfBlank
<1>2. CASE c # Blank /\ (data = <<>> \/ data[Len(data)] = Blank)
  <2>1. data # <<>> => data[Len(data)] = Blank
    BY <1>2
  <2>2. QED BY <1>2, <2>1, WordsOfFirst
<1>3. CASE c # Blank /\ data # <<>> /\ data[Len(data)] # Blank
  BY <1>3, WordsOfNext DEF Lengthened
<1>4. QED BY <1>1, <1>2, <1>3

LEMMA WordOfOne ==
  ASSUME NEW c \in Chars, c # Blank
  PROVE  <<c>> \in Word
BY DEF Word

LEMMA LongerWord ==
  ASSUME NEW w \in Word, NEW c \in Chars, c # Blank
  PROVE  Append(w, c) \in Word
<1>1. w \in Seq(Chars) /\ \A i \in 1..Len(w) : w[i] # Blank
  BY DEF Word
<1>2. PICK v : v = Append(w, c)
  OBVIOUS
<1>3. /\ v \in Seq(Chars) /\ v # <<>>
      /\ Len(v) = Len(w) + 1 /\ v[Len(w) + 1] = c
      /\ \A i \in 1..Len(w) : v[i] = w[i]
  <2>1. w \in Seq(Chars)
    BY <1>1
  <2>2. QED BY <1>2, <2>1, AppendedTo
<1>4. ASSUME NEW i \in 1..Len(v) PROVE v[i] # Blank
  <2>1. i \in 1..Len(w) \/ i = Len(w) + 1
    BY <1>1, <1>3
  <2>2. QED BY <1>1, <1>3, <2>1
<1>5. v \in Word
  BY <1>4, <1>3 DEF Word
<1>6. QED BY <1>2, <1>5

LEMMA LengthenedWords ==
  ASSUME NEW words \in Seq(Word), words # <<>>, NEW c \in Chars, c # Blank
  PROVE  /\ Lengthened(words, c) \in Seq(Word) /\ Len(Lengthened(words, c)) = Len(words)
         /\ Len(words) \in Nat \ {0}
         /\ \A n \in 1..Len(words) :
              Lengthened(words, c)[n] = IF n = Len(words) THEN Append(words[n], c) ELSE words[n]
<1>1. Len(words) \in Nat \ {0}
  OBVIOUS
<1>2. PICK v : v = Lengthened(words, c)
  OBVIOUS
<1>3. ASSUME NEW n \in 1..Len(words)
      PROVE  /\ v[n] = IF n = Len(words) THEN Append(words[n], c) ELSE words[n]
             /\ v[n] \in Word
  <2>1. v[n] = IF n = Len(words) THEN Append(words[n], c) ELSE words[n]
    BY <1>2 DEF Lengthened
  <2>2. words[n] \in Word
    OBVIOUS
  <2>3. Append(words[n], c) \in Word
    BY <2>2, LongerWord
  <2>4. QED BY <2>1, <2>2, <2>3
<1>4. v \in Seq(Word) /\ Len(v) = Len(words)
  BY <1>1, <1>2, <1>3 DEF Lengthened
<1>5. QED BY <1>1, <1>2, <1>3, <1>4

\* What Words() returns are words.
LEMMA WordsTyped ==
  ASSUME NEW data \in Seq(Chars)
  PROVE  Words(data) \in Seq(Word)
<1> DEFINE T == {d \in Seq(Chars) : Words(d) \in Seq(Word)}
<1>1. <<>> \in T
  <2>1. <<>> \in Seq(Chars) /\ <<>> \in Seq(Word)
    OBVIOUS
  <2>2. QED BY <2>1, NoWords
<1>2. ASSUME NEW d \in Seq(Chars), NEW c \in Chars, d \in T PROVE Append(d, c) \in T
  <2>1. Words(d) \in Seq(Word)
    BY <1>2
  <2>2. PICK words \in Seq(Word) : words = Words(d)
    BY <2>1
  <2>3. Append(d, c) \in Seq(Chars)
    OBVIOUS
  <2>4. c # Blank => Append(words, <<c>>) \in Seq(Word)
    BY WordOfOne
  <2>5. c # Blank /\ words # <<>> => Lengthened(words, c) \in Seq(Word)
    BY LengthenedWords
  <2>6. Words(Append(d, c)) \in Seq(Word)
    BY <2>2, <2>4, <2>5, WordsOfLonger, Zenon
  <2>7. QED BY <2>3, <2>6
<1>3. Seq(Chars) \subseteq T
  <2> HIDE DEF T
  <2>1. QED BY <1>1, <1>2, ByAppending
<1>4. QED BY <1>3

\* A text without blanks is one word.
LEMMA OneWord ==
  ASSUME NEW w \in Word
  PROVE  Words(w) = <<w>>
<1> DEFINE T == {d \in Seq(Chars) : d \in Word => Words(d) = <<d>>}
<1>1. <<>> \in T
  BY DEF Word
<1>2. ASSUME NEW d \in Seq(Chars), NEW c \in Chars, d \in T PROVE Append(d, c) \in T
  <2>1. PICK v \in Seq(Chars) : /\ v = Append(d, c) /\ Len(v) = Len(d) + 1 /\ v[Len(d) + 1] = c
                                /\ \A i \in 1..Len(d) : v[i] = d[i]
    <3>1. PICK a : a = Append(d, c)
      OBVIOUS
    <3>2. /\ a \in Seq(Chars) /\ Len(a) = Len(d) + 1 /\ a[Len(d) + 1] = c
          /\ \A i \in 1..Len(d) : a[i] = d[i]
      BY <3>1, AppendedTo
    <3>3. QED BY <3>1, <3>2, Zenon
  <2>2. ASSUME v \in Word PROVE Words(v) = <<v>>
    <3>1. c # Blank /\ \A i \in 1..Len(d) : d[i] # Blank
      <4>1. \A i \in 1..Len(v) : v[i] # Blank
        BY <2>2 DEF Word
      <4>2. Len(d) + 1 \in 1..Len(v) /\ \A i \in 1..Len(d) : i \in 1..Len(v)
        BY <2>1
      <4>3. QED BY <2>1, <4>1, <4>2
    <3>2. CASE d = <<>>
      <4>1. Words(v) = Append(Words(d), <<c>>)
        BY <2>1, <3>1, <3>2, WordsOfLonger
      <4>2. Words(d) = <<>> /\ v = <<c>>
        BY <2>1, <3>2, NoWords
      <4>3. Append(<<>>, <<c>>) = <<<<c>>>>
        OBVIOUS
      <4>4. QED BY <4>1, <4>2, <4>3, Zenon
    <3>3. CASE d # <<>>
      <4>1. d \in Word /\ d[Len(d)] # Blank
        BY <3>1, <3>3 DEF Word
      <4>2. Words(d) = <<d>>
        BY <1>2, <4>1
      <4>3. Words(v) = Lengthened(<<d>>, c)
        BY <2>1, <3>1, <3>3, <4>1, <4>2, WordsOfLonger, Zenon
      <4>4. PICK t : t = <<d>>
        OBVIOUS
      <4>5. Len(t) = 1 /\ t[1] = d
        BY <4>4
      <4>6. Lengthened(t, c) = [n \in 1..1 |-> v]
        BY <2>1, <4>5 DEF Lengthened
      <4>7. QED BY <4>3, <4>4, <4>6
    <3>4. QED BY <3>2, <3>3
  <2>3. QED BY <2>1, <2>2
<1>3. Seq(Chars) \subseteq T
  <2> HIDE DEF T
  <2>1. QED BY <1>1, <1>2, ByAppending
<1>4. w \in Seq(Chars)
  BY DEF Word
<1>5. QED BY <1>3, <1>4

LEMMA JoinedLengthened ==
  ASSUME NEW s \in Seq(Word), NEW t \in Seq(Word), t # <<>>, NEW c \in Chars, c # Blank
  PROVE  Lengthened(s \o t, c) = s \o Lengthened(t, c)
<1>1. PICK u : u = s \o t
  OBVIOUS
<1>2. /\ u \in Seq(Word) /\ Len(s) \in Nat /\ Len(t) \in Nat /\ Len(u) = Len(s) + Len(t)
      /\ \A i \in 1..Len(s) : u[i] = s[i]
      /\ \A i \in 1..Len(t) : u[Len(s) + i] = t[i]
  BY <1>1, Joined
<1>3. u # <<>> /\ Len(t) # 0
  BY <1>2
<1>4. PICK v \in Seq(Word) :
        /\ v = Lengthened(u, c) /\ Len(v) = Len(u)
        /\ \A n \in 1..Len(u) : v[n] = IF n = Len(u) THEN Append(u[n], c) ELSE u[n]
  <2>1. u \in Seq(Word) /\ u # <<>>
    BY <1>2, <1>3
  <2>2. QED BY <2>1, LengthenedWords
<1>5. PICK l \in Seq(Word) :
        /\ l = Lengthened(t, c) /\ Len(l) = Len(t)
        /\ \A n \in 1..Len(t) : l[n] = IF n = Len(t) THEN Append(t[n], c) ELSE t[n]
  BY LengthenedWords
<1>6. PICK j : j = s \o l
  OBVIOUS
<1>7. /\ j \in Seq(Word) /\ Len(j) = Len(s) + Len(l)
      /\ \A i \in 1..Len(s) : j[i] = s[i]
      /\ \A i \in 1..Len(l) : j[Len(s) + i] = l[i]
  BY <1>6, Joined
<1>8. ASSUME NEW n \in 1..Len(v) PROVE v[n] = j[n]
  <2>1. CASE n \in 1..Len(s)
    <3>1. n # Len(u) /\ n \in 1..Len(u)
      BY <1>2, <1>3, <2>1
    <3>2. QED BY <1>2, <1>4, <1>7, <2>1, <3>1
  <2>2. CASE n \notin 1..Len(s)
    <3>1. PICK i \in 1..Len(t) : n = Len(s) + i
      <4>1. n - Len(s) \in 1..Len(t) /\ n = Len(s) + (n - Len(s))
        BY <1>2, <1>4, <2>2
      <4>2. QED BY <4>1
    <3>2. n = Len(u) <=> i = Len(t)
      <4>1. Len(s) \in Nat /\ Len(t) \in Nat /\ Len(u) = Len(s) + Len(t) /\ n = Len(s) + i
        BY <1>2, <3>1
      <4>2. i \in Nat
        OBVIOUS
      <4>3. Len(s) + i = Len(s) + Len(t) <=> i = Len(t)
        <5>1. \A p, q, k \in Nat : p + k = p + q <=> k = q
          OBVIOUS
        <5>2. Len(s) \in Nat /\ Len(t) \in Nat
          BY <4>1
        <5>3. QED BY <4>2, <5>1, <5>2, Zenon
      <4>4. QED BY <4>1, <4>3, Zenon
    <3>3. u[n] = t[i] /\ j[n] = l[i]
      BY <1>2, <1>5, <1>7, <3>1
    <3>4. QED BY <1>4, <1>5, <3>1, <3>2, <3>3
  <2>3. QED BY <2>1, <2>2
<1>9. v = j
  <2>1. v \in Seq(Word) /\ j \in Seq(Word) /\ Len(v) = Len(j)
    BY <1>2, <1>4, <1>5, <1>7
  <2>2. QED BY <1>8, <2>1, SeqEqual
<1>10. QED BY <1>1, <1>4, <1>5, <1>9, <1>6, Zenon

\* The words before a blank, and those behind it.
LEMMA WordsOfBoth ==
  ASSUME NEW a \in Seq(Chars), a # <<>> => a[Len(a)] = Blank, NEW b \in Seq(Chars)
  PROVE  Words(a \o b) = Words(a) \o Words(b)
<1> DEFINE T == {d \in Seq(Chars) : Words(a \o d) = Words(a) \o Words(d)}
<1>0. PICK u \in Seq(Word) : u = Words(a)
  BY WordsTyped
<1>1. <<>> \in T
  <2>1. a \o <<>> = a /\ u \o <<>> = u
    OBVIOUS
  <2>2. Words(<<>>) = <<>>
    BY NoWords
  <2>3. Words(a \o <<>>) = Words(a) \o Words(<<>>)
    BY <1>0, <2>1, <2>2, Zenon
  <2>4. QED BY <2>3
<1>2. ASSUME NEW d \in Seq(Chars), NEW c \in Chars, d \in T PROVE Append(d, c) \in T
  <2>1. PICK v \in Seq(Word) : v = Words(d)
    BY WordsTyped
  <2>2. Words(a \o d) = u \o v
    BY <1>0, <1>2, <2>1, Zenon
  <2>3. PICK e : e = a \o d
    OBVIOUS
  <2>4. /\ e \in Seq(Chars)
        /\ Len(a) \in Nat /\ Len(d) \in Nat /\ Len(e) = Len(a) + Len(d)
        /\ \A i \in 1..Len(a) : e[i] = a[i]
        /\ \A i \in 1..Len(d) : e[Len(a) + i] = d[i]
    BY <2>3, Joined
  <2>5. a \o Append(d, c) = Append(e, c)
    <3>1. InOne(Chars, a, d, c, e, Append(e, c), Append(d, c), a \o Append(d, c))
      BY <2>3, Zenon DEF InOne
    <3>2. QED BY <3>1, JoinedLater, Zenon
  <2>6. \/ d = <<>> /\ (e = <<>> \/ e[Len(e)] = Blank)
        \/ d # <<>> /\ e # <<>> /\ e[Len(e)] = d[Len(d)]
    <3>1. CASE d = <<>>
      <4>1. e = a
        BY <2>3, <3>1
      <4>2. QED BY <3>1, <4>1
    <3>2. CASE d # <<>>
      <4>1. Len(d) \in 1..Len(d) /\ Len(e) # 0
        BY <2>4, <3>2
      <4>2. QED BY <2>4, <3>2, <4>1
    <3>3. QED BY <3>1, <3>2
  <2>7. Words(Append(e, c)) = u \o Words(Append(d, c))
    <3>1. CASE c = Blank
      <4>1. Words(Append(e, c)) = Words(e) /\ Words(Append(d, c)) = Words(d)
        BY <2>4, <3>1, WordsOfBlank
      <4>2. QED BY <2>1, <2>2, <2>3, <4>1, Zenon
    <3>2. CASE c # Blank /\ (d = <<>> \/ d[Len(d)] = Blank)
      <4>1. e = <<>> \/ e[Len(e)] = Blank
        BY <2>6, <3>2, Zenon
      <4>2. Words(Append(e, c)) = Append(u \o v, <<c>>)
        BY <2>2, <2>4, <2>3, <3>2, <4>1, WordsOfLonger, Zenon
      <4>3. Words(Append(d, c)) = Append(v, <<c>>)
        BY <2>1, <3>2, WordsOfLonger, Zenon
      <4>4. <<c>> \in Word
        BY <3>2, WordOfOne
      <4>5. Append(u \o v, <<c>>) = u \o Append(v, <<c>>)
        <5>1. PICK w \in Word : w = <<c>>
          BY <4>4
        <5>2. InOne(Word, u, v, w, u \o v, Append(u \o v, w), Append(v, w), u \o Append(v, w))
          BY Zenon DEF InOne
        <5>3. QED BY <5>1, <5>2, JoinedLater, Zenon
      <4>6. QED BY <4>2, <4>3, <4>5, Zenon
    <3>3. CASE c # Blank /\ d # <<>> /\ d[Len(d)] # Blank
      <4>1. e # <<>> /\ e[Len(e)] # Blank
        BY <2>6, <3>3, Zenon
      <4>2. Words(Append(e, c)) = Lengthened(u \o v, c)
        BY <2>2, <2>4, <2>3, <3>3, <4>1, WordsOfLonger, Zenon
      <4>3. v # <<>> /\ Words(Append(d, c)) = Lengthened(v, c)
        BY <2>1, <3>3, WordsOfLonger, Zenon
      <4>4. Lengthened(u \o v, c) = u \o Lengthened(v, c)
        BY <3>3, <4>3, JoinedLengthened
      <4>5. QED BY <4>2, <4>3, <4>4, Zenon
    <3>4. QED BY <3>1, <3>2, <3>3, Zenon
  <2>8. Words(a \o Append(d, c)) = Words(a) \o Words(Append(d, c))
    BY <1>0, <2>5, <2>7, Zenon
  <2>9. Append(d, c) \in Seq(Chars)
    OBVIOUS
  <2>10. QED BY <2>8, <2>9
<1>3. Seq(Chars) \subseteq T
  <2> HIDE DEF T
  <2>1. QED BY <1>1, <1>2, ByAppending
<1>4. QED BY <1>3

-----------------------------------------------------------------------------
(* The words that were read are joined again.                                *)

\* Two sequences with an element between them.
Between(E, s, x, t, a, b) ==
  s \in Seq(E) /\ x \in E /\ t \in Seq(E) /\ a = Append(s, x) \o t /\ b = s \o (<<x>> \o t)

LEMMA JoinedBoth ==
  ASSUME NEW E, NEW s, NEW x, NEW t, NEW a, NEW b, Between(E, s, x, t, a, b)
  PROVE  a = b
<1>1. s \in Seq(E) /\ x \in E /\ t \in Seq(E) /\ a = Append(s, x) \o t /\ b = s \o (<<x>> \o t)
  BY DEF Between
<1>2. <<x>> \in Seq(E) /\ Append(s, x) = s \o <<x>>
  BY <1>1, AppendIsConcat
<1>3. (s \o <<x>>) \o t = s \o (<<x>> \o t)
  BY <1>1, <1>2, ConcatAssociative
<1>4. QED BY <1>1, <1>2, <1>3, Zenon

\* A sequence that begins with another and is one longer.
LEMMA ExtendedBy ==
  ASSUME NEW E, NEW s \in Seq(E), NEW t \in Seq(E), Len(t) = Len(s) + 1,
         \A i \in 1..Len(s) : t[i] = s[i]
  PROVE  t = Append(s, t[Len(s) + 1])
<1>1. PICK x : x = t[Len(s) + 1]
  OBVIOUS
<1>2. PICK a : a = Append(s, x)
  OBVIOUS
<1>3. x \in E
  BY <1>1
<1>4. /\ a \in Seq(E) /\ Len(s) \in Nat /\ Len(a) = Len(s) + 1
      /\ a[Len(s) + 1] = x
      /\ \A i \in 1..Len(s) : a[i] = s[i]
  BY <1>2, <1>3, AppendedTo
<1>5. ASSUME NEW i \in 1..Len(t) PROVE t[i] = a[i]
  <2>1. i \in 1..Len(s) \/ i = Len(s) + 1
    BY <1>4
  <2>2. QED BY <1>1, <1>4, <2>1
<1>6. t = a
  <2>1. a \in Seq(E) /\ Len(t) = Len(a)
    BY <1>4
  <2>2. QED BY <1>5, <2>1, SeqEqual
<1>7. QED BY <1>1, <1>2, <1>6, Zenon

\* The words with the blanks before them.
JoinedParts(args) ==
  [n \in DOMAIN args |-> IF n = 1 THEN args[n] ELSE <<Blank>> \o args[n]]

\* One word more is joined.
LEMMA JoinedMore ==
  ASSUME NEW ws \in Seq(Word), NEW w \in Word
  PROVE  /\ joinedArguments(ws) \in Seq(Chars)
         /\ joinedArguments(Append(ws, w))
              = joinedArguments(ws) \o (IF ws = <<>> THEN w ELSE <<Blank>> \o w)
<1>1. PICK vs : vs = Append(ws, w)
  OBVIOUS
<1>2. /\ vs \in Seq(Word) /\ Len(ws) \in Nat /\ Len(vs) = Len(ws) + 1
      /\ vs[Len(ws) + 1] = w
      /\ \A i \in 1..Len(ws) : vs[i] = ws[i]
  BY <1>1, AppendedTo
<1>3. ASSUME NEW v \in Word PROVE v \in Seq(Chars) /\ <<Blank>> \o v \in Seq(Chars)
  <2>1. v \in Seq(Chars)
    BY DEF Word
  <2>2. <<Blank>> \in Seq(Chars)
    BY DEF Chars
  <2>3. QED BY <2>1, <2>2
<1>4. ASSUME NEW us \in Seq(Word)
      PROVE  JoinedParts(us) \in Seq(Seq(Chars)) /\ Len(JoinedParts(us)) = Len(us)
  <2>1. PICK p : p = JoinedParts(us)
    OBVIOUS
  <2>2. p = [n \in 1..Len(us) |-> IF n = 1 THEN us[n] ELSE <<Blank>> \o us[n]]
    BY <2>1 DEF JoinedParts
  <2>3. ASSUME NEW n \in 1..Len(us) PROVE p[n] \in Seq(Chars)
    <3>1. us[n] \in Word
      OBVIOUS
    <3>2. us[n] \in Seq(Chars) /\ <<Blank>> \o us[n] \in Seq(Chars)
      BY <1>3, <3>1
    <3>3. p[n] = IF n = 1 THEN us[n] ELSE <<Blank>> \o us[n]
      BY <2>2, Zenon
    <3>4. QED BY <3>2, <3>3, Zenon
  <2>4. Len(us) \in Nat
    OBVIOUS
  <2>5. p \in [1..Len(us) -> Seq(Chars)]
    BY <2>2, <2>3, Zenon
  <2>6. p \in Seq(Seq(Chars)) /\ Len(p) = Len(us)
    <3>1. PICK S : S = Seq(Chars)
      OBVIOUS
    <3>2. p \in [1..Len(us) -> S]
      BY <2>5, <3>1
    <3>3. p \in Seq(S) /\ Len(p) = Len(us)
      BY <2>4, <3>2
    <3>4. QED BY <3>1, <3>3, Zenon
  <2>7. QED BY <2>1, <2>6, Zenon
<1>5. PICK p, q : p = JoinedParts(ws) /\ q = JoinedParts(vs)
  OBVIOUS
<1>6. PICK part : part = IF ws = <<>> THEN w ELSE <<Blank>> \o w
  OBVIOUS
<1>7. part \in Seq(Chars)
  BY <1>3, <1>6
<1>8. /\ p \in Seq(Seq(Chars)) /\ Len(p) = Len(ws)
      /\ q \in Seq(Seq(Chars)) /\ Len(q) = Len(ws) + 1
  BY <1>2, <1>4, <1>5, Zenon
<1>9. \A i \in 1..Len(ws) : q[i] = p[i]
  <2>1. DOMAIN ws = 1..Len(ws) /\ DOMAIN vs = 1..(Len(ws) + 1)
    BY <1>2
  <2>2. ASSUME NEW i \in 1..Len(ws) PROVE q[i] = p[i]
    <3>1. i \in DOMAIN ws /\ i \in DOMAIN vs /\ vs[i] = ws[i]
      BY <1>2, <2>1
    <3>2. /\ p[i] = IF i = 1 THEN ws[i] ELSE <<Blank>> \o ws[i]
          /\ q[i] = IF i = 1 THEN vs[i] ELSE <<Blank>> \o vs[i]
      BY <1>5, <3>1, Zenon DEF JoinedParts
    <3>3. QED BY <3>1, <3>2, Zenon
  <2>3. QED BY <2>2
<1>10. q[Len(ws) + 1] = part
  <2>1. Len(ws) + 1 \in DOMAIN vs /\ (Len(ws) + 1 = 1 <=> ws = <<>>)
    BY <1>2
  <2>2. q[Len(ws) + 1] = IF Len(ws) + 1 = 1 THEN vs[Len(ws) + 1] ELSE <<Blank>> \o vs[Len(ws) + 1]
    BY <1>5, <2>1, Zenon DEF JoinedParts
  <2>3. QED BY <1>2, <1>6, <2>1, <2>2, Zenon
<1>11. q = Append(p, part)
  <2>1. PICK S : S = Seq(Chars)
    OBVIOUS
  <2>2. p \in Seq(S) /\ q \in Seq(S) /\ Len(q) = Len(p) + 1 /\ \A i \in 1..Len(p) : q[i] = p[i]
    BY <1>8, <1>9, <2>1
  <2>3. q = Append(p, q[Len(p) + 1])
    BY <2>2, ExtendedBy
  <2>4. QED BY <1>8, <1>10, <2>3, Zenon
<1>12. /\ FlattenSeq(p) \in Seq(Chars)
       /\ FlattenSeq(Append(p, part)) = FlattenSeq(p) \o part
  <2>1. p \in Seq(Seq(Chars))
    BY <1>8
  <2>2. QED BY <1>7, <2>1, FlattenMore
<1>13. joinedArguments(ws) = FlattenSeq(p) /\ joinedArguments(vs) = FlattenSeq(q)
  BY <1>5, Zenon DEF joinedArguments, JoinedParts
<1>14. QED BY <1>1, <1>6, <1>11, <1>12, <1>13, Zenon

\* joinedArguments() makes a text that has the words it was given.
LEMMA JoinedWords ==
  ASSUME NEW words \in Seq(Word)
  PROVE  /\ joinedArguments(words) \in Seq(Chars)
         /\ Words(joinedArguments(words)) = words
         /\ joinedArguments(words) = <<>> <=> words = <<>>
<1> DEFINE T == {ws \in Seq(Word) : /\ joinedArguments(ws) \in Seq(Chars)
                                    /\ Words(joinedArguments(ws)) = ws
                                    /\ joinedArguments(ws) = <<>> <=> ws = <<>>}
<1>1. joinedArguments(<<>>) = <<>>
  <2>1. [n \in DOMAIN <<>> |-> IF n = 1 THEN <<>>[n] ELSE <<Blank>> \o <<>>[n]] = <<>>
    OBVIOUS
  <2>2. QED BY <2>1, FlattenNone, Zenon DEF joinedArguments
<1>2. <<>> \in T
  <2>1. <<>> \in Seq(Word) /\ <<>> \in Seq(Chars)
    OBVIOUS
  <2>2. QED BY <1>1, <2>1, NoWords, Zenon
<1>3. ASSUME NEW ws \in Seq(Word), NEW w \in Word, ws \in T PROVE Append(ws, w) \in T
  <2>1. PICK j : j = joinedArguments(ws)
    OBVIOUS
  <2>2. j \in Seq(Chars) /\ Words(j) = ws /\ (j = <<>> <=> ws = <<>>)
    BY <1>3, <2>1
  <2>3. w \in Seq(Chars) /\ w # <<>> /\ Words(w) = <<w>>
    BY OneWord DEF Word
  <2>4. Append(ws, w) \in Seq(Word) /\ Append(ws, w) # <<>>
    OBVIOUS
  <2>5. PICK k : k = joinedArguments(Append(ws, w))
    OBVIOUS
  <2>6. k \in Seq(Chars) /\ k # <<>> /\ Words(k) = Append(ws, w)
    <3>1. CASE ws = <<>>
      <4>1. k = j \o w
        BY <2>1, <2>5, <3>1, JoinedMore, Zenon
      <4>2. j = <<>> /\ <<>> \o w = w
        BY <2>2, <2>3, <3>1
      <4>3. k = w
        BY <4>1, <4>2, Zenon
      <4>4. Append(<<>>, w) = <<w>>
        OBVIOUS
      <4>5. QED BY <2>3, <3>1, <4>3, <4>4, Zenon
    <3>2. CASE ws # <<>>
      <4>1. PICK more : more = Append(j, Blank)
        OBVIOUS
      <4>2. PICK late : late = <<Blank>> \o w
        OBVIOUS
      <4>3. j \in Seq(Chars)
        BY <2>2
      <4>4. w \in Seq(Chars)
        BY <2>3
      <4>5. Blank \in Chars
        BY DEF Chars
      <4>6. k = j \o late
        BY <2>1, <2>5, <3>2, <4>2, JoinedMore, Zenon
      <4>7. more \o w = j \o late
        <5>1. Between(Chars, j, Blank, w, more \o w, j \o late)
          BY <4>1, <4>2, <4>3, <4>4, <4>5, Zenon DEF Between
        <5>2. QED BY <5>1, JoinedBoth, Zenon
      <4>8. /\ more \in Seq(Chars) /\ more # <<>> /\ Len(j) \in Nat /\ Len(more) = Len(j) + 1
            /\ more[Len(j) + 1] = Blank
        BY <4>1, <4>3, <4>5, AppendedTo
      <4>9. Words(more \o w) = Words(more) \o Words(w)
        <5>1. more \in Seq(Chars)
          BY <4>8
        <5>2. more # <<>> => more[Len(more)] = Blank
          BY <4>8
        <5>3. QED BY <4>4, <5>1, <5>2, WordsOfBoth
      <4>10. Words(more) = ws
        BY <2>2, <4>1, WordsOfBlank
      <4>11. ws \o <<w>> = Append(ws, w)
        BY AppendIsConcat
      <4>12. k \in Seq(Chars) /\ k # <<>>
        <5>1. more \o w \in Seq(Chars) /\ more \o w # <<>>
          BY <2>3, <4>8
        <5>2. QED BY <4>6, <4>7, <5>1, Zenon
      <4>13. QED BY <2>3, <4>6, <4>7, <4>9, <4>10, <4>11, <4>12, Zenon
    <3>3. QED BY <3>1, <3>2
  <2>7. QED BY <2>4, <2>5, <2>6, Zenon
<1>4. Seq(Word) \subseteq T
  <2> HIDE DEF T
  <2>1. QED BY <1>2, <1>3, ByAppending
<1>5. QED BY <1>4

-----------------------------------------------------------------------------
(* Percent encoding, as one character after the other is added.              *)

LEMMA CharsOfCodes == {"%", "0", "2", "5", Blank} \subseteq Chars
BY DEF Chars

\* What Replace() puts in place of each character.
Images(ba, c, by) == [i \in DOMAIN ba |-> IF ba[i] = c THEN by ELSE <<ba[i]>>]

\* A sequence that is another with an element more, with a part more.
Appends(s, x, t) == t = Append(s, x)
Joins(s, part, t) == t = s \o part

\* Replace() works on one character after the other.
LEMMA ReplacePart ==
  ASSUME NEW ba \in Seq(Chars), NEW c, NEW by \in Seq(Chars), NEW x \in Chars,
         NEW bb, Appends(ba, x, bb)
  PROVE  /\ Replace(ba, c, by) \in Seq(Chars)
         /\ Joins(Replace(ba, c, by), IF x = c THEN by ELSE <<x>>, Replace(bb, c, by))
<1>1. bb = Append(ba, x)
  BY DEF Appends
<1>2. /\ bb \in Seq(Chars) /\ Len(ba) \in Nat /\ Len(bb) = Len(ba) + 1
      /\ bb[Len(ba) + 1] = x
      /\ \A i \in 1..Len(ba) : bb[i] = ba[i]
  BY <1>1, AppendedTo
<1>3. PICK S : S = Seq(Chars)
  OBVIOUS
<1>4. ASSUME NEW s \in Seq(Chars)
      PROVE  Images(s, c, by) \in Seq(S) /\ Len(Images(s, c, by)) = Len(s)
  <2>1. PICK p : p = Images(s, c, by)
    OBVIOUS
  <2>2. p = [i \in 1..Len(s) |-> IF s[i] = c THEN by ELSE <<s[i]>>]
    BY <2>1 DEF Images
  <2>3. ASSUME NEW i \in 1..Len(s) PROVE p[i] \in S
    <3>1. s[i] \in Chars
      OBVIOUS
    <3>2. <<s[i]>> \in Seq(Chars)
      BY <3>1
    <3>3. p[i] = IF s[i] = c THEN by ELSE <<s[i]>>
      BY <2>2, Zenon
    <3>4. QED BY <1>3, <3>2, <3>3, Zenon
  <2>4. p \in [1..Len(s) -> S] /\ Len(s) \in Nat
    BY <2>2, <2>3
  <2>5. p \in Seq(S) /\ Len(p) = Len(s)
    BY <2>4
  <2>6. QED BY <2>1, <2>5, Zenon
<1>5. PICK p : p = Images(ba, c, by)
  OBVIOUS
<1>6. PICK q : q = Images(bb, c, by)
  OBVIOUS
<1>7. PICK part : part = IF x = c THEN by ELSE <<x>>
  OBVIOUS
<1>8. part \in Seq(Chars)
  BY <1>7
<1>9. /\ p \in Seq(S) /\ Len(p) = Len(ba)
      /\ q \in Seq(S) /\ Len(q) = Len(ba) + 1
  BY <1>2, <1>4, <1>5, <1>6, Zenon
<1>10. DOMAIN ba = 1..Len(ba) /\ DOMAIN bb = 1..(Len(ba) + 1)
  BY <1>2
<1>11. ASSUME NEW i \in 1..Len(ba) PROVE q[i] = p[i]
  <2>1. i \in DOMAIN ba /\ i \in DOMAIN bb /\ bb[i] = ba[i]
    BY <1>2, <1>10
  <2>2. /\ p[i] = IF ba[i] = c THEN by ELSE <<ba[i]>>
        /\ q[i] = IF bb[i] = c THEN by ELSE <<bb[i]>>
    BY <1>5, <1>6, <2>1, Zenon DEF Images
  <2>3. QED BY <2>1, <2>2, Zenon
<1>12. q[Len(ba) + 1] = part
  <2>1. Len(ba) + 1 \in DOMAIN bb
    BY <1>2, <1>10
  <2>2. q[Len(ba) + 1] = IF bb[Len(ba) + 1] = c THEN by ELSE <<bb[Len(ba) + 1]>>
    BY <1>6, <2>1, Zenon DEF Images
  <2>3. QED BY <1>2, <1>7, <2>2, Zenon
<1>13. q = Append(p, part)
  <2>1. p \in Seq(S) /\ q \in Seq(S) /\ Len(q) = Len(p) + 1 /\ \A i \in 1..Len(p) : q[i] = p[i]
    BY <1>9, <1>11
  <2>2. q = Append(p, q[Len(p) + 1])
    BY <2>1, ExtendedBy
  <2>3. QED BY <1>9, <1>12, <2>2, Zenon
<1>14. /\ FlattenSeq(p) \in Seq(Chars)
       /\ FlattenSeq(Append(p, part)) = FlattenSeq(p) \o part
  <2>1. p \in Seq(Seq(Chars))
    BY <1>3, <1>9
  <2>2. QED BY <1>8, <2>1, FlattenMore
<1>15. Replace(ba, c, by) = FlattenSeq(p) /\ Replace(bb, c, by) = FlattenSeq(q)
  BY <1>5, <1>6, Zenon DEF Replace, Images
<1>16. QED BY <1>7, <1>13, <1>14, <1>15, Zenon DEF Joins

LEMMA ReplaceNone ==
  ASSUME NEW c, NEW by
  PROVE  Replace(<<>>, c, by) = <<>>
<1>1. [i \in DOMAIN <<>> |-> IF <<>>[i] = c THEN by ELSE <<<<>>[i]>>] = <<>>
  OBVIOUS
<1>2. QED BY <1>1, FlattenNone, Zenon DEF Replace

\* What a character is encoded as.
Code(c) == IF c = "%" THEN <<"%", "2", "5">> ELSE IF c = Blank THEN <<"%", "2", "0">> ELSE <<c>>

LEMMA AppendsOne ==
  ASSUME NEW s \in Seq(Chars), NEW x \in Chars, NEW t, Joins(s, <<x>>, t)
  PROVE  Appends(s, x, t)
<1>1. s \o <<x>> = Append(s, x)
  BY AppendIsConcat
<1>2. QED BY <1>1, Zenon DEF Joins, Appends

\* Three elements, one after the other.
LEMMA ThreeMore ==
  ASSUME NEW s \in Seq(Chars), NEW x \in Chars, NEW y \in Chars, NEW z \in Chars,
         NEW a1, Appends(s, x, a1), NEW a2, Appends(a1, y, a2), NEW a, Appends(a2, z, a)
  PROVE  Joins(s, <<x, y, z>>, a)
<1>1. PICK b : b = s \o <<x, y, z>>
  OBVIOUS
<1>2. a1 = Append(s, x) /\ a2 = Append(a1, y) /\ a = Append(a2, z)
  BY Zenon DEF Appends
<1>3. /\ a1 \in Seq(Chars) /\ Len(s) \in Nat /\ Len(a1) = Len(s) + 1 /\ a1[Len(s) + 1] = x
      /\ \A i \in 1..Len(s) : a1[i] = s[i]
  BY <1>2, AppendedTo
<1>4. /\ a2 \in Seq(Chars) /\ Len(a2) = Len(a1) + 1 /\ a2[Len(a1) + 1] = y
      /\ \A i \in 1..Len(a1) : a2[i] = a1[i]
  <2>1. a1 \in Seq(Chars)
    BY <1>3
  <2>2. QED BY <1>2, <2>1, AppendedTo
<1>5. /\ a \in Seq(Chars) /\ Len(a) = Len(a2) + 1 /\ a[Len(a2) + 1] = z
      /\ \A i \in 1..Len(a2) : a[i] = a2[i]
  <2>1. a2 \in Seq(Chars)
    BY <1>4
  <2>2. QED BY <1>2, <2>1, AppendedTo
<1>6. PICK t : t = <<x, y, z>>
  OBVIOUS
<1>7. t \in Seq(Chars) /\ Len(t) = 3 /\ t[1] = x /\ t[2] = y /\ t[3] = z
  BY <1>6
<1>8. /\ b \in Seq(Chars) /\ Len(b) = Len(s) + Len(t)
      /\ \A i \in 1..Len(s) : b[i] = s[i]
      /\ \A i \in 1..Len(t) : b[Len(s) + i] = t[i]
  <2>1. t \in Seq(Chars)
    BY <1>7
  <2>2. b = s \o t
    BY <1>1, <1>6, Zenon
  <2>3. QED BY <2>1, <2>2, Joined
<1>9. ASSUME NEW i \in 1..Len(a) PROVE a[i] = b[i]
  <2>1. \/ i \in 1..Len(s)
        \/ i = Len(s) + 1 \/ i = Len(s) + 2 \/ i = Len(s) + 3
    BY <1>3, <1>4, <1>5
  <2>2. CASE i \in 1..Len(s)
    BY <1>3, <1>4, <1>5, <1>8, <2>2
  <2>3. CASE i = Len(s) + 1
    <3>1. a[i] = x
      BY <1>3, <1>4, <1>5, <2>3
    <3>2. 1 \in 1..Len(t)
      BY <1>7
    <3>3. b[i] = t[1]
      BY <1>8, <2>3, <3>2, Zenon
    <3>4. QED BY <1>7, <3>1, <3>3, Zenon
  <2>4. CASE i = Len(s) + 2
    <3>1. a[i] = y
      BY <1>3, <1>4, <1>5, <2>4
    <3>2. 2 \in 1..Len(t)
      BY <1>7
    <3>3. b[i] = t[2]
      BY <1>8, <2>4, <3>2, Zenon
    <3>4. QED BY <1>7, <3>1, <3>3, Zenon
  <2>5. CASE i = Len(s) + 3
    <3>1. a[i] = z
      BY <1>3, <1>4, <1>5, <2>5
    <3>2. 3 \in 1..Len(t)
      BY <1>7
    <3>3. b[i] = t[3]
      BY <1>8, <2>5, <3>2, Zenon
    <3>4. QED BY <1>7, <3>1, <3>3, Zenon
  <2>6. QED BY <2>1, <2>2, <2>3, <2>4, <2>5
<1>10. a = b
  <2>1. a \in Seq(Chars) /\ b \in Seq(Chars) /\ Len(a) = Len(b)
    BY <1>3, <1>4, <1>5, <1>7, <1>8
  <2>2. QED BY <1>9, <2>1, SeqEqual
<1>11. QED BY <1>1, <1>10, Zenon DEF Joins

LEMMA AppendsType ==
  ASSUME NEW E, NEW s \in Seq(E), NEW x \in E
  PROVE  \E t \in Seq(E) : Appends(s, x, t)
BY Appended DEF Appends

LEMMA AppendsIn ==
  ASSUME NEW E, NEW s \in Seq(E), NEW x \in E, NEW t, Appends(s, x, t)
  PROVE  t \in Seq(E)
BY Appended DEF Appends

\* And so does percentEncodeSpaces().
LEMMA EncodeMore ==
  ASSUME NEW d \in Seq(Chars), NEW c \in Chars, NEW dd, Appends(d, c, dd)
  PROVE  /\ percentEncodeSpaces(d) \in Seq(Chars)
         /\ Joins(percentEncodeSpaces(d), Code(c), percentEncodeSpaces(dd))
<1>1. PICK sign : sign = <<"%", "2", "5">>
  OBVIOUS
<1>2. PICK space : space = <<"%", "2", "0">>
  OBVIOUS
<1>3. sign \in Seq(Chars) /\ space \in Seq(Chars)
  BY <1>1, <1>2, CharsOfCodes
<1>4. PICK r : r = Replace(d, "%", sign)
  OBVIOUS
<1>5. PICK rr : rr = Replace(dd, "%", sign)
  OBVIOUS
<1>6. PICK e : e = Replace(r, Blank, space)
  OBVIOUS
<1>7. PICK ee : ee = Replace(rr, Blank, space)
  OBVIOUS
<1>8. percentEncodeSpaces(d) = e /\ percentEncodeSpaces(dd) = ee
  BY <1>1, <1>2, <1>4, <1>5, <1>6, <1>7, Zenon DEF percentEncodeSpaces
<1>9. r \in Seq(Chars) /\ Joins(r, IF c = "%" THEN sign ELSE <<c>>, rr)
  BY <1>3, <1>4, <1>5, ReplacePart
<1>10. ASSUME NEW s \in Seq(Chars), NEW x \in Chars, NEW t, Appends(s, x, t)
       PROVE  /\ t \in Seq(Chars) /\ Replace(s, Blank, space) \in Seq(Chars)
              /\ Joins(Replace(s, Blank, space), IF x = Blank THEN space ELSE <<x>>,
                       Replace(t, Blank, space))
              /\ x # Blank => Appends(Replace(s, Blank, space), x, Replace(t, Blank, space))
  <2>1. /\ Replace(s, Blank, space) \in Seq(Chars)
        /\ Joins(Replace(s, Blank, space), IF x = Blank THEN space ELSE <<x>>,
                       Replace(t, Blank, space))
    BY <1>3, <1>10, ReplacePart
  <2>2. t \in Seq(Chars)
    BY <1>10, AppendsIn
  <2>3. ASSUME x # Blank
        PROVE Appends(Replace(s, Blank, space), x, Replace(t, Blank, space))
    <3>1. Joins(Replace(s, Blank, space), <<x>>, Replace(t, Blank, space))
      BY <2>1, <2>3, Zenon
    <3>2. QED BY <2>1, <3>1, AppendsOne
  <2>4. QED BY <2>1, <2>2, <2>3
<1>11. e \in Seq(Chars)
  <2>1. PICK t : Appends(r, c, t)
    BY DEF Appends
  <2>2. QED BY <1>6, <1>9, <1>10, <2>1
<1>12. CASE c = "%"
  <2>1. {"%", "2", "5"} \subseteq Chars /\ "%" # Blank /\ "2" # Blank /\ "5" # Blank
    BY CharsOfCodes DEF Blank
  <2>2. PICK r1 \in Seq(Chars) : Appends(r, "%", r1)
    BY <1>9, <2>1, AppendsType
  <2>3. PICK r2 \in Seq(Chars) : Appends(r1, "2", r2)
    BY <2>1, AppendsType
  <2>4. PICK r3 \in Seq(Chars) : Appends(r2, "5", r3)
    BY <2>1, AppendsType
  <2>5. rr = r3
    <3>1. Joins(r, <<"%", "2", "5">>, r3)
      BY <1>9, <2>1, <2>2, <2>3, <2>4, ThreeMore
    <3>2. Joins(r, <<"%", "2", "5">>, rr)
      BY <1>1, <1>9, <1>12, Zenon
    <3>3. QED BY <3>1, <3>2, Zenon DEF Joins
  <2>6. PICK e1 : e1 = Replace(r1, Blank, space)
    OBVIOUS
  <2>7. PICK e2 : e2 = Replace(r2, Blank, space)
    OBVIOUS
  <2>8. Appends(e, "%", e1)
    BY <1>6, <1>9, <1>10, <2>1, <2>2, <2>6
  <2>9. Appends(e1, "2", e2)
    BY <1>10, <2>1, <2>3, <2>6, <2>7
  <2>10. Appends(e2, "5", ee)
    BY <1>7, <1>10, <2>1, <2>4, <2>5, <2>7
  <2>11. Joins(e, <<"%", "2", "5">>, ee)
    BY <1>11, <2>1, <2>8, <2>9, <2>10, ThreeMore
  <2>12. QED BY <1>8, <1>11, <1>12, <2>11, Zenon DEF Code
<1>13. CASE c # "%"
  <2>1. Joins(r, <<c>>, rr)
    BY <1>9, <1>13, Zenon
  <2>2. Appends(r, c, rr)
    BY <1>9, <2>1, AppendsOne
  <2>3. Joins(e, IF c = Blank THEN space ELSE <<c>>, ee)
    BY <1>6, <1>7, <1>9, <1>10, <2>2
  <2>4. Code(c) = IF c = Blank THEN space ELSE <<c>>
    BY <1>2, <1>13, Zenon DEF Code
  <2>5. QED BY <1>8, <1>11, <2>3, <2>4, Zenon
<1>14. QED BY <1>12, <1>13, Zenon

-----------------------------------------------------------------------------
(* Percent decoding.                                                         *)

\* No percent sign is without the two characters that belong to it.
Whole(text) == \A i \in DOMAIN text : text[i] = "%" => i + 2 <= Len(text)

\* The characters that stand for themselves, or for one that was encoded.
KeepsAt(text, i) == /\ ~(i > 1 /\ text[i - 1] = "%")
                    /\ ~(i > 2 /\ text[i - 2] = "%")
Kept(text) == {i \in DOMAIN text : KeepsAt(text, i)}
CharAt(text, i) == IF text[i] # "%" THEN text[i] ELSE IF text[i + 2] = "5" THEN "%" ELSE Blank

LEMMA DecodedIs ==
  ASSUME NEW text
  PROVE  Decoded(text)
           = [n \in 1..Cardinality(Kept(text)) |-> CharAt(text, Nth(Kept(text), n))]
BY DEF Decoded, Kept, KeepsAt, CharAt

\* The characters that are encoded.
Escaped(c) == c = "%" \/ c = Blank

\* What one more character of the data does to the encoded text.
Coded(text, c, more) ==
  /\ more \in Seq(Chars) /\ Len(more) >= Len(text) + 1
  /\ \A i \in 1..Len(text) : more[i] = text[i]
  /\ ~Escaped(c) => Len(more) = Len(text) + 1 /\ more[Len(text) + 1] = c
  /\ Escaped(c) =>
       /\ Len(more) = Len(text) + 3
       /\ more[Len(text) + 1] = "%" /\ more[Len(text) + 2] = "2"
       /\ more[Len(text) + 3] = IF c = "%" THEN "5" ELSE "0"

LEMMA CodedIs ==
  ASSUME NEW text \in Seq(Chars), NEW c \in Chars, NEW more, Joins(text, Code(c), more)
  PROVE  Coded(text, c, more)
<1>1. PICK part : part = Code(c)
  OBVIOUS
<1>2. "%" # Blank
  BY DEF Blank
<1>3. ASSUME ~Escaped(c) PROVE part \in Seq(Chars) /\ Len(part) = 1 /\ part[1] = c
  <2>1. part = <<c>>
    BY <1>1, <1>3, Zenon DEF Code, Escaped
  <2>2. QED BY <2>1
<1>4. ASSUME Escaped(c)
      PROVE  /\ part \in Seq(Chars) /\ Len(part) = 3
             /\ part[1] = "%" /\ part[2] = "2" /\ part[3] = IF c = "%" THEN "5" ELSE "0"
  <2>1. PICK last : last = IF c = "%" THEN "5" ELSE "0"
    OBVIOUS
  <2>2. part = <<"%", "2", last>>
    BY <1>1, <1>2, <1>4, <2>1, Zenon DEF Code, Escaped
  <2>3. last \in Chars /\ "%" \in Chars /\ "2" \in Chars
    BY <2>1, CharsOfCodes
  <2>4. part \in Seq(Chars) /\ Len(part) = 3 /\ part[1] = "%" /\ part[2] = "2" /\ part[3] = last
    BY <2>2, <2>3
  <2>5. QED BY <2>1, <2>4
<1>5. more = text \o part
  BY <1>1, Zenon DEF Joins
<1>6. part \in Seq(Chars)
  BY <1>3, <1>4, Zenon
<1>7. /\ more \in Seq(Chars) /\ Len(text) \in Nat /\ Len(part) \in Nat
      /\ Len(more) = Len(text) + Len(part)
      /\ \A i \in 1..Len(text) : more[i] = text[i]
      /\ \A i \in 1..Len(part) : more[Len(text) + i] = part[i]
  BY <1>5, <1>6, Joined
<1>8. CASE ~Escaped(c)
  <2>1. Len(part) = 1 /\ part[1] = c
    BY <1>3, <1>8
  <2>2. Len(more) = Len(text) + 1 /\ more[Len(text) + 1] = c
    BY <1>7, <2>1
  <2>3. QED BY <1>7, <1>8, <2>2 DEF Coded
<1>9. CASE Escaped(c)
  <2>1. /\ Len(part) = 3
        /\ part[1] = "%" /\ part[2] = "2" /\ part[3] = IF c = "%" THEN "5" ELSE "0"
    BY <1>4, <1>9
  <2>2. 1 \in 1..Len(part) /\ 2 \in 1..Len(part) /\ 3 \in 1..Len(part)
    BY <2>1
  <2>3. /\ Len(more) = Len(text) + 3
        /\ more[Len(text) + 1] = part[1] /\ more[Len(text) + 2] = part[2]
        /\ more[Len(text) + 3] = part[3]
    BY <1>7, <2>1, <2>2
  <2>4. Len(more) >= Len(text) + 1
    BY <1>7, <2>3
  <2>5. QED BY <1>7, <1>9, <2>1, <2>3, <2>4 DEF Coded
<1>10. QED BY <1>8, <1>9

\* One more is kept, the first of what was added.
LEMMA KeptMore ==
  ASSUME NEW text \in Seq(Chars), Whole(text), NEW c \in Chars, NEW more, Coded(text, c, more)
  PROVE  /\ Kept(more) = Kept(text) \cup {Len(text) + 1}
         /\ Kept(text) \in SUBSET (1..Len(text)) /\ IsFiniteSet(Kept(text))
         /\ Whole(more)
<1>1. /\ more \in Seq(Chars) /\ Len(text) \in Nat /\ Len(more) \in Nat
      /\ Len(more) >= Len(text) + 1
      /\ DOMAIN text = 1..Len(text) /\ DOMAIN more = 1..Len(more)
      /\ \A i \in 1..Len(text) : more[i] = text[i]
  BY DEF Coded
<1>2. \A i \in 1..Len(text) : text[i] = "%" => i + 2 <= Len(text)
  BY <1>1 DEF Whole
<1>3. Kept(text) \in SUBSET (1..Len(text)) /\ IsFiniteSet(Kept(text))
  <2>1. Kept(text) \in SUBSET (1..Len(text))
    BY <1>1 DEF Kept
  <2>2. IsFiniteSet(1..Len(text))
    BY <1>1, FS_Interval
  <2>3. QED BY <2>1, <2>2, FS_Subset
<1>4. ASSUME NEW i \in 1..Len(text) PROVE KeepsAt(more, i) <=> KeepsAt(text, i)
  <2>1. (i > 1 => i - 1 \in 1..Len(text)) /\ (i > 2 => i - 2 \in 1..Len(text))
    BY <1>1
  <2>2. (i > 1 => more[i - 1] = text[i - 1]) /\ (i > 2 => more[i - 2] = text[i - 2])
    BY <1>1, <2>1
  <2>3. QED BY <2>2 DEF KeepsAt
<1>5. KeepsAt(more, Len(text) + 1)
  <2>1. Len(text) + 1 > 1 => more[Len(text)] # "%"
    BY <1>1, <1>2
  <2>2. Len(text) + 1 > 2 => more[Len(text) - 1] # "%"
    <3>1. ASSUME Len(text) + 1 > 2 PROVE more[Len(text) - 1] # "%"
      <4>1. Len(text) - 1 \in 1..Len(text) /\ ~((Len(text) - 1) + 2 <= Len(text))
        BY <1>1, <3>1
      <4>2. QED BY <1>1, <1>2, <4>1
    <3>2. QED BY <3>1
  <2>3. (Len(text) + 1) - 1 = Len(text) /\ (Len(text) + 1) - 2 = Len(text) - 1
    BY <1>1
  <2>4. QED BY <2>1, <2>2, <2>3 DEF KeepsAt
<1>6. ASSUME NEW i \in 1..Len(more), i > Len(text) + 1 PROVE ~KeepsAt(more, i)
  <2>1. Escaped(c) /\ more[Len(text) + 1] = "%" /\ Len(more) = Len(text) + 3
    <3>1. /\ ~Escaped(c) => Len(more) = Len(text) + 1
          /\ Escaped(c) => more[Len(text) + 1] = "%" /\ Len(more) = Len(text) + 3
      BY DEF Coded
    <3>2. Len(more) # Len(text) + 1
      <4>1. Len(text) \in Nat /\ Len(more) \in Nat
        BY <1>1
      <4>2. i \in Nat /\ i <= Len(more) /\ i > Len(text) + 1
        BY <1>6, <4>1
      <4>3. QED BY <4>1, <4>2
    <3>3. QED BY <3>1, <3>2, Zenon
  <2>2. i = Len(text) + 2 \/ i = Len(text) + 3
    BY <1>1, <1>6, <2>1
  <2>3. i > 1 /\ (i = Len(text) + 2 => i - 1 = Len(text) + 1)
        /\ (i = Len(text) + 3 => i > 2 /\ i - 2 = Len(text) + 1)
    BY <1>1, <2>2
  <2>4. QED BY <2>1, <2>2, <2>3 DEF KeepsAt
<1>7. Kept(more) = Kept(text) \cup {Len(text) + 1}
  <2>1. ASSUME NEW i \in 1..Len(more)
        PROVE  KeepsAt(more, i) <=> (i \in 1..Len(text) /\ KeepsAt(text, i)) \/ i = Len(text) + 1
    <3>1. i \in 1..Len(text) \/ i = Len(text) + 1 \/ i > Len(text) + 1
      BY <1>1
    <3>2. i \in 1..Len(text) => i # Len(text) + 1 /\ ~(i > Len(text) + 1)
      BY <1>1
    <3>3. i > Len(text) + 1 => i # Len(text) + 1
      BY <1>1
    <3>4. QED BY <1>4, <1>5, <1>6, <3>1, <3>2, <3>3
  <2>2. 1..Len(text) \subseteq 1..Len(more) /\ Len(text) + 1 \in 1..Len(more)
    BY <1>1
  <2>3. \A i : i \in Kept(more) <=> i \in 1..Len(more) /\ KeepsAt(more, i)
    BY <1>1 DEF Kept
  <2>4. \A i : i \in Kept(text) <=> i \in 1..Len(text) /\ KeepsAt(text, i)
    BY <1>1 DEF Kept
  <2>5. QED BY <2>1, <2>2, <2>3, <2>4, Zenon
<1>8. Whole(more)
  <2>1. ASSUME NEW i \in 1..Len(more), more[i] = "%" PROVE i + 2 <= Len(more)
    <3>1. CASE i \in 1..Len(text)
      BY <1>1, <1>2, <2>1, <3>1
    <3>2. CASE i \notin 1..Len(text) /\ ~Escaped(c)
      <4>1. i = Len(text) + 1
        BY <1>1, <3>2 DEF Coded
      <4>2. QED BY <2>1, <3>2, <4>1 DEF Coded, Escaped
    <3>3. CASE i \notin 1..Len(text) /\ Escaped(c)
      <4>1. /\ Len(more) = Len(text) + 3 /\ more[Len(text) + 2] = "2"
            /\ more[Len(text) + 3] = IF c = "%" THEN "5" ELSE "0"
        BY <3>3 DEF Coded
      <4>2. i = Len(text) + 1 \/ i = Len(text) + 2 \/ i = Len(text) + 3
        BY <1>1, <3>3, <4>1
      <4>3. i # Len(text) + 2 /\ i # Len(text) + 3
        BY <2>1, <4>1
      <4>4. QED BY <1>1, <4>1, <4>2, <4>3
    <3>4. QED BY <3>1, <3>2, <3>3
  <2>2. QED BY <1>1, <2>1 DEF Whole
<1>9. QED BY <1>3, <1>7, <1>8

\* What is decoded is the character that was added.
LEMMA DecodedMore ==
  ASSUME NEW text \in Seq(Chars), Whole(text), Decoded(text) \in Seq(Chars),
         NEW c \in Chars, NEW more, Coded(text, c, more)
  PROVE  Appends(Decoded(text), c, Decoded(more)) /\ Whole(more)
<1>1. /\ more \in Seq(Chars) /\ Len(text) \in Nat /\ Len(more) \in Nat
      /\ \A i \in 1..Len(text) : more[i] = text[i]
  BY DEF Coded
<1>2. PICK S \in SUBSET Nat : S = Kept(text)
  BY <1>1, KeptMore
<1>3. PICK m \in Nat : m = Len(text) + 1
  BY <1>1
<1>4. PICK T : T = Kept(more)
  OBVIOUS
<1>5. /\ T = S \cup {m} /\ IsFiniteSet(S) /\ S \in SUBSET (1..Len(text)) /\ Whole(more)
  BY <1>2, <1>3, <1>4, KeptMore
<1>6. \A j \in S : j < m
  BY <1>1, <1>3, <1>5
<1>7. /\ Cardinality(T) = Cardinality(S) + 1 /\ Cardinality(S) \in Nat
      /\ Nth(T, Cardinality(S) + 1) = m
      /\ \A n \in 1..Cardinality(S) : Nth(T, n) = Nth(S, n) /\ Nth(S, n) \in S
  BY <1>5, <1>6, NthMore
<1>8. CharAt(more, m) = c
  <2>1. "%" # Blank /\ "5" # "0"
    BY DEF Blank
  <2>2. CASE ~Escaped(c)
    BY <1>3, <2>2 DEF Coded, CharAt, Escaped
  <2>3. CASE Escaped(c)
    <3>1. more[m] = "%" /\ m + 2 = Len(text) + 3
      BY <1>1, <1>3, <2>3 DEF Coded
    <3>2. more[m + 2] = IF c = "%" THEN "5" ELSE "0"
      BY <2>3, <3>1 DEF Coded
    <3>3. QED BY <2>1, <2>3, <3>1, <3>2 DEF CharAt, Escaped
  <2>4. QED BY <2>2, <2>3
<1>9. ASSUME NEW i \in S PROVE CharAt(more, i) = CharAt(text, i)
  <2>1. i \in 1..Len(text) /\ more[i] = text[i]
    BY <1>1, <1>5
  <2>2. text[i] = "%" => more[i + 2] = text[i + 2]
    <3>1. ASSUME text[i] = "%" PROVE more[i + 2] = text[i + 2]
      <4>1. i + 2 <= Len(text)
        BY <2>1, <3>1 DEF Whole
      <4>2. i + 2 \in 1..Len(text)
        BY <1>1, <2>1, <4>1
      <4>3. QED BY <1>1, <4>2
    <3>2. QED BY <3>1
  <2>3. QED BY <2>1, <2>2 DEF CharAt
<1>10. PICK w : w = Decoded(text)
  OBVIOUS
<1>11. PICK v : v = Decoded(more)
  OBVIOUS
<1>12. w = [n \in 1..Cardinality(S) |-> CharAt(text, Nth(S, n))]
  BY <1>2, <1>10, DecodedIs, Zenon
<1>13. v = [n \in 1..Cardinality(T) |-> CharAt(more, Nth(T, n))]
  BY <1>4, <1>11, DecodedIs, Zenon
<1>14. w \in Seq(Chars)
  BY <1>10
<1>15. Len(w) = Cardinality(S)
  BY <1>7, <1>12, <1>14
<1>16. PICK u : u = [n \in 1..(Len(w) + 1) |-> IF n = Len(w) + 1 THEN c ELSE w[n]]
  OBVIOUS
<1>17. Append(w, c) = [n \in 1..(Len(w) + 1) |-> IF n = Len(w) + 1 THEN c ELSE w[n]]
  BY <1>14, AppendForm
<1>18. ASSUME NEW n \in 1..Cardinality(T)
       PROVE  CharAt(more, Nth(T, n)) = IF n = Len(w) + 1 THEN c ELSE w[n]
  <2>1. CASE n = Len(w) + 1
    BY <1>7, <1>8, <1>15, <2>1
  <2>2. CASE n # Len(w) + 1
    <3>1. n \in 1..Cardinality(S)
      BY <1>7, <1>15, <2>2
    <3>2. Nth(T, n) = Nth(S, n) /\ Nth(S, n) \in S
      BY <1>7, <3>1
    <3>3. w[n] = CharAt(text, Nth(S, n))
      BY <1>12, <3>1
    <3>4. QED BY <1>9, <2>2, <3>2, <3>3
  <2>3. QED BY <2>1, <2>2
<1>19. v = u
  BY <1>7, <1>13, <1>15, <1>16, <1>18, Zenon
<1>20. QED BY <1>5, <1>10, <1>11, <1>16, <1>17, <1>19, Zenon DEF Appends

\* What percent encoding makes of a text.
EncodedAs(d, e) ==
  /\ e \in Seq(Chars) /\ Whole(e) /\ Decoded(e) = d /\ Len(e) >= Len(d)
  /\ \A i \in DOMAIN e : e[i] # Blank

LEMMA DecodedNone == Decoded(<<>>) = <<>>
<1>1. Kept(<<>>) = {}
  BY DEF Kept
<1>2. Cardinality({}) = 0
  BY FS_EmptySet
<1>3. Decoded(<<>>) = [n \in 1..0 |-> CharAt(<<>>, Nth({}, n))]
  BY <1>1, <1>2, DecodedIs, Zenon
<1>4. QED BY <1>3

LEMMA EncodedNone == percentEncodeSpaces(<<>>) = <<>>
BY ReplaceNone, Zenon DEF percentEncodeSpaces

\* percentEncodeSpaces() makes a word that decodes to the text.
LEMMA Encodes ==
  ASSUME NEW data \in Seq(Chars)
  PROVE  EncodedAs(data, percentEncodeSpaces(data))
<1> DEFINE T == {d \in Seq(Chars) : EncodedAs(d, percentEncodeSpaces(d))}
<1>1. <<>> \in T
  <2>1. EncodedAs(<<>>, <<>>)
    BY DecodedNone DEF EncodedAs, Whole
  <2>2. QED BY <2>1, EncodedNone
<1>2. ASSUME NEW d \in Seq(Chars), NEW c \in Chars, d \in T PROVE Append(d, c) \in T
  <2>1. PICK e : e = percentEncodeSpaces(d)
    OBVIOUS
  <2>2. PICK dd \in Seq(Chars) : dd = Append(d, c)
    BY Appended
  <2>3. PICK ee : ee = percentEncodeSpaces(dd)
    OBVIOUS
  <2>4. EncodedAs(d, e)
    BY <1>2, <2>1
  <2>5. /\ e \in Seq(Chars) /\ Whole(e) /\ Decoded(e) = d /\ Len(e) >= Len(d)
        /\ \A i \in DOMAIN e : e[i] # Blank
    BY <2>4 DEF EncodedAs
  <2>6. Coded(e, c, ee)
    <3>1. Appends(d, c, dd)
      BY <2>2 DEF Appends
    <3>2. Joins(e, Code(c), ee)
      BY <2>1, <2>3, <3>1, EncodeMore
    <3>3. QED BY <2>5, <3>2, CodedIs
  <2>7. Appends(d, c, Decoded(ee)) /\ Whole(ee)
    BY <2>5, <2>6, DecodedMore
  <2>8. Decoded(ee) = dd
    BY <2>2, <2>7, Zenon DEF Appends
  <2>9. /\ ee \in Seq(Chars) /\ Len(e) \in Nat /\ Len(ee) \in Nat /\ Len(ee) >= Len(e) + 1
        /\ \A i \in 1..Len(e) : ee[i] = e[i]
    BY <2>5, <2>6 DEF Coded
  <2>10. Len(ee) >= Len(dd)
    <3>1. Len(dd) = Len(d) + 1 /\ Len(d) \in Nat
      BY <2>2, AppendedTo
    <3>2. QED BY <2>5, <2>9, <3>1
  <2>11. ASSUME NEW i \in DOMAIN ee PROVE ee[i] # Blank
    <3>1. "%" # Blank /\ "2" # Blank /\ "5" # Blank /\ "0" # Blank
      BY DEF Blank
    <3>2. i \in 1..Len(ee)
      BY <2>9
    <3>3. CASE i \in 1..Len(e)
      BY <2>5, <2>9, <3>3
    <3>4. CASE i \notin 1..Len(e) /\ ~Escaped(c)
      <4>1. i = Len(e) + 1
        BY <2>6, <2>9, <3>2, <3>4 DEF Coded
      <4>2. QED BY <2>6, <3>4, <4>1 DEF Coded, Escaped
    <3>5. CASE i \notin 1..Len(e) /\ Escaped(c)
      <4>1. /\ Len(ee) = Len(e) + 3
            /\ ee[Len(e) + 1] = "%" /\ ee[Len(e) + 2] = "2"
            /\ ee[Len(e) + 3] = IF c = "%" THEN "5" ELSE "0"
        BY <2>6, <3>5 DEF Coded
      <4>2. i = Len(e) + 1 \/ i = Len(e) + 2 \/ i = Len(e) + 3
        BY <2>9, <3>2, <3>5, <4>1
      <4>3. QED BY <3>1, <4>1, <4>2
    <3>6. QED BY <3>3, <3>4, <3>5
  <2>12. EncodedAs(dd, ee)
    BY <2>7, <2>8, <2>9, <2>10, <2>11 DEF EncodedAs
  <2>13. QED BY <2>2, <2>3, <2>12, Zenon
<1>3. Seq(Chars) \subseteq T
  <2> HIDE DEF T
  <2>1. QED BY <1>1, <1>2, ByAppending
<1>4. QED BY <1>3

\* A word as it is written alone.
LEMMA EncodedOne ==
  ASSUME NEW c \in Chars, ~Escaped(c)
  PROVE  percentEncodeSpaces(<<c>>) = <<c>>
<1>1. Appends(<<>>, c, <<c>>)
  BY DEF Appends
<1>2. <<>> \in Seq(Chars)
  OBVIOUS
<1>3. Joins(<<>>, Code(c), percentEncodeSpaces(<<c>>))
  BY <1>1, <1>2, EncodeMore, EncodedNone
<1>4. Code(c) = <<c>>
  BY Zenon DEF Code, Escaped
<1>5. <<>> \o <<c>> = <<c>>
  OBVIOUS
<1>6. QED BY <1>3, <1>4, <1>5, Zenon DEF Joins

\* Nothing else is encoded as that word.
LEMMA EncodedAlone ==
  ASSUME NEW data \in Seq(Chars), NEW c \in Chars, ~Escaped(c)
  PROVE  percentEncodeSpaces(data) = <<c>> <=> data = <<c>>
<1>1. <<c>> \in Seq(Chars)
  OBVIOUS
<1>2. percentEncodeSpaces(<<c>>) = <<c>>
  BY EncodedOne
<1>3. Decoded(<<c>>) = <<c>>
  BY <1>1, <1>2, Encodes DEF EncodedAs
<1>4. Decoded(percentEncodeSpaces(data)) = data
  BY Encodes DEF EncodedAs
<1>5. QED BY <1>2, <1>3, <1>4, Zenon

-----------------------------------------------------------------------------
(* Numbers, as they are written and read.                                    *)

DigitChars == {"0", "1", "2", "3", "4", "5", "6", "7", "8", "9"}

\* Each digit is read as what it stands for.
LEMMA DigitsAre ==
  /\ DOMAIN Digits = 1..10 /\ Range(Digits) = DigitChars
  /\ \A d \in 0..9 : Digits[d + 1] \in DigitChars /\ DigitOf(Digits[d + 1]) = d
<1>1. DOMAIN Digits = 1..10
  BY DEF Digits
<1>2. /\ Digits[1] = "0" /\ Digits[2] = "1" /\ Digits[3] = "2" /\ Digits[4] = "3"
      /\ Digits[5] = "4" /\ Digits[6] = "5" /\ Digits[7] = "6" /\ Digits[8] = "7"
      /\ Digits[9] = "8" /\ Digits[10] = "9"
  BY DEF Digits
<1>3. \A d \in 1..10 : \/ d = 1 \/ d = 2 \/ d = 3 \/ d = 4 \/ d = 5
                       \/ d = 6 \/ d = 7 \/ d = 8 \/ d = 9 \/ d = 10
  OBVIOUS
<1>4. Range(Digits) = DigitChars
  BY <1>1, <1>2, <1>3 DEF Range, DigitChars
<1>5. \A d, e \in 1..10 : Digits[d] = Digits[e] => d = e
  BY <1>2, <1>3
<1>6. ASSUME NEW d \in 0..9 PROVE Digits[d + 1] \in DigitChars /\ DigitOf(Digits[d + 1]) = d
  <2>1. d + 1 \in 1..10 /\ (d + 1) - 1 = d
    OBVIOUS
  <2>2. (CHOOSE e \in DOMAIN Digits : Digits[e] = Digits[d + 1]) = d + 1
    BY <1>1, <1>5, <2>1
  <2>3. DigitOf(Digits[d + 1]) = d
    BY <2>1, <2>2 DEF DigitOf
  <2>4. Digits[d + 1] \in DigitChars
    BY <1>1, <1>4, <2>1 DEF Range
  <2>5. QED BY <2>3, <2>4
<1>7. QED BY <1>1, <1>4, <1>6

\* What the digits up to each of them stand for.
Sized(w, f) ==
  f = [n \in 0..Len(w) |-> IF n = 0 THEN 0 ELSE 10 * f[n - 1] + DigitOf(w[n])]

\* Digits have one value.
LEMMA SizedOnce ==
  ASSUME NEW w, Len(w) \in Nat, NEW f, Sized(w, f), NEW g, Sized(w, g)
  PROVE  f = g
<1> DEFINE T == {n \in Nat : n \in 0..Len(w) => f[n] = g[n]}
<1>1. 0 \in T
  <2>1. 0 \in 0..Len(w)
    OBVIOUS
  <2>2. f[0] = 0 /\ g[0] = 0
    BY <2>1 DEF Sized
  <2>3. QED BY <2>2
<1>2. ASSUME NEW n \in Nat, n \in T PROVE n + 1 \in T
  <2>1. ASSUME n + 1 \in 0..Len(w) PROVE f[n + 1] = g[n + 1]
    <3>1. n \in 0..Len(w) /\ (n + 1) - 1 = n /\ n + 1 # 0
      BY <2>1
    <3>2. f[n] = g[n]
      BY <1>2, <3>1
    <3>3. f[n + 1] = 10 * f[n] + DigitOf(w[n + 1]) /\ g[n + 1] = 10 * g[n] + DigitOf(w[n + 1])
      BY <2>1, <3>1 DEF Sized
    <3>4. QED BY <3>2, <3>3, Zenon
  <2>2. QED BY <2>1
<1>3. Nat \subseteq T
  <2> HIDE DEF T
  <2>1. QED BY <1>1, <1>2, ByCounting
<1>4. ASSUME NEW n \in 0..Len(w) PROVE f[n] = g[n]
  BY <1>3
<1>5. f = [n \in 0..Len(w) |-> f[n]] /\ g = [n \in 0..Len(w) |-> g[n]]
  BY DEF Sized
<1>6. QED BY <1>4, <1>5

\* The digits are how the number is written.
Decimal(n, w) == /\ w \in Seq(DigitChars) /\ w # <<>>
                 /\ \E f : Sized(w, f) /\ f[Len(w)] = n

\* Value() reads it.
LEMMA ValueIs ==
  ASSUME NEW n \in Nat, NEW w, Decimal(n, w)
  PROVE  Value(w) = n
<1>1. PICK f : Sized(w, f) /\ f[Len(w)] = n
  BY DEF Decimal
<1>2. Len(w) \in Nat
  BY DEF Decimal
<1>3. \A g : Sized(w, g) => g = f
  BY <1>1, <1>2, SizedOnce
<1>4. (CHOOSE g : Sized(w, g)) = f
  BY <1>1, <1>3
<1>5. Value(w) = (CHOOSE g : Sized(w, g))[Len(w)]
  BY DEF Value, Sized
<1>6. QED BY <1>1, <1>4, <1>5, Zenon

LEMMA DecimalOne ==
  ASSUME NEW d \in 0..9
  PROVE  Decimal(d, <<Digits[d + 1]>>)
<1>1. PICK c : c = Digits[d + 1]
  OBVIOUS
<1>2. c \in DigitChars /\ DigitOf(c) = d
  BY <1>1, DigitsAre
<1>3. PICK w : w = <<c>>
  OBVIOUS
<1>4. w \in Seq(DigitChars) /\ w # <<>> /\ Len(w) = 1 /\ w[1] = c
  BY <1>2, <1>3
<1>5. PICK f : f = [n \in 0..1 |-> IF n = 0 THEN 0 ELSE d]
  OBVIOUS
<1>6. f[0] = 0 /\ f[1] = d
  BY <1>5
<1>7. ASSUME NEW n \in 0..1 PROVE f[n] = IF n = 0 THEN 0 ELSE 10 * f[n - 1] + DigitOf(w[n])
  <2>1. n = 0 \/ n = 1
    OBVIOUS
  <2>2. QED BY <1>2, <1>4, <1>6, <2>1
<1>8. Sized(w, f)
  <2>1. f = [n \in 0..1 |-> IF n = 0 THEN 0 ELSE 10 * f[n - 1] + DigitOf(w[n])]
    BY <1>5, <1>7
  <2>2. QED BY <1>4, <2>1, Zenon DEF Sized
<1>9. Decimal(d, w)
  BY <1>4, <1>6, <1>8, Zenon DEF Decimal
<1>10. QED BY <1>1, <1>3, <1>9, Zenon

\* One digit more.
LEMMA DecimalMore ==
  ASSUME NEW n \in Nat, NEW w, Decimal(n, w), NEW d \in 0..9
  PROVE  Decimal(10 * n + d, Append(w, Digits[d + 1]))
<1>1. PICK f : Sized(w, f) /\ f[Len(w)] = n
  BY DEF Decimal
<1>2. PICK c : c = Digits[d + 1]
  OBVIOUS
<1>3. c \in DigitChars /\ DigitOf(c) = d
  BY <1>2, DigitsAre
<1>4. PICK v : v = Append(w, c)
  OBVIOUS
<1>5. w \in Seq(DigitChars)
  BY DEF Decimal
<1>6. /\ v \in Seq(DigitChars) /\ v # <<>> /\ Len(w) \in Nat /\ Len(v) = Len(w) + 1
      /\ v[Len(w) + 1] = c /\ \A i \in 1..Len(w) : v[i] = w[i]
  BY <1>3, <1>4, <1>5, AppendedTo
<1>7. PICK m : m = 10 * n + d
  OBVIOUS
<1>8. PICK g : g = [k \in 0..Len(v) |-> IF k = Len(v) THEN m ELSE f[k]]
  OBVIOUS
<1>9. ASSUME NEW k \in 0..Len(v) PROVE g[k] = IF k = 0 THEN 0 ELSE 10 * g[k - 1] + DigitOf(v[k])
  <2>1. CASE k = Len(v)
    <3>1. k # 0 /\ k - 1 = Len(w) /\ k - 1 \in 0..Len(v) /\ k - 1 # Len(v)
      BY <1>6, <2>1
    <3>2. g[k] = m /\ g[k - 1] = n
      BY <1>1, <1>8, <2>1, <3>1
    <3>3. DigitOf(v[k]) = d
      BY <1>3, <1>6, <2>1
    <3>4. QED BY <1>7, <3>1, <3>2, <3>3, Zenon
  <2>2. CASE k # Len(v)
    <3>1. k \in 0..Len(w) /\ g[k] = f[k]
      BY <1>6, <1>8, <2>2
    <3>2. f[k] = IF k = 0 THEN 0 ELSE 10 * f[k - 1] + DigitOf(w[k])
      BY <1>1, <3>1 DEF Sized
    <3>3. ASSUME k # 0 PROVE g[k - 1] = f[k - 1] /\ v[k] = w[k]
      <4>1. k - 1 \in 0..Len(v) /\ k - 1 # Len(v) /\ k \in 1..Len(w)
        BY <1>6, <3>1, <3>3
      <4>2. QED BY <1>6, <1>8, <4>1
    <3>4. QED BY <3>1, <3>2, <3>3, Zenon
  <2>3. QED BY <2>1, <2>2
<1>10. Sized(v, g)
  <2>1. g = [k \in 0..Len(v) |-> g[k]]
    BY <1>8
  <2>2. QED BY <1>9, <2>1, Zenon DEF Sized
<1>11. g[Len(v)] = m
  BY <1>6, <1>8
<1>12. Decimal(m, v)
  BY <1>6, <1>10, <1>11, Zenon DEF Decimal
<1>13. QED BY <1>2, <1>4, <1>7, <1>12, Zenon

LEMMA Division ==
  ASSUME NEW n \in Nat, n >= 10
  PROVE  /\ n \div 10 \in Nat /\ n \div 10 < n /\ n % 10 \in 0..9
         /\ 10 * (n \div 10) + (n % 10) = n
OBVIOUS

\* Every number up to the greatest as it is written.
Decimals(most, f) ==
  f = [n \in 0..most |->
         IF n < 10 THEN <<Digits[n + 1]>> ELSE Append(f[n \div 10], Digits[(n % 10) + 1])]

LEMMA DecimalsSome ==
  ASSUME NEW most \in Nat
  PROVE  \E f : Decimals(most, f)
<1> DEFINE T == {s \in Nat : \E f : Decimals(s, f)}
<1>1. 0 \in T
  <2>1. PICK f : f = [n \in 0..0 |-> <<Digits[n + 1]>>]
    OBVIOUS
  <2>2. \A n \in 0..0 : n < 10
    OBVIOUS
  <2>3. Decimals(0, f)
    BY <2>1, <2>2 DEF Decimals
  <2>4. QED BY <2>3
<1>2. ASSUME NEW s \in Nat, s \in T PROVE s + 1 \in T
  <2>1. PICK f : Decimals(s, f)
    BY <1>2
  <2>2. PICK last : last = IF s + 1 < 10 THEN <<Digits[(s + 1) + 1]>>
                           ELSE Append(f[(s + 1) \div 10], Digits[((s + 1) % 10) + 1])
    OBVIOUS
  <2>3. PICK g : g = [n \in 0..(s + 1) |-> IF n = s + 1 THEN last ELSE f[n]]
    OBVIOUS
  <2>4. ASSUME NEW n \in 0..(s + 1)
        PROVE  g[n] = IF n < 10 THEN <<Digits[n + 1]>>
                      ELSE Append(g[n \div 10], Digits[(n % 10) + 1])
    <3>1. n >= 10 => n \div 10 \in 0..(s + 1) /\ n \div 10 # s + 1
      <4>1. n \in Nat /\ (n >= 10 => n \div 10 \in Nat /\ n \div 10 < n)
        BY Division
      <4>2. QED BY <4>1
    <3>2. n >= 10 => g[n \div 10] = f[n \div 10]
      BY <2>3, <3>1
    <3>3. n < 10 \/ n >= 10
      OBVIOUS
    <3>4. CASE n = s + 1
      <4>1. g[n] = last
        BY <2>3, <3>4
      <4>2. CASE n < 10
        BY <2>2, <3>4, <4>1, <4>2, Zenon
      <4>3. CASE n >= 10
        <5>1. ~(n < 10)
          BY <4>3
        <5>2. QED BY <2>2, <3>2, <3>4, <4>1, <4>3, <5>1, Zenon
      <4>4. QED BY <3>3, <4>2, <4>3
    <3>5. CASE n # s + 1
      <4>1. n \in 0..s /\ g[n] = f[n]
        BY <2>3, <3>5
      <4>2. f[n] = IF n < 10 THEN <<Digits[n + 1]>>
                   ELSE Append(f[n \div 10], Digits[(n % 10) + 1])
        BY <2>1, <4>1, Zenon DEF Decimals
      <4>3. CASE n < 10
        BY <4>1, <4>2, <4>3, Zenon
      <4>4. CASE n >= 10
        <5>1. ~(n < 10)
          BY <4>4
        <5>2. QED BY <3>2, <4>1, <4>2, <4>4, <5>1, Zenon
      <4>5. QED BY <3>3, <4>3, <4>4
    <3>6. QED BY <3>4, <3>5
  <2>5. g = [n \in 0..(s + 1) |-> g[n]]
    BY <2>3
  <2>6. Decimals(s + 1, g)
    BY <2>4, <2>5, Zenon DEF Decimals
  <2>7. QED BY <2>6
<1>3. Nat \subseteq T
  <2> HIDE DEF T
  <2>1. QED BY <1>1, <1>2, ByCounting
<1>4. QED BY <1>3

\* number() writes the digits of the number.
LEMMA DecimalsAre ==
  ASSUME NEW most \in Nat, NEW f, Decimals(most, f)
  PROVE  Decimal(most, f[most])
<1> DEFINE T == {n \in Nat : \A m \in 0..n : m <= most => Decimal(m, f[m])}
<1>1. ASSUME NEW n \in 0..9, n <= most PROVE Decimal(n, f[n])
  <2>1. n \in 0..most /\ n < 10
    BY <1>1
  <2>2. f[n] = <<Digits[n + 1]>>
    BY <2>1, Zenon DEF Decimals
  <2>3. Decimal(n, <<Digits[n + 1]>>)
    BY DecimalOne
  <2>4. QED BY <2>2, <2>3, Zenon
<1>2. 0 \in T
  BY <1>1
<1>3. ASSUME NEW n \in Nat, n \in T PROVE n + 1 \in T
  <2>1. ASSUME NEW m \in 0..(n + 1), m <= most PROVE Decimal(m, f[m])
    <3>1. CASE m \in 0..n
      BY <1>3, <2>1, <3>1
    <3>2. CASE m \in 0..9
      BY <1>1, <2>1, <3>2
    <3>3. CASE m \notin 0..n /\ m \notin 0..9
      <4>1. m \in Nat /\ m >= 10 /\ m = n + 1 /\ m \in 0..most /\ ~(m < 10)
        BY <2>1, <3>3
      <4>2. PICK k : k = m \div 10
        OBVIOUS
      <4>3. PICK d : d = m % 10
        OBVIOUS
      <4>4. k \in Nat /\ k < m /\ d \in 0..9 /\ 10 * k + d = m
        BY <4>1, <4>2, <4>3, Division
      <4>5. k \in 0..n /\ k <= most
        BY <2>1, <4>1, <4>4
      <4>6. Decimal(k, f[k])
        BY <1>3, <4>5
      <4>7. Decimal(10 * k + d, Append(f[k], Digits[d + 1]))
        BY <4>4, <4>6, DecimalMore
      <4>8. f[m] = Append(f[m \div 10], Digits[(m % 10) + 1])
        BY <4>1, Zenon DEF Decimals
      <4>9. QED BY <4>2, <4>3, <4>4, <4>7, <4>8, Zenon
    <3>4. QED BY <3>1, <3>2, <3>3
  <2>2. QED BY <2>1
<1>4. Nat \subseteq T
  <2> HIDE DEF T
  <2>1. QED BY <1>2, <1>3, ByCounting
<1>5. QED BY <1>4

\* What is written is read back.
LEMMA NumberRead ==
  ASSUME NEW code \in Int
  PROVE  /\ number(code) \in Word /\ IsNumber(number(code))
         /\ toInt(number(code)) = code
<1>1. PICK most : most = IF code < 0 THEN -code ELSE code
  OBVIOUS
<1>2. most \in Nat /\ code = IF code < 0 THEN -most ELSE most
  BY <1>1
<1>3. PICK f : f = CHOOSE g : Decimals(most, g)
  OBVIOUS
<1>4. Decimals(most, f)
  <2>1. \E g : Decimals(most, g)
    BY <1>2, DecimalsSome
  <2>2. QED BY <1>3, <2>1, Zenon
<1>5. PICK w : w = f[most]
  OBVIOUS
<1>6. number(code) = IF code < 0 THEN <<"-">> \o w ELSE w
  <2>1. w = (CHOOSE g : Decimals(most, g))[most]
    BY <1>3, <1>5, Zenon
  <2>2. CASE code < 0
    <3>1. most = -code
      BY <1>1, <2>2, Zenon
    <3>2. number(code) = <<"-">> \o (CHOOSE g : Decimals(-code, g))[-code]
      BY <2>2 DEF number, Decimals
    <3>3. QED BY <2>1, <2>2, <3>1, <3>2, Zenon
  <2>3. CASE ~(code < 0)
    <3>1. most = code
      BY <1>1, <2>3, Zenon
    <3>2. number(code) = (CHOOSE g : Decimals(code, g))[code]
      BY <2>3 DEF number, Decimals
    <3>3. QED BY <2>1, <2>3, <3>1, <3>2, Zenon
  <2>4. QED BY <2>2, <2>3, Zenon
<1>7. Decimal(most, w)
  BY <1>2, <1>4, <1>5, DecimalsAre
<1>8. Value(w) = most
  BY <1>2, <1>7, ValueIs
<1>9. w \in Seq(DigitChars) /\ w # <<>>
  BY <1>7 DEF Decimal
<1>10. /\ Len(w) \in Nat \ {0}
       /\ \A i \in 1..Len(w) : w[i] \in DigitChars
  BY <1>9
<1>11. \A c \in DigitChars : c \in Chars /\ c # Blank /\ c # "-" /\ c # "+"
  BY DEF DigitChars, Chars, Blank
<1>12. Range(w) \subseteq Range(Digits)
  <2>1. Range(w) \subseteq DigitChars
    BY <1>9 DEF Range
  <2>2. QED BY <2>1, DigitsAre
<1>13. w \in Seq(Chars)
  BY <1>9, <1>11
<1>14. CASE code < 0
  <2>1. PICK s : s = <<"-">> \o w
    OBVIOUS
  <2>2. PICK sign : sign = <<"-">>
    OBVIOUS
  <2>3. "-" \in Chars /\ "-" # Blank
    BY DEF Chars, Blank
  <2>4. sign \in Seq(Chars) /\ Len(sign) = 1 /\ sign[1] = "-"
    BY <2>2, <2>3
  <2>5. sign \in Seq(Chars)
    BY <2>4
  <2>6. s = sign \o w
    BY <2>1, <2>2, Zenon
  <2>7. /\ s \in Seq(Chars) /\ Len(sign) \in Nat /\ Len(w) \in Nat /\ Len(s) = Len(sign) + Len(w)
        /\ \A i \in 1..Len(sign) : s[i] = sign[i]
        /\ \A i \in 1..Len(w) : s[Len(sign) + i] = w[i]
    BY <1>13, <2>5, <2>6, Joined
  <2>8. /\ s # <<>> /\ Len(s) = Len(w) + 1 /\ s[1] = "-"
        /\ \A i \in 1..Len(w) : s[i + 1] = w[i]
    BY <2>4, <2>7
  <2>9. Tail(s) = w
    <3>1. PICK u : u = Tail(s)
      OBVIOUS
    <3>2. u \in Seq(Chars) /\ Len(u) = Len(w) /\ \A i \in 1..Len(w) : u[i] = s[i + 1]
      BY <2>7, <2>8, <3>1
    <3>3. \A i \in 1..Len(u) : u[i] = w[i]
      BY <2>8, <3>2
    <3>4. u \in Seq(Chars) /\ Len(u) = Len(w)
      BY <3>2
    <3>5. u = w
      BY <1>13, <3>3, <3>4, SeqEqual
    <3>6. QED BY <3>1, <3>5, Zenon
  <2>10. number(code) = s
    BY <1>6, <1>14, <2>1, Zenon
  <2>11. Unsigned(s) = w
    BY <2>8, <2>9 DEF Unsigned
  <2>12. IsNumber(s)
    BY <1>9, <1>12, <2>11, Zenon DEF IsNumber
  <2>13. toInt(s) = -most
    BY <1>8, <2>8, <2>11, <2>12, Zenon DEF toInt
  <2>14. s \in Word
    <3>1. ASSUME NEW i \in 1..Len(s) PROVE s[i] # Blank
      <4>1. CASE i = 1
        BY <2>3, <2>8, <4>1
      <4>2. CASE i # 1
        <5>1. i - 1 \in 1..Len(w) /\ (i - 1) + 1 = i
          BY <2>7, <2>8, <4>2
        <5>2. s[i] = w[i - 1]
          BY <2>8, <5>1
        <5>3. QED BY <1>10, <1>11, <5>1, <5>2
      <4>3. QED BY <4>1, <4>2
    <3>2. QED BY <2>7, <2>8, <3>1 DEF Word
  <2>15. QED BY <1>2, <1>14, <2>10, <2>12, <2>13, <2>14, Zenon
<1>15. CASE ~(code < 0)
  <2>1. number(code) = w
    BY <1>6, <1>15, Zenon
  <2>2. w[1] \in DigitChars
    BY <1>10
  <2>3. w[1] # "-" /\ w[1] # "+"
    BY <1>11, <2>2
  <2>4. Unsigned(w) = w
    BY <2>3 DEF Unsigned
  <2>5. IsNumber(w)
    BY <1>9, <1>12, <2>4, Zenon DEF IsNumber
  <2>6. toInt(w) = most
    BY <1>8, <2>3, <2>4, <2>5, Zenon DEF toInt
  <2>7. w \in Word
    BY <1>9, <1>10, <1>11, <1>13 DEF Word
  <2>8. QED BY <1>2, <1>15, <2>1, <2>5, <2>6, <2>7, Zenon
<1>16. QED BY <1>14, <1>15, Zenon

-----------------------------------------------------------------------------
(* Answers.                                                                  *)

\* The data of an answer: an error code, a blank and a text.
AnswerText(code, text, data) == data = Append(number(code), Blank) \o text

LEMMA FirstAndRest ==
  ASSUME NEW E, NEW w \in E, NEW ws \in Seq(E), NEW all, all = <<w>> \o ws
  PROVE  all # <<>> /\ all[1] = w /\ Tail(all) = ws
<1>1. PICK one : one = <<w>>
  OBVIOUS
<1>2. one \in Seq(E) /\ Len(one) = 1 /\ one[1] = w
  BY <1>1
<1>3. /\ all \in Seq(E) /\ Len(all) = Len(ws) + 1 /\ Len(ws) \in Nat /\ all[1] = w
      /\ \A i \in 1..Len(ws) : all[i + 1] = ws[i]
  <2>1. one \in Seq(E)
    BY <1>2
  <2>2. all = one \o ws
    BY <1>1, Zenon
  <2>3. /\ all \in Seq(E) /\ Len(one) \in Nat /\ Len(ws) \in Nat /\ Len(all) = Len(one) + Len(ws)
        /\ \A i \in 1..Len(one) : all[i] = one[i]
        /\ \A i \in 1..Len(ws) : all[Len(one) + i] = ws[i]
    BY <2>1, <2>2, Joined
  <2>4. \A i \in 1..Len(ws) : all[i + 1] = ws[i]
    BY <1>2, <2>3
  <2>5. QED BY <1>2, <2>3, <2>4
<1>4. PICK u : u = Tail(all)
  OBVIOUS
<1>5. u \in Seq(E) /\ Len(u) = Len(ws) /\ \A i \in 1..Len(ws) : u[i] = all[i + 1]
  BY <1>3, <1>4
<1>6. u = ws
  <2>1. u \in Seq(E) /\ Len(u) = Len(ws)
    BY <1>5
  <2>2. \A i \in 1..Len(u) : u[i] = ws[i]
    BY <1>3, <1>5
  <2>3. QED BY <2>1, <2>2, SeqEqual
<1>7. QED BY <1>3, <1>4, <1>6

\* The words of an answer: the code, and the words of the text.
LEMMA AnswerWords ==
  ASSUME NEW code \in Int, NEW text \in Seq(Chars), NEW data, AnswerText(code, text, data)
  PROVE  /\ data \in Seq(Chars)
         /\ Words(data) # <<>> /\ Words(data)[1] = number(code)
         /\ Tail(Words(data)) = Words(text)
<1>1. PICK num : num = number(code)
  OBVIOUS
<1>2. num \in Word
  BY <1>1, NumberRead
<1>3. num \in Seq(Chars)
  BY <1>2 DEF Word
<1>4. Blank \in Chars
  BY DEF Chars
<1>5. PICK a : a = Append(num, Blank)
  OBVIOUS
<1>6. a \in Seq(Chars) /\ a # <<>> /\ Len(num) \in Nat /\ Len(a) = Len(num) + 1
      /\ a[Len(num) + 1] = Blank
  BY <1>3, <1>4, <1>5, AppendedTo
<1>7. data = a \o text
  BY <1>1, <1>5, Zenon DEF AnswerText
<1>8. data \in Seq(Chars)
  BY <1>6, <1>7
<1>9. Words(a \o text) = Words(a) \o Words(text)
  <2>1. a \in Seq(Chars)
    BY <1>6
  <2>2. a # <<>> => a[Len(a)] = Blank
    BY <1>6
  <2>3. QED BY <2>1, <2>2, WordsOfBoth
<1>10. Words(a) = Words(num)
  BY <1>3, <1>5, WordsOfBlank
<1>11. Words(num) = <<num>>
  BY <1>2, OneWord
<1>12. Words(text) \in Seq(Word)
  BY WordsTyped
<1>13. Words(data) = <<num>> \o Words(text)
  BY <1>7, <1>9, <1>10, <1>11, Zenon
<1>14. PICK ws : ws = Words(text)
  OBVIOUS
<1>15. PICK all : all = Words(data)
  OBVIOUS
<1>16. all # <<>> /\ all[1] = num /\ Tail(all) = ws
  <2>1. ws \in Seq(Word)
    BY <1>12, <1>14
  <2>2. all = <<num>> \o ws
    BY <1>13, <1>14, <1>15, Zenon
  <2>3. QED BY <1>2, <2>1, <2>2, FirstAndRest
<1>17. QED BY <1>1, <1>8, <1>14, <1>15, <1>16, Zenon

\* An answer to a message, whose data is the code and the text.
IsAnswer(m, answer, code, text) ==
  \E flags, data :
    /\ flags \in {m.flags \cup {ReplyFlag, UrgentFlag}, m.flags \cup {ReplyFlag}}
    /\ AnswerText(code, text, data)
    /\ answer = MessageData(flags, m.snr, m.destination, m.source, data)

\* What AnswersReadBack says of one answer.
ReadAs(m, answer, code, args, isAck) ==
  LET got == Received(answer)
      r == ReplyParserParse(FreshReplyParser, got)
  IN  /\ got.destination = stripRight(m.source, NUL)
      /\ got.source = stripRight(m.destination, NUL)
      /\ got.snr = m.snr
      /\ userFlags(got) = userFlags(m)
      /\ r.ok /\ r.parser = [args |-> args, isAck |-> isAck, errorCode |-> code]
      /\ ~CommandParserParse(FreshCommandParser, got).ok

\* The parsers, for a reply with a number before the rest.
LEMMA ParsedAs ==
  ASSUME NEW got, isReply(got), Words(got.data) # <<>>, IsNumber(Words(got.data)[1]),
         NEW isAck \in BOOLEAN, isAck <=> Tail(Words(got.data)) = <<<<"ACK">>>>
  PROVE  /\ ReplyParserParse(FreshReplyParser, got).ok
         /\ ReplyParserParse(FreshReplyParser, got).parser
              = [args |-> Tail(Words(got.data)), isAck |-> isAck,
                 errorCode |-> toInt(Words(got.data)[1])]
         /\ ~CommandParserParse(FreshCommandParser, got).ok
<1>1. PICK words : words = Words(got.data)
  OBVIOUS
<1>2. PICK rest : rest = Tail(words)
  OBVIOUS
<1>3. PICK code : code = toInt(words[1])
  OBVIOUS
<1>4. ReplyParserClear(FreshReplyParser) = FreshReplyParser
  BY ClearedIsFresh, FreshParsers
<1>5. ReplyParserParse(FreshReplyParser, got)
        = [ok |-> IsNumber(words[1]),
           parser |-> [FreshReplyParser EXCEPT !.args = rest, !.errorCode = code,
                         !.isAck = IF IsNumber(words[1]) /\ rest = <<<<"ACK">>>> THEN TRUE ELSE @]]
  BY <1>1, <1>2, <1>3, <1>4, Zenon DEF ReplyParserParse
<1>6. PICK p : p = [FreshReplyParser EXCEPT !.args = rest, !.errorCode = code,
                      !.isAck = IF IsNumber(words[1]) /\ rest = <<<<"ACK">>>> THEN TRUE ELSE @]
  OBVIOUS
<1>7. p = [args |-> rest, isAck |-> isAck, errorCode |-> code]
  <2>1. p = [args |-> rest, isAck |-> IF rest = <<<<"ACK">>>> THEN TRUE ELSE FALSE,
             errorCode |-> code]
    BY <1>1, <1>6 DEF FreshReplyParser
  <2>2. CASE isAck
    <3>1. rest = <<<<"ACK">>>> /\ isAck = TRUE
      BY <1>1, <1>2, <2>2, Zenon
    <3>2. QED BY <2>1, <3>1, Zenon
  <2>3. CASE ~isAck
    <3>1. ~(rest = <<<<"ACK">>>>) /\ isAck = FALSE
      BY <1>1, <1>2, <2>3, Zenon
    <3>2. QED BY <2>1, <3>1, Zenon
  <2>4. QED BY <2>2, <2>3, Zenon
<1>8. ReplyParserParse(FreshReplyParser, got).ok
  BY <1>1, <1>5
<1>9. ReplyParserParse(FreshReplyParser, got).parser = p
  BY <1>5, <1>6
<1>10. ~CommandParserParse(FreshCommandParser, got).ok
  BY DEF CommandParserParse
<1>11. QED BY <1>1, <1>2, <1>3, <1>7, <1>8, <1>9, <1>10, Zenon

\* Every answer is read as its code and the words of its text.
LEMMA AnswerIsRead ==
  ASSUME NEW m, IsMessage(m), NEW code \in Int, NEW text \in Seq(Chars), NEW answer,
         IsAnswer(m, answer, code, text),
         NEW isAck \in BOOLEAN, isAck <=> Words(text) = <<<<"ACK">>>>
  PROVE  ReadAs(m, answer, code, Words(text), isAck)
<1>1. PICK flags, data :
        /\ flags \in {m.flags \cup {ReplyFlag, UrgentFlag}, m.flags \cup {ReplyFlag}}
        /\ AnswerText(code, text, data)
        /\ answer = MessageData(flags, m.snr, m.destination, m.source, data)
  BY DEF IsAnswer
<1>2. /\ m.flags \subseteq DcpBits \cup UserBits
      /\ FitsHeader(m.source) /\ FitsHeader(m.destination)
      /\ m.source \in Seq(Nat) /\ m.destination \in Seq(Nat)
  BY DEF IsMessage, FitsHeader
<1>3. flags \in SUBSET (DcpBits \cup UserBits) /\ ReplyFlag \in flags
  BY <1>1, <1>2 DEF ReplyFlag, UrgentFlag, DcpBits
<1>4. flags \cap UserBits = m.flags \cap UserBits
  BY <1>1 DEF ReplyFlag, UrgentFlag, UserBits
<1>5. Tidy(answer)
  BY <1>1, <1>2, <1>3, MessageDataIsTidy
<1>6. /\ answer.flags = flags /\ answer.snr = m.snr /\ answer.data = data
      /\ answer.source = stripRight(truncate(m.destination), NUL)
      /\ answer.destination = stripRight(truncate(m.source), NUL)
  BY <1>1 DEF MessageData
<1>7. truncate(m.source) = m.source /\ truncate(m.destination) = m.destination
  BY <1>2, TruncateFitting
<1>8. /\ stripRight(answer.source, NUL) = answer.source
      /\ stripRight(answer.destination, NUL) = answer.destination
  BY <1>5, StripOfName DEF Tidy
<1>9. PICK got : got = Received(answer)
  OBVIOUS
<1>10. /\ got = [isNull |-> FALSE, flags |-> answer.flags, snr |-> answer.snr,
                 source |-> stripRight(answer.source, NUL),
                 destination |-> stripRight(answer.destination, NUL), data |-> answer.data]
  BY <1>5, <1>9, ReceivedIs DEF Tidy
<1>11. /\ got.flags = flags /\ got.snr = m.snr /\ got.data = data
       /\ got.source = stripRight(m.destination, NUL)
       /\ got.destination = stripRight(m.source, NUL)
  BY <1>6, <1>7, <1>8, <1>10
<1>12. userFlags(got) = userFlags(m)
  BY <1>4, <1>11, Zenon DEF userFlags
<1>13. isReply(got)
  BY <1>3, <1>11 DEF isReply
<1>14. /\ Words(data) # <<>> /\ Words(data)[1] = number(code)
       /\ Tail(Words(data)) = Words(text)
  BY <1>1, AnswerWords
<1>15. IsNumber(Words(data)[1]) /\ toInt(Words(data)[1]) = code
  BY <1>14, NumberRead, Zenon
<1>16. /\ ReplyParserParse(FreshReplyParser, got).ok
       /\ ReplyParserParse(FreshReplyParser, got).parser
            = [args |-> Words(text), isAck |-> isAck, errorCode |-> code]
       /\ ~CommandParserParse(FreshCommandParser, got).ok
  <2>1. Words(got.data) # <<>> /\ IsNumber(Words(got.data)[1])
    BY <1>11, <1>14, <1>15, Zenon
  <2>2. isAck <=> Tail(Words(got.data)) = <<<<"ACK">>>>
    BY <1>11, <1>14, Zenon
  <2>3. /\ ReplyParserParse(FreshReplyParser, got).ok
        /\ ReplyParserParse(FreshReplyParser, got).parser
             = [args |-> Tail(Words(got.data)), isAck |-> isAck,
                errorCode |-> toInt(Words(got.data)[1])]
        /\ ~CommandParserParse(FreshCommandParser, got).ok
    BY <1>13, <2>1, <2>2, ParsedAs, Zenon
  <2>4. QED BY <1>11, <1>14, <1>15, <2>3, Zenon
<1>17. QED BY <1>9, <1>11, <1>12, <1>16, Zenon DEF ReadAs

\* The answers of ackMessage() and replyMessage().
LEMMA AcksAreAnswers ==
  ASSUME NEW m, NEW code \in Int
  PROVE  IsAnswer(m, ackMessage(m, code), code, <<"ACK">>)
<1>1. PICK num : num = number(code)
  OBVIOUS
<1>2. num \in Seq(Chars)
  BY <1>1, NumberRead DEF Word
<1>3. Blank \in Chars /\ <<"ACK">> \in Seq(Chars)
  BY DEF Chars
<1>4. Append(num, Blank) \o <<"ACK">> = num \o (<<Blank>> \o <<"ACK">>)
  <2>1. Between(Chars, num, Blank, <<"ACK">>, Append(num, Blank) \o <<"ACK">>,
                num \o (<<Blank>> \o <<"ACK">>))
    BY <1>2, <1>3, Zenon DEF Between
  <2>2. QED BY <2>1, JoinedBoth, Zenon
<1>5. <<Blank>> \o <<"ACK">> = <<Blank, "ACK">>
  <2>1. <<Blank>> \in Seq(Chars) /\ "ACK" \in Chars
    BY DEF Chars
  <2>2. <<Blank>> \o <<"ACK">> = Append(<<Blank>>, "ACK")
    BY <2>1, AppendIsConcat
  <2>3. Append(<<Blank>>, "ACK") = <<Blank, "ACK">>
    <3>1. PICK s : s = <<Blank>>
      OBVIOUS
    <3>2. PICK t : t = <<Blank, "ACK">>
      OBVIOUS
    <3>3. s \in Seq(Chars) /\ Len(s) = 1 /\ s[1] = Blank
      BY <2>1, <3>1
    <3>4. t \in Seq(Chars) /\ Len(t) = 2 /\ t[1] = Blank /\ t[2] = "ACK"
      BY <1>3, <2>1, <3>2
    <3>5. s \in Seq(Chars) /\ t \in Seq(Chars) /\ Len(t) = Len(s) + 1
          /\ \A i \in 1..Len(s) : t[i] = s[i]
      BY <3>3, <3>4
    <3>6. t = Append(s, t[Len(s) + 1])
      BY <3>5, ExtendedBy
    <3>7. t[Len(s) + 1] = "ACK"
      BY <3>3, <3>4
    <3>8. QED BY <3>1, <3>2, <3>6, <3>7, Zenon
  <2>4. QED BY <2>2, <2>3, Zenon
<1>6. AnswerText(code, <<"ACK">>, num \o <<Blank, "ACK">>)
  BY <1>1, <1>4, <1>5, Zenon DEF AnswerText
<1>7. ackMessage(m, code)
        = MessageData(m.flags \cup {ReplyFlag, UrgentFlag}, m.snr, m.destination, m.source,
                      num \o <<Blank, "ACK">>)
  BY <1>1, Zenon DEF ackMessage
<1>8. QED BY <1>6, <1>7 DEF IsAnswer

LEMMA RepliesAreAnswers ==
  ASSUME NEW m, NEW code \in Int, NEW data \in Seq(Chars)
  PROVE  IsAnswer(m, replyMessage(m, data, code), code, IF data = <<>> THEN <<"FIN">> ELSE data)
<1>1. PICK num : num = number(code)
  OBVIOUS
<1>2. PICK text : text = IF data = <<>> THEN <<"FIN">> ELSE data
  OBVIOUS
<1>3. num \o <<Blank>> = Append(num, Blank)
  <2>1. num \in Seq(Chars)
    BY <1>1, NumberRead DEF Word
  <2>2. Blank \in Chars
    BY DEF Chars
  <2>3. QED BY <2>1, <2>2, AppendIsConcat
<1>4. AnswerText(code, text, num \o <<Blank>> \o text)
  BY <1>1, <1>3, Zenon DEF AnswerText
<1>5. replyMessage(m, data, code)
        = MessageData(m.flags \cup {ReplyFlag}, m.snr, m.destination, m.source,
                      num \o <<Blank>> \o text)
  BY <1>1, <1>2, Zenon DEF replyMessage
<1>6. IsAnswer(m, replyMessage(m, data, code), code, text)
  BY <1>4, <1>5 DEF IsAnswer
<1>7. QED BY <1>2, <1>6, Zenon

LEMMA Keywords ==
  /\ <<"ACK">> \in Seq(Chars) /\ Words(<<"ACK">>) = <<<<"ACK">>>>
  /\ <<"FIN">> \in Seq(Chars) /\ Words(<<"FIN">>) = <<<<"FIN">>>>
  /\ <<<<"FIN">>>> # <<<<"ACK">>>>
<1>1. <<"ACK">> \in Word /\ <<"FIN">> \in Word
  <2>1. ASSUME NEW c \in Chars, c # Blank PROVE <<c>> \in Word
    <3>1. PICK w : w = <<c>>
      OBVIOUS
    <3>2. w \in Seq(Chars) /\ w # <<>> /\ Len(w) = 1 /\ w[1] = c
      BY <3>1
    <3>3. \A i \in 1..Len(w) : w[i] # Blank
      BY <2>1, <3>2
    <3>4. QED BY <3>1, <3>2, <3>3 DEF Word
  <2>2. "ACK" \in Chars /\ "FIN" \in Chars /\ "ACK" # Blank /\ "FIN" # Blank
    BY DEF Chars, Blank
  <2>3. QED BY <2>1, <2>2
<1>2. Words(<<"ACK">>) = <<<<"ACK">>>> /\ Words(<<"FIN">>) = <<<<"FIN">>>>
  BY <1>1, OneWord
<1>3. <<"ACK">> \in Seq(Chars) /\ <<"FIN">> \in Seq(Chars)
  BY <1>1 DEF Word
<1>4. <<<<"FIN">>>> # <<<<"ACK">>>>
  OBVIOUS
<1>5. QED BY <1>2, <1>3, <1>4, Zenon

\* The data is a text, of an answer too.
DataInv == msg.data \in Seq(Chars)

LEMMA SeqOfMore ==
  ASSUME NEW E, NEW F, E \subseteq F
  PROVE  Seq(E) \subseteq Seq(F)
OBVIOUS

LEMMA TextsAreData == Texts \subseteq Seq(Chars)
<1>1. STRING \subseteq Chars
  BY DEF Chars
<1>2. Seq(STRING) \subseteq Seq(Chars)
  BY <1>1, SeqOfMore, Zenon
<1>3. QED BY <1>2, MessageAssumption, Zenon

LEMMA AnswerData ==
  ASSUME NEW m, NEW code \in Int, NEW text \in Seq(Chars), NEW answer,
         IsAnswer(m, answer, code, text)
  PROVE  answer.data \in Seq(Chars)
<1>1. PICK flags, data :
        /\ AnswerText(code, text, data)
        /\ answer = MessageData(flags, m.snr, m.destination, m.source, data)
  BY DEF IsAnswer
<1>2. data \in Seq(Chars)
  BY <1>1, AnswerWords
<1>3. QED BY <1>1, <1>2 DEF MessageData

LEMMA InitData == MessageInit => DataInv
BY DEF MessageInit, NullMessage, DataInv

\* Every call leaves a text.
LEMMA NextData == MessageInv /\ DataInv /\ [MessageNext]_msg => DataInv'
<1> SUFFICES ASSUME MessageInv, DataInv, [MessageNext]_msg PROVE msg'.data \in Seq(Chars)
  BY DEF DataInv
<1>1. /\ IsMessage(msg) /\ msg.data \in Seq(Chars)
      /\ msg = [isNull |-> msg.isNull, flags |-> msg.flags, snr |-> msg.snr,
                source |-> msg.source, destination |-> msg.destination, data |-> msg.data]
  BY DEF MessageInv, DataInv, IsMessage
<1>2. CASE Construct
  <2>1. PICK source \in Names, destination \in Names, data \in Texts,
             dcp \in SUBSET FlagBits, user \in SUBSET FlagBits, snr \in Numbers :
          msg' = MessageData(Flags(dcp, user), snr, source, destination, data)
    BY <1>2 DEF Construct
  <2>2. data \in Seq(Chars)
    BY TextsAreData
  <2>3. QED BY <2>1, <2>2 DEF MessageData
<1>3. CASE Clear
  BY <1>3 DEF Clear, NullMessage
<1>4. ASSUME NEW flags, msg' = setFlags(msg, flags) PROVE msg'.data \in Seq(Chars)
  BY <1>1, <1>4 DEF setFlags
<1>5. CASE SetFlags \/ SetDcpFlags \/ SetUserFlags
  <2>1. \E flags : msg' = setFlags(msg, flags)
    BY <1>5 DEF SetFlags, SetDcpFlags, SetUserFlags, setDcpFlags, setUserFlags
  <2>2. QED BY <1>4, <2>1
<1>6. CASE SetSnr
  BY <1>1, <1>6 DEF SetSnr, setSnr
<1>7. CASE SetSource
  BY <1>1, <1>7 DEF SetSource, setSource
<1>8. CASE SetDestination
  BY <1>1, <1>8 DEF SetDestination, setDestination
<1>9. CASE SetData
  <2>1. PICK data \in Texts : msg' = setData(msg, data)
    BY <1>9 DEF SetData
  <2>2. data \in Seq(Chars)
    BY TextsAreData
  <2>3. QED BY <1>1, <2>1, <2>2 DEF setData
<1>10. CASE Answer
  <2>1. PICK code \in ErrorCodes :
          \/ msg' = ackMessage(msg, code)
          \/ \E data \in Texts : msg' = replyMessage(msg, data, code)
    BY <1>10 DEF Answer
  <2>2. code \in Int
    BY MessageAssumption
  <2>3. CASE msg' = ackMessage(msg, code)
    <3>1. IsAnswer(msg, msg', code, <<"ACK">>)
      BY <2>2, <2>3, AcksAreAnswers
    <3>2. <<"ACK">> \in Seq(Chars)
      BY Keywords
    <3>3. QED BY <2>2, <3>1, <3>2, AnswerData
  <2>4. CASE \E data \in Texts : msg' = replyMessage(msg, data, code)
    <3>1. PICK data \in Texts : msg' = replyMessage(msg, data, code)
      BY <2>4
    <3>2. data \in Seq(Chars)
      BY TextsAreData
    <3>3. PICK text : text = IF data = <<>> THEN <<"FIN">> ELSE data
      OBVIOUS
    <3>4. IsAnswer(msg, msg', code, text)
      BY <2>2, <3>1, <3>2, <3>3, RepliesAreAnswers
    <3>5. text \in Seq(Chars)
      BY <3>2, <3>3, Keywords, Zenon
    <3>6. QED BY <2>2, <3>4, <3>5, AnswerData
  <2>5. QED BY <2>1, <2>3, <2>4
<1>11. CASE Transfer
  <2>1. msg' = Received(msg)
    BY <1>11 DEF Transfer, Received
  <2>2. msg'.data = msg.data
    BY <1>1, <2>1, ReceivedIs
  <2>3. QED BY <1>1, <2>2
<1>12. CASE UNCHANGED msg
  BY <1>1, <1>12
<1>13. QED BY <1>2, <1>3, <1>5, <1>6, <1>7, <1>8, <1>9, <1>10, <1>11, <1>12 DEF MessageNext

(* The answers to a message reach its sender under its number and are read   *)
(* there for what they are (Message::ackMessage(), replyMessage(),           *)
(* percentEncodeSpaces(), ReplyParser::parse()): for names of any length,    *)
(* all flags, every text and every integer as the error code.                *)
THEOREM AnswersAreRead == MessageSpec => []AnswersReadBack
<1>1. MessageInv /\ DataInv => AnswersReadBack
  <2> SUFFICES ASSUME MessageInv, DataInv PROVE AnswersReadBack
    OBVIOUS
  <2>1. IsMessage(msg) /\ msg.data \in Seq(Chars)
    BY DEF MessageInv, DataInv
  <2>2. PICK words \in Seq(Word) : words = Words(msg.data)
    BY <2>1, WordsTyped
  <2>3. PICK joined : joined = joinedArguments(words)
    OBVIOUS
  <2>4. PICK encoded : encoded = percentEncodeSpaces(msg.data)
    OBVIOUS
  <2>5. PICK echoed : echoed = IF words = <<>> THEN <<<<"FIN">>>> ELSE words
    OBVIOUS
  <2>6. ASSUME NEW code \in ErrorCodes
        PROVE  /\ ReadAs(msg, ackMessage(msg, code), code, <<<<"ACK">>>>, TRUE)
               /\ isUrgent(Received(ackMessage(msg, code)))
    <3>1. code \in Int
      BY MessageAssumption
    <3>2. IsAnswer(msg, ackMessage(msg, code), code, <<"ACK">>)
      BY <3>1, AcksAreAnswers
    <3>3. ReadAs(msg, ackMessage(msg, code), code, Words(<<"ACK">>), TRUE)
      BY <2>1, <3>1, <3>2, Keywords, AnswerIsRead
    <3>4. UrgentFlag \in ackMessage(msg, code).flags
      BY DEF ackMessage, MessageData
    <3>5. IsMessage(ackMessage(msg, code))
      BY <2>1, AnswersAreMessages DEF Tidy
    <3>6. Received(ackMessage(msg, code)).flags = ackMessage(msg, code).flags
      BY <3>5, ReceivedIs
    <3>7. isUrgent(Received(ackMessage(msg, code)))
      BY <3>4, <3>6, Zenon DEF isUrgent
    <3>8. QED BY <3>3, <3>7, Keywords, Zenon
  <2>7. ASSUME NEW code \in ErrorCodes
        PROVE  ReadAs(msg, replyMessage(msg, joined, code), code, echoed,
                      words = <<<<"ACK">>>>)
    <3>1. code \in Int
      BY MessageAssumption
    <3>2. /\ joined \in Seq(Chars) /\ Words(joined) = words
          /\ joined = <<>> <=> words = <<>>
      BY <2>3, JoinedWords
    <3>3. PICK text : text = IF joined = <<>> THEN <<"FIN">> ELSE joined
      OBVIOUS
    <3>4. IsAnswer(msg, replyMessage(msg, joined, code), code, text)
      BY <3>1, <3>2, <3>3, RepliesAreAnswers
    <3>5. text \in Seq(Chars) /\ Words(text) = echoed
      <4>1. CASE words = <<>>
        BY <2>5, <3>2, <3>3, <4>1, Keywords, Zenon
      <4>2. CASE words # <<>>
        BY <2>5, <3>2, <3>3, <4>2, Zenon
      <4>3. QED BY <4>1, <4>2
    <3>6. echoed = <<<<"ACK">>>> <=> words = <<<<"ACK">>>>
      <4>1. <<>> # <<<<"ACK">>>>
        OBVIOUS
      <4>2. CASE words = <<>>
        BY <2>5, <4>1, <4>2, Keywords, Zenon
      <4>3. CASE words # <<>>
        BY <2>5, <4>3, Zenon
      <4>4. QED BY <4>2, <4>3
    <3>7. PICK ack \in BOOLEAN : ack = (words = <<<<"ACK">>>>)
      OBVIOUS
    <3>8. ack <=> Words(text) = <<<<"ACK">>>>
      BY <3>5, <3>6, <3>7, Zenon
    <3>9. ReadAs(msg, replyMessage(msg, joined, code), code, Words(text), ack)
      BY <2>1, <3>1, <3>4, <3>5, <3>8, AnswerIsRead
    <3>10. QED BY <3>5, <3>7, <3>9, Zenon
  <2>8. ASSUME NEW code \in ErrorCodes, msg.data # <<>>
        PROVE  /\ ReadAs(msg, replyMessage(msg, encoded, code), code, <<encoded>>,
                         msg.data = <<"ACK">>)
               /\ Decoded(encoded) = msg.data
    <3>1. code \in Int
      BY MessageAssumption
    <3>2. /\ encoded \in Seq(Chars) /\ Decoded(encoded) = msg.data
          /\ Len(encoded) >= Len(msg.data)
          /\ \A i \in DOMAIN encoded : encoded[i] # Blank
      BY <2>1, <2>4, Encodes DEF EncodedAs
    <3>3. encoded # <<>>
      BY <2>1, <2>8, <3>2
    <3>4. encoded \in Word
      BY <3>2, <3>3 DEF Word
    <3>5. Words(encoded) = <<encoded>>
      BY <3>4, OneWord
    <3>6. encoded = <<"ACK">> <=> msg.data = <<"ACK">>
      <4>1. "ACK" \in Chars /\ ~Escaped("ACK")
        BY DEF Chars, Escaped, Blank
      <4>2. QED BY <2>1, <2>4, <4>1, EncodedAlone
    <3>7. <<encoded>> = <<<<"ACK">>>> <=> encoded = <<"ACK">>
      OBVIOUS
    <3>8. PICK ack \in BOOLEAN : ack = (msg.data = <<"ACK">>)
      OBVIOUS
    <3>9. ack <=> Words(encoded) = <<<<"ACK">>>>
      BY <3>5, <3>6, <3>7, <3>8, Zenon
    <3>10. IsAnswer(msg, replyMessage(msg, encoded, code), code, encoded)
      <4>1. IsAnswer(msg, replyMessage(msg, encoded, code), code,
                     IF encoded = <<>> THEN <<"FIN">> ELSE encoded)
        BY <3>1, <3>2, RepliesAreAnswers
      <4>2. QED BY <3>3, <4>1, Zenon
    <3>11. ReadAs(msg, replyMessage(msg, encoded, code), code, Words(encoded), ack)
      BY <2>1, <3>1, <3>2, <3>9, <3>10, AnswerIsRead
    <3>12. QED BY <3>2, <3>5, <3>8, <3>11, Zenon
  <2>9. QED BY <2>2, <2>3, <2>4, <2>5, <2>6, <2>7, <2>8, Zenon DEF AnswersReadBack, ReadAs
<1>2. QED BY InitMessage, NextMessage, InitData, NextData, <1>1, PTL DEF MessageSpec

-----------------------------------------------------------------------------
(* The device map of dcpdump                                                 *)

\* The map is a function on names: what its symmetry rests on.
MapInv ==
  /\ DOMAIN deviceMap \subseteq Devices
  /\ deviceMap = [d \in DOMAIN deviceMap |-> deviceMap[d]]
  /\ MapSymmetric

LEMMA InitMap == DumpInit => MapInv
  BY DEF DumpInit, MapInv, MapSymmetric

(* A pair is taken only when neither name has a partner yet, so nothing that *)
(* is in the map changes.                                                    *)
LEMMA MappingMap ==
  ASSUME MapInv, NEW dev1 \in Devices, NEW dev2 \in Devices, ParseMapping(dev1, dev2)
  PROVE  MapInv'
<1>1. CASE ~MayMap(dev1, dev2)
  BY <1>1 DEF ParseMapping, MapInv, MapSymmetric
<1>2. CASE MayMap(dev1, dev2)
  <2>1. deviceMap' = [d \in DOMAIN deviceMap \cup {dev1, dev2} |->
                        IF d = dev1 THEN dev2 ELSE IF d = dev2 THEN dev1 ELSE deviceMap[d]]
    BY <1>2 DEF ParseMapping
  <2>2. dev1 \notin DOMAIN deviceMap /\ dev2 \notin DOMAIN deviceMap
    BY <1>2 DEF MayMap
  <2>3. ASSUME NEW d \in DOMAIN deviceMap'
        PROVE  deviceMap'[d] \in DOMAIN deviceMap' /\ deviceMap'[deviceMap'[d]] = d
    <3>1. CASE d \in {dev1, dev2}
      BY <2>1, <3>1
    <3>2. CASE d \in DOMAIN deviceMap
      <4>1. /\ deviceMap[d] \in DOMAIN deviceMap
            /\ deviceMap[deviceMap[d]] = d
        BY <3>2 DEF MapInv, MapSymmetric
      <4>2. QED BY <2>1, <2>2, <3>2, <4>1
    <3>3. QED BY <2>1, <2>3, <3>1, <3>2
  <2>4. QED BY <2>1, <2>3 DEF MapInv, MapSymmetric
<1>3. QED BY <1>1, <1>2

LEMMA NextMap == MapInv /\ [DumpNext]_dumpVars => MapInv'
<1> SUFFICES ASSUME MapInv, [DumpNext]_dumpVars PROVE MapInv'
  OBVIOUS
<1>1. ASSUME NEW dev1 \in Devices, NEW dev2 \in Devices, ParseMapping(dev1, dev2)
      PROVE  MapInv'
  BY <1>1, MappingMap
<1>2. CASE Start
  BY <1>2 DEF Start, MapInv, MapSymmetric
<1>3. ASSUME NEW m \in Incoming, MessageReceived(m) PROVE MapInv'
  BY <1>3 DEF MessageReceived, MapInv, MapSymmetric
<1>4. CASE UNCHANGED dumpVars
  BY <1>4 DEF dumpVars, MapInv, MapSymmetric
<1>5. QED BY <1>1, <1>2, <1>3, <1>4 DEF DumpNext

(* Each device of a pair is passed on to the other, whatever pairs the       *)
(* command line gives and in what order (CmdLineOptions::parse()).           *)
THEOREM MapGoesBothWays == DumpSpec => []MapSymmetric
<1>1. MapInv => MapSymmetric
  BY DEF MapInv
<1>2. QED BY InitMap, NextMap, <1>1, PTL DEF DumpSpec

LEMMA NewNames ==
  ASSUME NEW m, IsMessage(m), NEW source, NEW destination
  PROVE  setDestination(setSource(m, source), destination)
           = [isNull |-> FALSE, flags |-> m.flags, snr |-> m.snr, source |-> truncate(source),
              destination |-> truncate(destination), data |-> m.data]
<1> DEFINE src == truncate(source)
           dest == truncate(destination)
<1>1. PICK m1 : m1 = [m EXCEPT !.isNull = FALSE, !.source = src]
  OBVIOUS
<1>2. m1 = [isNull |-> FALSE, flags |-> m.flags, snr |-> m.snr,
            source |-> src, destination |-> m.destination, data |-> m.data]
  <2> HIDE DEF src
  <2> QED BY <1>1, Zenon DEF IsMessage
<1>3. PICK m2 : m2 = [m1 EXCEPT !.isNull = FALSE, !.destination = dest]
  OBVIOUS
<1>4. m2 = [isNull |-> FALSE, flags |-> m.flags, snr |-> m.snr,
            source |-> src, destination |-> dest, data |-> m.data]
  <2>1. /\ m1 = [isNull |-> m1.isNull, flags |-> m1.flags, snr |-> m1.snr,
                 source |-> m1.source, destination |-> m1.destination, data |-> m1.data]
        /\ m1.flags = m.flags /\ m1.snr = m.snr /\ m1.source = src /\ m1.data = m.data
    <3> HIDE DEF src
    <3> QED BY <1>2
  <2>2. m2 = [isNull |-> FALSE, flags |-> m1.flags, snr |-> m1.snr,
              source |-> m1.source, destination |-> dest, data |-> m1.data]
    <3> HIDE DEF dest
    <3> QED BY <1>3, <2>1, Zenon
  <2>3. QED BY <2>1, <2>2, Zenon
<1>5. m2 = setDestination(setSource(m, source), destination)
  BY <1>1, <1>3, Zenon DEF setDestination, setSource
<1>6. QED BY <1>4, <1>5, Zenon

(* What arrives is tidy, and so is a name of the map that fits.              *)
LEMMA IncomingIsTidy ==
  ASSUME NEW m \in Incoming PROVE Tidy(m) /\ m.isNull = FALSE
<1>1. PICK flags \in {{}, {ReplyFlag}}, source \in Devices, destination \in Devices, data \in DumpTexts :
        m = MessageData(flags, 1, source, destination, data)
  BY DEF Incoming
<1>2. source \in Seq(Nat) /\ destination \in Seq(Nat)
  BY DumpAssumption
<1>3. flags \in SUBSET (DcpBits \cup UserBits)
  BY DEF ReplyFlag, DcpBits
<1>4. Tidy(m)
  BY <1>1, <1>2, <1>3, MessageDataIsTidy
<1>5. QED BY <1>1, <1>4 DEF MessageData

(* The device that a message is passed on to can answer as if it had been    *)
(* asked itself (DcpDump::messageReceived()): for all names, maps and texts. *)
THEOREM AnswersArePassedBack == DumpSpec => []AnswersComeBack
<1>1. MapInv => AnswersComeBack
  <2> SUFFICES ASSUME MapInv, NEW m \in Incoming, m.source \in DOMAIN deviceMap,
                      Len(deviceMap[m.source]) <= NameSize, NEW data \in DumpTexts
               PROVE  /\ replyMessage(Forward(m), data, 0).source \in DOMAIN deviceMap
                      /\ Forward(replyMessage(Forward(m), data, 0)) = replyMessage(m, data, 0)
    BY DEF AnswersComeBack
  <2> DEFINE partner == deviceMap[m.source]
             passed == Forward(m)
             answer == replyMessage(passed, data, 0)
  <2>1. partner \in DOMAIN deviceMap /\ partner \in Devices /\ deviceMap[partner] = m.source
    BY DEF MapInv, MapSymmetric
  <2>2. IsName(partner) /\ FitsHeader(partner)
    BY <2>1, DumpAssumption DEF IsName, FitsHeader
  <2>3. Tidy(m)
    BY IncomingIsTidy
  <2>4. /\ IsName(m.source) /\ FitsHeader(m.source)
        /\ IsName(m.destination) /\ FitsHeader(m.destination)
    BY <2>3 DEF Tidy, IsMessage
  <2>5. /\ truncate(m.destination) = m.destination /\ truncate(partner) = partner
        /\ truncate(m.source) = m.source
    BY <2>2, <2>4, TruncateFitting
  <2>6. /\ stripRight(truncate(m.destination), NUL) = m.destination
        /\ stripRight(truncate(m.source), NUL) = m.source
        /\ stripRight(truncate(partner), NUL) = partner
    BY <2>2, <2>4, FieldOfName
  <2>7. passed = [isNull |-> FALSE, flags |-> m.flags, snr |-> m.snr, source |-> m.destination,
                  destination |-> partner, data |-> m.data]
    <3>1. passed = setDestination(setSource(m, m.destination), partner)
      BY DEF Forward
    <3>2. IsMessage(m)
      BY <2>3 DEF Tidy
    <3> HIDE DEF passed, partner
    <3>3. QED BY <2>5, <3>1, <3>2, NewNames, Zenon
  <2> DEFINE text == number(0) \o <<Blank>> \o (IF data = <<>> THEN <<"FIN">> ELSE data)
  <2>8. answer = [isNull |-> FALSE, flags |-> m.flags \cup {ReplyFlag}, snr |-> m.snr,
                  source |-> partner, destination |-> m.destination, data |-> text]
    <3>1. answer = MessageData(passed.flags \cup {ReplyFlag}, passed.snr, passed.destination,
                               passed.source, text)
      BY DEF replyMessage
    <3>2. /\ passed.flags = m.flags /\ passed.snr = m.snr
          /\ passed.source = m.destination /\ passed.destination = partner
      <4> HIDE DEF passed, partner
      <4> QED BY <2>7
    <3> HIDE DEF passed, partner, answer, text
    <3>3. answer = MessageData(m.flags \cup {ReplyFlag}, m.snr, partner, m.destination, text)
      BY <3>1, <3>2, Zenon
    <3>4. QED BY <2>6, <3>3, Zenon DEF MessageData
  <2>9. Tidy(answer)
    <3>1. m.flags \cup {ReplyFlag} \subseteq DcpBits \cup UserBits
      BY <2>3 DEF Tidy, IsMessage, ReplyFlag, DcpBits
    <3> HIDE DEF answer, partner, text
    <3>2. QED BY <2>2, <2>4, <2>8, <3>1 DEF Tidy, IsMessage
  <2>10. /\ answer.source = partner /\ answer.destination = m.destination
         /\ answer.flags = m.flags \cup {ReplyFlag} /\ answer.snr = m.snr /\ answer.data = text
    <3> HIDE DEF answer, partner, text
    <3> QED BY <2>8
  <2>11. Forward(answer) = [isNull |-> FALSE, flags |-> m.flags \cup {ReplyFlag}, snr |-> m.snr,
                            source |-> m.destination, destination |-> m.source, data |-> text]
    <3>1. Forward(answer) = setDestination(setSource(answer, answer.destination),
                                           deviceMap[answer.source])
      BY DEF Forward
    <3>2. deviceMap[answer.source] = m.source
      BY <2>1, <2>10, Zenon
    <3>3. IsMessage(answer)
      BY <2>9 DEF Tidy
    <3> HIDE DEF answer, partner, text
    <3>4. Forward(answer) = setDestination(setSource(answer, m.destination), m.source)
      BY <2>10, <3>1, <3>2, Zenon
    <3>5. setDestination(setSource(answer, m.destination), m.source)
            = [isNull |-> FALSE, flags |-> answer.flags, snr |-> answer.snr,
               source |-> truncate(m.destination), destination |-> truncate(m.source),
               data |-> answer.data]
      BY <3>3, NewNames, Zenon
    <3>6. QED BY <2>5, <2>10, <3>4, <3>5, Zenon
  <2>12. replyMessage(m, data, 0)
           = [isNull |-> FALSE, flags |-> m.flags \cup {ReplyFlag}, snr |-> m.snr,
              source |-> m.destination, destination |-> m.source, data |-> text]
    <3>1. replyMessage(m, data, 0)
            = MessageData(m.flags \cup {ReplyFlag}, m.snr, m.destination, m.source, text)
      BY DEF replyMessage
    <3> HIDE DEF text
    <3>2. QED BY <2>6, <3>1, Zenon DEF MessageData
  <2>13. answer.source \in DOMAIN deviceMap
    BY <2>1, <2>10, Zenon
  <2>14. Forward(answer) = replyMessage(m, data, 0)
    <3> HIDE DEF text, partner, answer
    <3> QED BY <2>11, <2>12, Zenon
  <2>15. QED BY <2>13, <2>14, Zenon
<1>2. QED BY InitMap, NextMap, <1>1, PTL DEF DumpSpec

-----------------------------------------------------------------------------
(* toHex()                                                                   *)

-----------------------------------------------------------------------------
(* Arithmetic.                                                               *)

(* How an input is divided into full lines and a last line.                  *)
LEMMA DivisionOfLines ==
    ASSUME NEW n \in Nat, NEW b \in Nat, b > 0
    PROVE  /\ n \div b \in Nat
           /\ b * (n \div b) <= n
           /\ n < b * (n \div b) + b
  OBVIOUS

LEMMA OneMoreLine ==
    ASSUME NEW b \in Nat, NEW l \in Nat
    PROVE  /\ b * l \in Nat
           /\ b * (l + 1) = b * l + b
  OBVIOUS

LEMMA Monotonic ==
    ASSUME NEW b \in Nat, NEW l \in Nat, NEW k \in Nat, l <= k
    PROVE  b * l <= b * k
<1>1. PICK d \in Nat : k = l + d
  <2>1. k - l \in Nat /\ k = l + (k - l)
    OBVIOUS
  <2> QED
    BY <2>1
<1>2. b * k = b * l + b * d /\ b * l \in Nat /\ b * d \in Nat
  BY <1>1
<1> QED
  BY <1>2

-----------------------------------------------------------------------------
(* After l lines that are not the last one, b * l bytes have been read, and  *)
(* so many characters written.                                               *)
WrittenBefore(l) ==
    PosChars * l + 3 * (bytesPerLine * l)
    + (IF showText THEN 2 * l + bytesPerLine * l ELSE 0)

(* The invariant: the pointers are functions of the number of lines, and the *)
(* text begins behind as many characters as a full line has.                 *)
Pointers ==
    /\ line <= NumLines
    /\ line <= NumLineBreaks => /\ pin = bytesPerLine * line
                                /\ pout = WrittenBefore(line)
    /\ line = NumLines => pin = size /\ pout = OutSize

Columns == textColumns \subseteq {PosChars + 3 * bytesPerLine + 1}

IInv == TypeOK /\ Pointers /\ Columns

(* The quantities the size is computed from.                                 *)
LEMMA LinesTypes ==
    ASSUME TypeOK
    PROVE  /\ NumLineBreaks \in Nat
           /\ bytesPerLine * NumLineBreaks \in Nat
           /\ NumLines = NumLineBreaks + 1
           /\ NumBytesLastLine \in 1 .. bytesPerLine
           /\ NumBytesLastLine = size - bytesPerLine * NumLineBreaks
           /\ PadBytesLastLine \in Nat
           /\ PadBytesLastLine = bytesPerLine - NumBytesLastLine
           /\ TextSize = bytesPerLine * NumLineBreaks + 2 * NumLineBreaks
                         + NumBytesLastLine + 2 + 3 * PadBytesLastLine
<1>1. size \in Nat /\ bytesPerLine \in Nat /\ bytesPerLine > 0 /\ size - 1 \in Nat
  BY HexAssumption DEF TypeOK
<1>2. /\ NumLineBreaks \in Nat
      /\ bytesPerLine * NumLineBreaks \in Nat
      /\ bytesPerLine * NumLineBreaks <= size - 1
      /\ size - 1 < bytesPerLine * NumLineBreaks + bytesPerLine
  BY <1>1, DivisionOfLines, OneMoreLine DEF NumLineBreaks
<1>3. NumLines = NumLineBreaks + 1
  BY DEF NumLines
<1>4. /\ NumBytesLastLine = size - bytesPerLine * NumLineBreaks
      /\ NumBytesLastLine \in 1 .. bytesPerLine
  BY <1>1, <1>2 DEF NumBytesLastLine
<1>5. PadBytesLastLine = bytesPerLine - NumBytesLastLine /\ PadBytesLastLine \in Nat
  BY <1>1, <1>4 DEF PadBytesLastLine
<1>6. (bytesPerLine + 2) * NumLineBreaks
          = bytesPerLine * NumLineBreaks + 2 * NumLineBreaks
  BY <1>1, <1>2
<1>7. TextSize = bytesPerLine * NumLineBreaks + 2 * NumLineBreaks
                 + NumBytesLastLine + 2 + 3 * PadBytesLastLine
  BY <1>1, <1>2, <1>4, <1>5, <1>6 DEF TextSize
<1> QED
  BY <1>2, <1>3, <1>4, <1>5, <1>7

LEMMA PosCharsTypes == PosChars \in {0, 10} /\ (showPos => PosChars = 10)
                       /\ (~showPos => PosChars = 0)
  BY DEF PosChars

LEMMA InitInv == HexInit => IInv
<1> SUFFICES ASSUME HexInit PROVE IInv
  OBVIOUS
<1>1. TypeOK
  <2>1. size \in 1 .. MaxSize /\ size \in Nat
    BY HexAssumption DEF HexInit
  <2>2. PICK width \in Widths : bytesPerLine = LineWidth(setBytesPerLine(width))
    BY DEF HexInit
  <2>3. width \in Int
    BY HexAssumption
  <2>4. bytesPerLine \in 1 .. size
    BY <2>1, <2>2, <2>3 DEF LineWidth, setBytesPerLine
  <2>5. showPos \in BOOLEAN /\ showText \in BOOLEAN
    BY DEF HexInit, ShowPosition, ShowText
  <2> QED
    BY <2>1, <2>4, <2>5 DEF TypeOK, HexInit
<1>2. Pointers
  <2>1. line = 0 /\ pin = 0 /\ pout = 0
    BY DEF HexInit
  <2>2. bytesPerLine \in Nat /\ bytesPerLine * 0 = 0 /\ PosChars * 0 = 0
    BY <1>1, PosCharsTypes, HexAssumption DEF TypeOK
  <2> QED
    BY <1>1, <2>1, <2>2, LinesTypes DEF Pointers, WrittenBefore
<1>3. Columns
  BY DEF HexInit, Columns
<1> QED
  BY <1>1, <1>2, <1>3 DEF IInv

LEMMA NextInv == IInv /\ [HexNext]_hexVars => IInv'
<1> SUFFICES ASSUME IInv, [HexNext]_hexVars PROVE IInv'
  OBVIOUS
<1>1. CASE UNCHANGED hexVars
  BY <1>1 DEF IInv, hexVars, options, TypeOK, Pointers, Columns, WrittenBefore, PosChars,
              OutSize, TextSize, NumLines, NumLineBreaks, NumBytesLastLine,
              PadBytesLastLine
<1>2. CASE WriteLine
  <2>1. /\ size' = size /\ bytesPerLine' = bytesPerLine
        /\ showPos' = showPos /\ showText' = showText
        /\ line < NumLines /\ line' = line + 1
        /\ pin' = pin + NumBytes
        /\ pout' = pout + PosChars + HexChars
                        + (IF showText THEN Spaces + NumBytes ELSE 0) + BreakChars
    BY <1>2 DEF WriteLine, options
  <2>2. /\ NumLineBreaks' = NumLineBreaks /\ NumLines' = NumLines
        /\ OutSize' = OutSize /\ PosChars' = PosChars
    BY <2>1 DEF OutSize, TextSize, NumLines, NumLineBreaks, NumBytesLastLine,
                PadBytesLastLine, PosChars
  <2>3. /\ size \in Nat /\ size <= MaxSize /\ bytesPerLine \in Nat
        /\ bytesPerLine >= 1 /\ bytesPerLine <= size
        /\ line \in Nat /\ pin \in Nat /\ pout \in Nat
        /\ showText \in BOOLEAN
    BY HexAssumption DEF IInv, TypeOK
  <2>lines. /\ NumLineBreaks \in Nat /\ NumLines = NumLineBreaks + 1
            /\ bytesPerLine * NumLineBreaks \in Nat
            /\ NumBytesLastLine \in 1 .. bytesPerLine
            /\ NumBytesLastLine = size - bytesPerLine * NumLineBreaks
            /\ PadBytesLastLine \in Nat
            /\ PadBytesLastLine = bytesPerLine - NumBytesLastLine
            /\ TextSize = bytesPerLine * NumLineBreaks + 2 * NumLineBreaks
                         + NumBytesLastLine + 2 + 3 * PadBytesLastLine
    BY LinesTypes DEF IInv
  <2>4. line <= NumLineBreaks
        /\ pin = bytesPerLine * line /\ pout = WrittenBefore(line)
    BY <2>1, <2>3, <2>lines DEF IInv, Pointers
  <2>5. ASSUME LastLine PROVE Pointers'
    <3>1. line = NumLineBreaks
      BY <2>3, <2>4, <2>5, <2>lines DEF LastLine
    <3>2. pin' = size
      BY <2>1, <2>3, <2>4, <2>5, <3>1, <2>lines DEF NumBytes
    <3>3. pout' = WrittenBefore(line) + PosChars + (3 * NumBytesLastLine - 1)
                  + (IF showText THEN 2 + 3 * PadBytesLastLine + NumBytesLastLine
                                 ELSE 0)
      <4>1. /\ NumBytes = NumBytesLastLine /\ HexChars = 3 * NumBytesLastLine - 1
            /\ Spaces = 2 + 3 * PadBytesLastLine /\ BreakChars = 0
        BY <2>5, <2>lines DEF NumBytes, HexChars, Spaces, BreakChars
      <4> QED
        BY <2>1, <2>3, <2>4, <2>lines, <4>1, PosCharsTypes
    <3>4. pout' = OutSize
      <4>1. CASE showPos
        BY <3>1, <3>3, <4>1, <2>3, <2>lines, PosCharsTypes
           DEF WrittenBefore, OutSize
      <4>2. CASE ~showPos
        BY <3>1, <3>3, <4>2, <2>3, <2>lines, PosCharsTypes
           DEF WrittenBefore, OutSize
      <4> QED
        BY <4>1, <4>2
    <3>5. Pointers'
      BY <2>1, <2>2, <2>3, <3>1, <3>2, <3>4, <2>lines DEF Pointers
    <3> QED
      BY <3>5
  <2>6. ASSUME ~LastLine PROVE Pointers'
    <3>1. line + 1 <= NumLineBreaks
      BY <2>1, <2>3, <2>6, <2>lines DEF LastLine
    <3>2. pin' = bytesPerLine * (line + 1)
      BY <2>1, <2>3, <2>4, <2>6, OneMoreLine DEF NumBytes
    <3>3. pout' = WrittenBefore(line) + PosChars + 3 * bytesPerLine
                  + (IF showText THEN 2 + bytesPerLine ELSE 0)
      BY <2>1, <2>3, <2>4, <2>6, PosCharsTypes
         DEF NumBytes, HexChars, Spaces, BreakChars, WrittenBefore
    <3>4. pout' = WrittenBefore(line + 1)
      BY <2>3, <3>3, OneMoreLine, PosCharsTypes DEF WrittenBefore
    <3>5. WrittenBefore(line)' = WrittenBefore(line + 1)
      BY <2>1, <2>2 DEF WrittenBefore
    <3> QED
      BY <2>1, <2>2, <2>3, <3>1, <3>2, <3>4, <3>5, <2>lines DEF Pointers
  <2>7. Pointers'
    BY <2>5, <2>6
  <2>8. Columns'
    <3>1. PosChars + HexChars + Spaces = PosChars + 3 * bytesPerLine + 1
      BY <2>3, <2>lines, PosCharsTypes DEF HexChars, Spaces, NumBytes
    <3> QED
      BY <1>2, <2>1, <2>2, <3>1 DEF IInv, Columns, WriteLine
  <2>9. TypeOK'
    <3>1. pin' \in Nat /\ pout' \in Nat
      BY <2>1, <2>3, <2>lines, PosCharsTypes
         DEF NumBytes, HexChars, Spaces, BreakChars
    <3>2. textColumns' \subseteq Int
      BY <2>1, <2>2, <2>3, <2>8, PosCharsTypes DEF Columns
    <3> QED
      BY <2>1, <2>3, <3>1, <3>2 DEF IInv, TypeOK
  <2> QED
    BY <2>7, <2>8, <2>9 DEF IInv
<1> QED
  BY <1>1, <1>2 DEF HexNext

-----------------------------------------------------------------------------
LEMMA Inductive == HexSpec => []IInv
  BY InitInv, NextInv, PTL DEF HexSpec

(* toHex() reads nothing behind its input and writes nothing behind the      *)
(* output it has allocated.                                                  *)
THEOREM StaysWithinBuffers == HexSpec => []WithinBuffers
<1>1. IInv => WithinBuffers
  <2> SUFFICES ASSUME IInv PROVE WithinBuffers
    OBVIOUS
  <2>1. CASE line = NumLines
    <3>1. size \in Nat /\ OutSize \in Int
      BY <2>1, HexAssumption DEF IInv, TypeOK, Pointers
    <3> QED
      BY <2>1, <3>1 DEF IInv, Pointers, WithinBuffers
  <2>2. CASE line # NumLines
    <3>1. /\ size \in Nat /\ bytesPerLine \in Nat /\ line \in Nat
          /\ line <= NumLineBreaks
      BY <2>2, HexAssumption, LinesTypes DEF IInv, TypeOK, Pointers
    <3>2. pin = bytesPerLine * line /\ pout = WrittenBefore(line)
      BY <3>1 DEF IInv, Pointers
    <3>3. /\ bytesPerLine * line \in Nat
          /\ bytesPerLine * line <= bytesPerLine * NumLineBreaks
          /\ bytesPerLine * NumLineBreaks \in Nat
          /\ bytesPerLine * NumLineBreaks <= size - 1
      BY <3>1, LinesTypes, Monotonic, OneMoreLine DEF IInv
    <3>4. pout <= OutSize
      <4>1. CASE showPos
        BY <3>1, <3>2, <3>3, <4>1, LinesTypes, PosCharsTypes
           DEF IInv, WrittenBefore, OutSize
      <4>2. CASE ~showPos
        BY <3>1, <3>2, <3>3, <4>2, LinesTypes, PosCharsTypes
           DEF IInv, WrittenBefore, OutSize
      <4> QED
        BY <4>1, <4>2
    <3> QED
      BY <3>1, <3>2, <3>3, <3>4 DEF WithinBuffers
  <2> QED
    BY <2>1, <2>2
<1> QED
  BY <1>1, Inductive, PTL

(* The assertions at the end of toHex() hold.                                *)
THEOREM FillsItsOutput == HexSpec => []EndsExactly
<1>1. IInv => EndsExactly
  BY DEF IInv, Pointers, EndsExactly
<1> QED
  BY <1>1, Inductive, PTL

(* The text stands in one column.                                            *)
THEOREM TextIsAligned == HexSpec => []TextAligned
<1>1. IInv => TextAligned
  BY DEF IInv, Columns, TextAligned
<1> QED
  BY <1>1, Inductive, PTL
=============================================================================
