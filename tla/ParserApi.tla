----------------------------- MODULE ParserApi ------------------------------
(***************************************************************************)
(* One ReplyParser and one CommandParser object that parse one message     *)
(* after the other, the way DcpHub, the time client and server and dcpterm *)
(* keep theirs as members.                                                 *)
(***************************************************************************)
EXTENDS MessageFormat

CONSTANTS ParsedTexts \* data of the messages that are parsed

VARIABLES replyParser, commandParser,
          replyCall, commandCall  \* the last message each has parsed and what parse() returned

parserVars == <<replyParser, commandParser, replyCall, commandCall>>

NoCall == [msg |-> NullMessage, ok |-> FALSE]

ParserInit ==
  /\ replyParser = FreshReplyParser
  /\ commandParser = FreshCommandParser
  /\ replyCall = NoCall
  /\ commandCall = NoCall

ParsedMessages == {MessageData(flags, 1, <<1>>, <<2>>, data) :
                     flags \in {{}, {ReplyFlag}}, data \in ParsedTexts}

ParseReply(msg) ==
  LET r == ReplyParserParse(replyParser, msg)
  IN  /\ replyParser' = r.parser
      /\ replyCall' = [msg |-> msg, ok |-> r.ok]
      /\ UNCHANGED <<commandParser, commandCall>>

ParseCommand(msg) ==
  LET r == CommandParserParse(commandParser, msg)
  IN  /\ commandParser' = r.parser
      /\ commandCall' = [msg |-> msg, ok |-> r.ok]
      /\ UNCHANGED <<replyParser, replyCall>>

ParserNext == \E msg \in ParsedMessages : ParseReply(msg) \/ ParseCommand(msg)

ParserSpec == ParserInit /\ [][ParserNext]_parserVars

-----------------------------------------------------------------------------
(* What a parser says of a message is what a new parser would say of it: nothing of an earlier
   message is left behind, also when the message is refused halfway (ReplyParser::parse(),
   CommandParser::parse() and their clear()). *)
NoLeftovers ==
  LET r == ReplyParserParse(FreshReplyParser, replyCall.msg)
      c == CommandParserParse(FreshCommandParser, commandCall.msg)
  IN  /\ replyParser = r.parser /\ replyCall.ok = r.ok
      /\ commandParser = c.parser /\ commandCall.ok = c.ok
=============================================================================
