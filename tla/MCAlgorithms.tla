---------------------------- MODULE MCAlgorithms ----------------------------
(* The sequential parts, for TLC: a behaviour runs one of them and leaves    *)
(* the others at rest.                                                       *)
EXTENDS HexFormatter, MessageApi, ParserApi, DcpDump

VARIABLE part   \* the part that runs

AllWidths == -1 .. MaxSize + 1

\* Names that are cut, that end in nulls, and that have a null in between.
SomeNames == {<<>>, <<2, 0>>, <<0, 1>>, <<1, 2, 1>>}
SomeCodes == {-10, 0}
PlainNames == {<<1>>, <<2>>, <<1, 2>>, <<2, 1, 1>>}

MessageTexts ==
    {<<>>, <<"ACK">>, <<"ACK", " ">>, <<"x", " ", " ", "ACK">>, <<"x", "%", "2", "0", " ">>}

\* Short texts of all kinds of words, and some that are parsed further.
ShortTexts ==
    UNION {[1 .. n -> {" ", "0", "-", "ACK", "get"}] : n \in 0 .. 2}
    \cup {<<"0", " ", "ACK">>, <<" ", "-", "0", " ", " ", "ACK">>, <<"0", " ", "ACK", " ", "ACK">>,
          <<"2", "0", " ", "x">>, <<"x", " ", "ACK">>, <<"get", " ", "x">>,
          <<"undef", " ", "x", " ", "x", "x">>, <<"x", " ", "get", " ", "ACK">>}

HexRests ==
    /\ size = 1 /\ bytesPerLine = 1 /\ showPos = FALSE /\ showText = FALSE
    /\ line = 0 /\ pin = 0 /\ pout = 0 /\ textColumns = {}

Init ==
    \/ part = "hex" /\ HexInit /\ MessageInit /\ ParserInit /\ DumpInit
    \/ part \in {"message", "parser", "dump"} /\ HexRests /\ MessageInit /\ ParserInit /\ DumpInit

Next ==
    /\ UNCHANGED part
    /\ \/ part = "hex" /\ HexNext /\ UNCHANGED <<msg, parserVars, dumpVars>>
       \/ part = "message" /\ MessageNext /\ UNCHANGED <<hexVars, parserVars, dumpVars>>
       \/ part = "parser" /\ ParserNext /\ UNCHANGED <<hexVars, msg, dumpVars>>
       \/ part = "dump" /\ DumpNext /\ UNCHANGED <<hexVars, msg, parserVars>>

Spec == Init /\ [][Next]_<<part, hexVars, msg, parserVars, dumpVars>>
=============================================================================
