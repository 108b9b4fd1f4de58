---------------------------- MODULE MCDcpFraming ----------------------------
(* Small instances of DcpFraming for TLC: data whose cells look like sizes.   *)
EXTENDS DcpFraming

Data == {<<>>, <<1>>}
Answers == {<<2, 0>>}
TooLargePackets == {[msgSize |-> 2, offset |-> 0, data |-> <<0, 1>>]}
\* A message of two cells in two packets.
Parts ==
    {[msgSize |-> 2, offset |-> i, data |-> <<i>>] : i \in {0, 1}}
\* A packet whose size wraps to 1, and what then lies behind has sizes that wrap at
\* the client (6) and to 0 (5).
WrappingPackets == {[msgSize |-> 6, offset |-> 6, data |-> <<0, 0, 0, 5, 0, 0>>]}
AnyPackets == Parts \cup TooLargePackets \cup WrappingPackets
=============================================================================
