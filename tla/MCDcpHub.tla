------------------------------ MODULE MCDcpHub ------------------------------
(* Small instances of DcpHub for TLC.                                        *)
EXTENDS DcpHub

CONSTANTS s1, s2, s3, n1, n2, hub, other

Packets(srcs, dsts, bodies) == [src : srcs, dst : dsts, body : bodies]
Text == [kind |-> "text"]
Oversize == [kind |-> "oversize"]
Cmd(type, id, args) == [kind |-> "command", type |-> type, id |-> id, args |-> args]

\* Devices that talk to each other, register, clash and misbehave.
RoutingTraffic == Packets({n1, n2}, {n1, n2}, {Text})
                  \cup Packets({n1, NullName, hub}, {n2}, {Text})
                  \cup Packets({n1}, {NullName}, {Text, Oversize})

\* Commands to the hub, also under the name of another device, between texts.
CommandTraffic ==
    Packets({n1}, {hub}, {Cmd("get", "devlist", <<>>), Cmd("get", "devlist", <<n1>>),
                          Cmd("get", "debug", <<>>), Cmd("set", "debug", <<"full">>),
                          Cmd("def", "devlist", <<>>), Cmd("get", "echo", <<n2>>)})
    \cup Packets({n1, n2}, {hub}, {Cmd("get", "devinfo", <<>>),
                                   Cmd("get", "devinfo", <<n1, n2>>)})
    \cup Packets({n2}, {hub, n1}, {Text})

SocketSymmetry == Permutations(Sockets)
=============================================================================
