------------------------------- MODULE DcpSend --------------------------------
(***************************************************************************)
(* tools/dcpsend: sends each line of its input to a list of devices and    *)
(* stays connected for a while.  It has no event loop: the socket writes,  *)
(* reads and notices that the connection is lost only while the program    *)
(* blocks in one of the waits of the client.                               *)
(*                                                                         *)
(* A line is empty or not, and fits into a packet; its number stands for   *)
(* its text.  Time passes in ticks, of which a wait or a delay takes any   *)
(* number.                                                                 *)
(***************************************************************************)
EXTENDS Integers, SequencesExt

CONSTANTS
    Inputs,         \* the inputs tried: sequences of BOOLEAN, TRUE for a line with text
    Destinations,   \* destList, a sequence of names
    MinConnection   \* minConnectionTime, and the bound of the clock

ASSUME SendAssumption ==
    /\ Inputs \subseteq Seq(BOOLEAN)
    /\ Destinations \in Seq(ToSet(Destinations))

VARIABLES
    input,      \* what standard input holds
    line,       \* the lines read
    turn,       \* what main() does next
    link,       \* "none", "up", "lost" (and the socket has not noticed) or "down"
    buffer,     \* the write buffer of the socket
    wire,       \* history: what the hub was sent
    snr,        \* the number of the last message
    clock,      \* stopWatch.elapsed()
    exit,       \* the exit status, -1 while the program runs
    broken      \* history: the connection was lost

sendVars == <<input, line, turn, link, buffer, wire, snr, clock, exit, broken>>

SendInit ==
    /\ input \in Inputs
    /\ line = 0 /\ turn = "connect" /\ link = "none"
    /\ buffer = <<>> /\ wire = <<>> /\ snr = 0 /\ clock = 0
    /\ exit = -1 /\ broken = FALSE

-----------------------------------------------------------------------------
(* The client and its socket.                                                *)

Registration == [snr |-> 0, line |-> 0, to |-> "hub"]

\* sendMessage(): a socket that has noticed the loss takes nothing.
Written(messages) == IF link = "down" THEN buffer ELSE buffer \o messages

\* A wait lets the socket write up to n messages, which go nowhere on a lost connection.
Flushes(n) ==
    /\ buffer' = SubSeq(buffer, n + 1, Len(buffer))
    /\ wire' = IF link = "up" THEN wire \o SubSeq(buffer, 1, n) ELSE wire

\* In a wait the socket may notice the loss, and then drops what it holds.
Notices ==
    /\ link = "lost"
    /\ link' = "down"
    /\ buffer' = <<>>
    /\ UNCHANGED wire

Waits ==
    \/ Notices
    \/ \E n \in 0 .. Len(buffer) : Flushes(n) /\ UNCHANGED link

TimePasses == clock' \in clock .. MinConnection

Exits(status) == turn' = "ended" /\ exit' = status

LinkLost ==
    /\ link = "up" /\ exit = -1
    /\ link' = "lost" /\ broken' = TRUE
    /\ UNCHANGED <<input, line, turn, buffer, wire, snr, clock, exit>>

-----------------------------------------------------------------------------
(* main()                                                                    *)

\* connectToServer() and waitForConnected(); the client registers its name on the way.
ConnectFirst ==
    /\ turn = "connect"
    /\ \/ /\ link' = "up" /\ wire' = <<Registration>> /\ turn' = "read"
          /\ UNCHANGED exit
       \/ /\ Exits(1)
          /\ UNCHANGED <<link, wire>>
    /\ UNCHANGED <<input, line, buffer, snr, clock, broken>>

\* Faulty variant: the messages of a line have one number.
CopiesAlike(text, number) ==
    [i \in DOMAIN Destinations |-> [snr |-> number + 1, line |-> text, to |-> Destinations[i]]]

\* The messages of a line, numbered from the one before.
Copies(text, number) ==
    [i \in DOMAIN Destinations |-> [snr |-> number + i, line |-> text, to |-> Destinations[i]]]

ReadLine ==
    /\ turn = "read" /\ line < Len(input)
    /\ line' = line + 1
    /\ IF input[line'] THEN /\ turn' = "write"
                            /\ buffer' = Written(Copies(line', snr))
                            /\ snr' = snr + Len(Destinations)
                       ELSE turn' = "drain" /\ UNCHANGED <<buffer, snr>>
    /\ UNCHANGED <<input, link, wire, clock, exit, broken>>

EndOfInput ==
    /\ turn = "read" /\ line = Len(input)
    /\ turn' = "linger"
    /\ UNCHANGED <<input, line, link, buffer, wire, snr, clock, exit, broken>>

\* waitForMessagesWritten(), which ends when nothing is left to write, or fails for the time
\* or because the connection is lost; then the delay.
WriteAll ==
    /\ turn = "write"
    /\ \/ /\ buffer = <<>>
          /\ turn' = "drain"
          /\ TimePasses
          /\ UNCHANGED <<link, buffer, wire, exit>>
       \/ /\ buffer # <<>>
          /\ \E n \in 1 .. Len(buffer) : Flushes(n)
          /\ TimePasses
          /\ UNCHANGED <<turn, link, exit>>
       \/ /\ buffer # <<>>
          /\ Exits(1)
          /\ UNCHANGED <<link, buffer, wire, clock>>
    /\ UNCHANGED <<input, line, snr, broken>>

\* waitForReadyRead(1), whose result is not looked at.
Drain ==
    /\ turn = "drain"
    /\ Waits
    /\ turn' = "read"
    /\ TimePasses
    /\ UNCHANGED <<input, line, snr, exit, broken>>

\* The loop that waits for the time to pass.
Linger ==
    /\ turn = "linger"
    /\ Waits
    /\ TimePasses
    /\ turn' = IF clock' >= MinConnection THEN "leave" ELSE "linger"
    /\ UNCHANGED <<input, line, snr, exit, broken>>

\* disconnectFromServer() and waitForDisconnected(), which write what is left.
Leave ==
    /\ turn = "leave"
    /\ \/ /\ Flushes(Len(buffer))
          /\ Exits(0)
       \/ /\ link # "down"
          /\ Exits(1)
          /\ UNCHANGED <<buffer, wire>>
    /\ link' = "down"
    /\ UNCHANGED <<input, line, snr, clock, broken>>

SendNext ==
    \/ LinkLost
    \/ ConnectFirst \/ ReadLine \/ EndOfInput \/ WriteAll \/ Drain \/ Linger \/ Leave

SendSpec == SendInit /\ [][SendNext]_sendVars

-----------------------------------------------------------------------------
\* The lines with text, and the n-th of them.
Texts == {i \in DOMAIN input : input[i]}
TextLine(n) == CHOOSE i \in Texts : Cardinality({j \in Texts : j <= i}) = n

\* Every line with text to every destination, numbered from 1.
Wanted ==
    LET fan == Len(Destinations)
    IN  [k \in 1 .. Cardinality(Texts) * fan |->
            [snr |-> k, line |-> TextLine(((k - 1) \div fan) + 1),
             to |-> Destinations[((k - 1) % fan) + 1]]]

(* The hub is sent the registration and then what was wanted, in order, each message under a    *)
(* number of its own, at no time anything else; and a run that succeeds without a lost          *)
(* connection has sent all of it and stayed for the minimum time (dcpsend main()).              *)
SendsAll ==
    /\ IsPrefix(wire, <<Registration>> \o Wanted)
    /\ (exit = 0 /\ ~broken) =>
           /\ wire = <<Registration>> \o Wanted
           /\ clock >= MinConnection
=============================================================================
