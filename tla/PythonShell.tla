----------------------------- MODULE PythonShell -----------------------------
(***************************************************************************)
(* python/dcp: DcpShell, a blocking interface for interactive use.  A      *)
(* program sends messages and later waits for the answers to some of them, *)
(* or for whatever comes next.  What arrives is collected by the slot of   *)
(* the client whenever a call blocks, and paired with its message by       *)
(* number and name in _inQueue.                                            *)
(*                                                                         *)
(* A device answers a message with an ACK of zero and later a reply, with  *)
(* an ACK that reports an error, or with a reply only; the reply may be    *)
(* one the parser cannot read.  Messages are numbered by the client and    *)
(* the number stands for the message.                                      *)
(***************************************************************************)
EXTENDS Integers, SequencesExt

CONSTANTS
    Peers,          \* devices that are asked, and that send commands
    MaxSends,       \* bound: messages the program sends
    MaxCommands,    \* bound: messages other devices send on their own
    MaxLosses       \* bound: connections that end

VARIABLES
    online,     \* the client is connected
    dest,       \* the destinations of the messages sent so far, by number
    stage,      \* what each of them has been answered with: "none", "ack" or "all"
    socket,     \* messages on their way to the client or in its socket
    clientQueue,\* inQueue of the client
    inQueue,    \* _inQueue of the shell, in the order of its keys
    control,    \* "prompt"; in wait(): "listen" (waitForReadyRead()) or "parse" (and look)
    asked,      \* the messages it was called for, {} for wait() without any
    outcome,    \* how the last wait() ended
    given,      \* history: the messages wait() has returned
    made,       \* history: the answers of the devices
    gone,       \* history: those that were lost with a connection
    commands, losses    \* how many of each there have been

shellVars ==
    <<online, dest, stage, socket, clientQueue, inQueue, control, asked, outcome, given, made,
      gone, commands, losses>>
peerVars == <<dest, stage, made, gone, commands, losses>>
waitVars == <<inQueue, control, asked, outcome, given>>

ShellInit ==
    /\ online = FALSE
    /\ dest = <<>> /\ stage = <<>>
    /\ socket = <<>> /\ clientQueue = <<>> /\ inQueue = <<>>
    /\ control = "prompt" /\ asked = {} /\ outcome = "none"
    /\ given = {} /\ made = {} /\ gone = {}
    /\ commands = 0 /\ losses = 0

-----------------------------------------------------------------------------
(* Messages, as Parser.__call__ sees them: a form of "ack0", "ack1" (an ACK  *)
(* that reports an error), "reply" or "unread" for a reply, and of "command" *)
(* or "unread" for a message that is none.                                   *)

Message(isReply, snr, source, form) ==
    [isReply |-> isReply, snr |-> snr, source |-> source, form |-> form]
Nothing == [form |-> "none"]

IsAck(m) == m.isReply /\ m.form \in {"ack0", "ack1"}
Key(m) == <<m.isReply, m.snr, m.source>>

\* An entry of _inQueue; a command is kept where a reply is.
NewEntry(m) == [key |-> Key(m), ack |-> Nothing, reply |-> Nothing]
With(entry, m) ==
    IF IsAck(m) THEN [entry EXCEPT !.ack = m] ELSE [entry EXCEPT !.reply = m]

\* The place of an entry in _inQueue, 0 without one.
Place(queue, key) == SelectInSeq(queue, LAMBDA e : e.key = key)

\* Faulty variant: a new entry takes the place of the one there is.
PutAnew(queue, m) ==
    LET n == Place(queue, Key(m))
    IN  IF n = 0 THEN Append(queue, With(NewEntry(m), m))
                 ELSE [queue EXCEPT ![n] = With(NewEntry(m), m)]

Put(queue, m) ==
    LET n == Place(queue, Key(m))
    IN  IF n = 0 THEN Append(queue, With(NewEntry(m), m))
                 ELSE [queue EXCEPT ![n] = With(@, m)]

Complete(entry) == entry.reply # Nothing \/ entry.ack.form = "ack1"
Answer(entry) == IF entry.reply # Nothing THEN entry.reply ELSE entry.ack

\* A command the parser can read makes it raise an exception: it names a variable that only
\* a reply sets.
Raises(m) == ~m.isReply /\ m.form = "command"

-----------------------------------------------------------------------------
(* The hub and the devices.                                                  *)

\* A device answers a message; without a connection the hub drops what it says.
PeerAnswers(snr, form) ==
    /\ stage[snr] # "all"
    /\ stage[snr] = "ack" => form \in {"reply", "unread"}
    /\ stage' = [stage EXCEPT ![snr] = IF form = "ack0" THEN "ack" ELSE "all"]
    /\ LET m == Message(TRUE, snr, dest[snr], form)
       IN  /\ made' = made \cup {m}
           /\ IF online THEN socket' = Append(socket, m) /\ UNCHANGED gone
                        ELSE gone' = gone \cup {m} /\ UNCHANGED socket
    /\ UNCHANGED <<online, dest, clientQueue, waitVars, commands, losses>>

\* A device sends a message of its own, with a number of its own.
PeerSends(source, form) ==
    /\ online /\ commands < MaxCommands
    /\ commands' = commands + 1
    /\ socket' = Append(socket, Message(FALSE, 1, source, form))
    /\ UNCHANGED <<online, dest, stage, clientQueue, waitVars, made, gone, losses>>

\* A call that blocks lets the slot of the client read what has arrived.
Arrives(n) ==
    /\ clientQueue' = clientQueue \o SubSeq(socket, 1, n)
    /\ socket' = SubSeq(socket, n + 1, Len(socket))

\* The connection ends, after n more messages were read from it.
Ends(n) ==
    /\ clientQueue' = clientQueue \o SubSeq(socket, 1, n)
    /\ gone' = gone \cup {m \in ToSet(SubSeq(socket, n + 1, Len(socket))) : m.isReply}
    /\ socket' = <<>>

\* The client notices it where it blocks, so never while messages are parsed.
ConnectionLost ==
    /\ online /\ losses < MaxLosses /\ control # "parse"
    /\ losses' = losses + 1
    /\ online' = FALSE
    /\ \E n \in 0 .. Len(socket) : Ends(n)
    /\ UNCHANGED <<dest, stage, waitVars, made, commands>>

-----------------------------------------------------------------------------
(* The program, at its prompt.                                               *)

\* connect(): a connection there is already is closed first.
Connect ==
    /\ control = "prompt"
    /\ online => losses < MaxLosses
    /\ losses' = IF online THEN losses + 1 ELSE losses
    /\ online' \in BOOLEAN
    /\ \E n \in 0 .. Len(socket) : Ends(n)
    /\ UNCHANGED <<dest, stage, waitVars, made, commands>>

Disconnect ==
    /\ control = "prompt" /\ online /\ losses < MaxLosses
    /\ losses' = losses + 1
    /\ online' = FALSE
    /\ \E n \in 0 .. Len(socket) : Ends(n)
    /\ UNCHANGED <<dest, stage, waitVars, made, commands>>

\* isConnected() lets the slots of the client run.
IsConnected ==
    /\ control = "prompt"
    /\ \E n \in 1 .. Len(socket) : Arrives(n)
    /\ UNCHANGED <<online, waitVars, peerVars>>

\* send(): the message is numbered also when it goes nowhere.
Send(device) ==
    /\ control = "prompt" /\ Len(dest) < MaxSends
    /\ dest' = Append(dest, device)
    /\ stage' = Append(stage, IF online THEN "none" ELSE "all")
    /\ \E n \in 0 .. Len(socket) : Arrives(n)
    /\ UNCHANGED <<online, waitVars, made, gone, commands, losses>>

\* ack() and reply(): an answer to a message that wait() has returned, which goes out and
\* leaves the numbers of the client alone.
AckOrReply ==
    /\ control = "prompt"
    /\ \E m \in given : ~m.isReply
    /\ \E n \in 1 .. Len(socket) : Arrives(n)
    /\ UNCHANGED <<online, waitVars, peerVars>>

\* wait() and wait(msgs) up to their loop.
WaitStarts(msgs) ==
    /\ control = "prompt"
    /\ control' = "listen"
    /\ asked' = msgs
    /\ outcome' = "none"
    /\ UNCHANGED <<online, socket, clientQueue, inQueue, given, peerVars>>

\* The key of the answer to a message.
KeyFor(snr) == <<TRUE, snr, dest[snr]>>

\* Faulty variant: what is complete is taken out although other answers are missing.
FoundSome(queue, msgs) ==
    IF msgs = {}
    THEN LET n == SelectInSeq(queue, Complete) IN IF n = 0 THEN {} ELSE {n}
    ELSE {n \in DOMAIN queue : \E snr \in msgs : queue[n].key = KeyFor(snr) /\ Complete(queue[n])}

\* The places of the entries that end the wait: none while one of them is missing.
Found(queue, msgs) ==
    IF msgs = {}
    THEN LET n == SelectInSeq(queue, Complete) IN IF n = 0 THEN {} ELSE {n}
    ELSE LET All == {Place(queue, KeyFor(snr)) : snr \in msgs}
         IN  IF \A n \in All : n # 0 /\ Complete(queue[n]) THEN All ELSE {}

\* The other entries, in their order.
Without(queue, places) ==
    LET rest == DOMAIN queue \ places
        Nth(n) == CHOOSE i \in rest : Cardinality({j \in rest : j <= i}) = n
    IN  [n \in 1 .. Cardinality(rest) |-> queue[Nth(n)]]

\* One turn of the loop of wait() calls waitForReadyRead(), which returns at once when the
\* client has messages;
WaitHasMessages ==
    /\ control = "listen" /\ clientQueue # <<>>
    /\ control' = "parse"
    /\ UNCHANGED <<online, socket, clientQueue, inQueue, asked, outcome, given, peerVars>>

\* without any it reads what the socket has, which may be less than a message, and does so
\* again until its time is up or the socket reports an end; it may have read then or not;
WaitListens ==
    /\ control = "listen" /\ clientQueue = <<>>
    /\ \E n \in 0 .. Len(socket) : Arrives(n)
    /\ control' \in {"listen", "parse"}
    /\ UNCHANGED <<online, inQueue, asked, outcome, given, peerVars>>

\* _parseAvailableMessages() takes one message after the other from the client, and one that
\* raises is gone and leaves those behind it where they are;
ParseMessage ==
    /\ control = "parse" /\ clientQueue # <<>>
    /\ clientQueue' = Tail(clientQueue)
    /\ IF Raises(Head(clientQueue))
       THEN control' = "prompt" /\ outcome' = "raised" /\ UNCHANGED inQueue
       ELSE inQueue' = Put(inQueue, Head(clientQueue)) /\ UNCHANGED <<control, outcome>>
    /\ UNCHANGED <<online, socket, asked, given, peerVars>>

\* then entries are taken out and their answers returned,
WaitReturns ==
    /\ control = "parse" /\ clientQueue = <<>>
    /\ LET places == Found(inQueue, asked)
       IN  /\ places # {}
           /\ given' = given \cup {Answer(inQueue[n]) : n \in places}
           /\ inQueue' = Without(inQueue, places)
    /\ control' = "prompt" /\ outcome' = "answers"
    /\ UNCHANGED <<online, socket, clientQueue, asked, peerVars>>

\* or the turn is the last when the time is up, or another one follows.
WaitFindsNothing ==
    /\ control = "parse" /\ clientQueue = <<>>
    /\ Found(inQueue, asked) = {}
    /\ \/ control' = "prompt" /\ outcome' = "timeout"
       \/ control' = "listen" /\ UNCHANGED outcome
    /\ UNCHANGED <<online, socket, clientQueue, inQueue, asked, given, peerVars>>

ShellNext ==
    \/ \E snr \in DOMAIN dest, form \in {"ack0", "ack1", "reply", "unread"} : PeerAnswers(snr, form)
    \/ \E source \in Peers, form \in {"command", "unread"} : PeerSends(source, form)
    \/ ConnectionLost
    \/ Connect \/ Disconnect \/ IsConnected \/ AckOrReply
    \/ \E device \in Peers : Send(device)
    \/ \E msgs \in SUBSET (DOMAIN dest) : WaitStarts(msgs)
    \/ WaitHasMessages \/ WaitListens \/ ParseMessage \/ WaitReturns \/ WaitFindsNothing

ShellSpec == ShellInit /\ [][ShellNext]_shellVars

-----------------------------------------------------------------------------
\* What _inQueue holds, and what of it ends the wait for an answer.
Held == (UNION {{e.ack, e.reply} : e \in ToSet(inQueue)}) \ {Nothing}
Final(m) == m.form # "ack0"
AnswersTo(m, snr) == m.isReply /\ m.snr = snr /\ m.source = dest[snr]

(* Every answer that reaches the client is kept until wait() returns it, once: across a wait    *)
(* for other messages, a wait that times out or raises, a later connection and however late     *)
(* it comes.  The ACK of a message that has its reply goes with it (DcpShell._inQueue,          *)
(* _parseAvailableMessages(), wait()).                                                          *)
NothingLost ==
    \A m \in made \ gone :
        LET places ==
                Cardinality({n \in DOMAIN socket : socket[n] = m})
                + Cardinality({n \in DOMAIN clientQueue : clientQueue[n] = m})
                + Cardinality({m} \cap Held) + Cardinality({m} \cap given)
        IN  \/ places = 1
            \/ /\ places = 0 /\ ~Final(m)
               /\ \E r \in given : AnswersTo(r, m.snr)

\* What the end of a wait means.
EndsWell ==
    LET new == given' \ given
        here == {m \in Held \cup ToSet(clientQueue) : m \notin given /\ Final(m)}
    IN  /\ (outcome' = "answers" /\ asked # {}) =>
               /\ \A snr \in asked : \E m \in new : AnswersTo(m, snr) /\ Final(m)
               /\ Cardinality(new) = Cardinality(asked)
        /\ outcome' = "timeout" =>
               IF asked = {} THEN here = {}
               ELSE \E snr \in asked : ~ \E m \in here : AnswersTo(m, snr)

(* A wait for messages returns one new and final answer to each of them and nothing else, and   *)
(* a wait ends for the time only when something it was called for was not there before the      *)
(* last look, be it in the shell or in the client (DcpShell.wait(), Client::waitForReadyRead()).*)
WaitKeepsItsWord ==
    [][(control # "prompt" /\ control' = "prompt") => EndsWell]_shellVars
=============================================================================
