# Verification of dcpclient

This directory holds TLA+ specifications of the DCP (Device Communication
Protocol) programs of this repository: the hub that connects devices, the client
library devices are written with, and the tools around them. The modules are
checked with TLC on small instances; theorems about them are proved with TLAPS
for every value of their constants. `PROJECT.json` maps every definition to the
source lines it translates and lists the runs, the hazards and the theorems.

Paths in the tables are relative to the repository root; `PROJECT.json` writes
them with one more `src/` in front, the place of the repository beside this
directory.

## The system

Devices connect to a hub (`dcphub`) over TCP. A device sends *packets*: an
8-byte packet header (message size, offset) around a message (42-byte header
with flags, serial number `snr`, source and destination names of 16 bytes, data
length; then the data). The hub registers a connection under the source name of
its first packet, forwards each packet to the connection registered under its
destination and answers the commands addressed to its own name. A *command* is
answered by an *ACK* reply and then a *reply*, both with the number of the
command.

| Component | Source | State | Operations | Talks to |
|---|---|---|---|---|
| Hub | `src/tools/dcphub/dcphub.*`, `dcppacket.*`, `dcphub_main.cpp` | `m_socketMap`, `m_deviceMap`, `m_serverDeviceName`, `m_debugFlags`, the socket buffers | slots `newConnection`, `socketReadyRead`, `socketDisconnected`; `close`, `listen`, `setDeviceName` | devices by TCP; the event loop by slots |
| Client | `src/dcpclient/client.*` | socket state, `deviceName`, `snr`, `inQueue`, `connectionRequested`, `autoReconnect`, the reconnect timer | `connectToServer`, `disconnectFromServer`, `sendMessage`, `readMessage`, `setAutoReconnect`, the blocking waits, the socket and timer slots | the hub by TCP; the application by signals |
| Message | `src/dcpclient/message.*`, `dcpclient_p.*` | one message | setters, `toByteArray`, `fromByteArray`, `ackMessage`, `replyMessage` | used by client and hub |
| Parsers | `src/dcpclient/messageparser.*` | the last message parsed | `MessageParser`, `ReplyParser`, `CommandParser` | used by hub and tools |
| Python shell | `src/python/dcp/dcpshell.py`, `parser.py` | `_inQueue`: answers and messages by number and name | `connect`, `send`, `wait`, `ack`, `reply` | the client through the bindings, blocking |
| Time server and client | `src/examples/dcptime/` | the mode of the server; numbers of four open requests, a stopwatch, the combo box | request and answer loop | the client, by signals |
| dcpterm | `src/tools/dcpterm/` | connection settings (kept in a file), check marks, lists of devices and messages | connect, send, settings dialog | the client, by signals and a blocking wait |
| dcpsend | `src/tools/dcpsend/` | the write buffer of its socket | connect, send each line, wait, leave | the client, blocking |
| dcpdump | `src/examples/dcpdump/` | the device map | forward and print what arrives | the client |
| dcplisten | `src/examples/dcplisten/` | none | print what arrives | the client |
| HexFormatter | `src/tools/dcphub/hexformatter.*` | one output buffer | `toHex` | the hub's debug output |
| Options, version, bindings, build | `cmdlineoptions.*`, `src/dcpclient/version.cpp`, `src/python/sip` | none | parsing of options, generated code | - |

What is hard here: the hub is single-threaded, but one slot handles many
packets, a socket closes either inside a call or much later depending on its
write buffer, and names are handed from connection to connection while packets
for them are queued. The client is an asynchronous state machine driven by the
application, the socket and a timer in any order. Both ends reassemble packets
from a byte stream, by different length fields. The users of the client wait
for answers that may be late, lost or given up, with timeouts and event loops
inside waits. Apart from the settings of dcpterm nothing is persisted.
`PROJECT.json` lists each hazard at its line with the properties that cover it,
or the reason why none does.

What makes each component correct:

- Hub: the two maps are inverse and name open sockets; a name is held by one
  connection until that connection ends; nothing reaches a device it was not
  addressed to; per connection packets are forwarded once and in order; each
  command is answered by an ACK and its reply, to the device it names as its
  source; connections and the shutdown come to an end.
- Client: the reconnect timer runs exactly when a requested connection is down;
  a connection closed on request is not reopened; the client registers under its
  device name first; received messages are delivered once and in order.
- Framing: packets are cut at the same boundaries they were written with, however
  the bytes arrive, and one that is too large ends the connection.
- Message and parsers: what is written is what is read back; an answer carries
  the number and the swapped names of its command; nothing of one message is left
  in the parse of the next.
- Tools: each request is matched with its own answer; what a window shows is what
  is the case; what a program was told to send is sent.

## Modules

| Module | What it is |
|---|---|
| `HubCommands` | the answers of `DcpHub::handleCommand()` as operators on a command, the registered names and the debug flags |
| `DcpHub` | the hub on whole packets: set-up, connections, registration, routing, answers, shutdown |
| `NameSwitch` | abstract specification of the hub: names with at most one owner, and a mailbox each |
| `DcpFraming` | device, hub and client on bytes: how each end cuts packets and messages |
| `PacketPipe` | abstract specification of a connection: what is written is read, in order, once and whole |
| `DcpClient` | the client: connection, reconnection timer, numbering, write buffer, input queue |
| `DcpTerm` | dcpterm, composed with `DcpClient`: its slots are part of the client's steps |
| `DcpTime` | time server, time client and the channels between them |
| `PythonShell` | the blocking shell: a program at its prompt, devices that answer, `_inQueue` |
| `DcpSend` | `main()` of dcpsend on its socket |
| `MessageFormat` | messages, percent encoding, splitting and the parsers, as operators |
| `MessageApi` | a message object under every sequence of calls |
| `ParserApi` | a reply parser and a command parser used for one message after the other |
| `DcpDump` | the command line and the forwarding of dcpdump |
| `HexFormatter` | `toHex()`: sizes and positions, one line a step |
| `MCDcpHub`, `MCDcpClient`, `MCDcpFraming`, `MCDcpTime`, `MCDcpTerm` | instances for TLC |
| `MCAlgorithms`, `MCBlocking` | several independent parts in one instance: a behaviour runs one of them |
| `DcpHubProofs`, `DcpHubForwardingProofs`, `DcpFramingProofs`, `DcpClientProofs`, `DcpTermProofs`, `DcpTimeProofs` | theorems about the module of that name |
| `BlockingProofs` | theorems about `PythonShell` and `DcpSend` |
| `AlgorithmProofs` | theorems about `MessageApi`, `ParserApi`, `DcpDump` and `HexFormatter` |

`DcpHub` extends `HubCommands` and instantiates `NameSwitch` as `Switch`;
`DcpFraming` instantiates `PacketPipe` as `HubPipe`; `DcpTerm` extends
`DcpClient`; `MessageApi`, `ParserApi` and `DcpDump` extend `MessageFormat`.

### The hub

`DcpHub` is one thread around an event loop, as the program is. Its variables are
the members of the class (`m_socketMap`, `m_deviceMap`, `m_serverDeviceName`,
`m_debugFlags`), what Qt keeps for each socket (`sockState`, `rx`, `tx`), and
where control is (`active`, `toRead`, `toWait`, `phase`).

- A packet is a record of its origin, an identity, the two names and a body. The
  body is free text, a command, a reply or "oversize", which stands for every
  packet `readNextPacket()` refuses by its length.
- `socketReadyRead()` loops over the packets of one socket. The slot starts
  (`socketReadyRead`) with some number of packets complete (`toRead`); each round
  of the loop is one step (`HandlePacket`, `RejectOversize`, `RejectDevice`), and
  no other slot starts until `EndOfInput`. Peers send at any time; write buffers
  drain, and connections break, only in the event loop (`Served`).
- `disconnectFromHost()` is what `QAbstractSocket` does: with nothing to write the
  socket is disconnected on the spot and the slot `socketDisconnected()` runs
  inside the call; otherwise the socket is closing, reads no more, keeps its
  registration and can still be written to, until its buffer is empty.
- `deleteLater()` makes a socket "dead" until the event loop frees it
  (`DeferredDelete`); the object can then be used again.
- `~DcpHub()` calls `close()`: every socket is disconnected, and those that still
  have to write are waited for one at a time, three seconds each (`WaitTimeout`).
- Peers are free: they connect, send any packet of `Traffic`, close their side
  (`PeerClosed`), break (`PeerGone`) or do not read (`WriteOut` need not happen).

An answer carries the identity of its command, so properties can pair them.

### Bytes

In `DcpFraming` a stream is a sequence of cells: one for each header field that
counts (message size and offset in the packet header, data length in the message
header) and one for each byte of data. A device writes to the hub, the bytes
arrive in any chunks, `readNextPacket()` peeks at the length in the message
header, refuses a packet above `MaxPacketSize` before its data is there, cuts the
others out and forwards them as they are. The client cuts by the size in the
packet header and ignores a message with an offset. Other devices also write
parts of larger messages, whose two lengths differ, and lengths of any size.

A cell holds a `quint32` of a small width (`MaxInt` is the largest `int`), and sums of
sizes wrap where the code adds in 32 bits: in `PacketSize` (`dcphub.cpp` line 201), in
`MessageEnd` and `MessageSize` (`client.cpp` lines 148 and 155), and in
`Message::fromByteArray()`. A packet whose size wraps passes the test of the hub. What
is then read is shorter than the headers, so `setData()` clears it
(`ReadClearedPacket`): it is refused when it would have registered the connection and
dropped otherwise, and the hub reads on in its data.

### The client

`DcpClient` has the members of `ClientPrivate` (`deviceName`,
`connectionRequested`, `autoReconnect`, `snr`, `inQueue`), the state of the socket
(`sockState`, `pendingClose`, the buffers `wbuf` and `rx`), the timer, and what the
hub was sent on the present connection (`wire`). The application calls any
operation at any time, also inside the handlers of `messageReceived()`: while `rx`
holds a packet the read loop is running, and neither the socket nor the timer has
a step. Slots are connected directly, so `_k_socketStateChanged()` is part of the
step that changes the state, and the HELO is written in the step that connects.

- `disconnectFromHost()` before the connection is up is remembered by the socket
  (`pendingClose`) and made up for when it is; `connectToHost()` on a socket that is
  not unconnected is ignored.
- Flushing after the HELO sends any prefix of the buffer.
- The read buffer is a sequence of *cuts* (`InCut`): what `readNextMessageFromSocket()`
  cuts off the stream in one call. A cut with offset 0 (`first`) is queued, the first
  part of a larger message as a null message; one with another offset is ignored. Which
  bytes a cut takes is the subject of `DcpFraming`.
- `waitForConnected()` that gives up aborts the attempt: it is one of the ways of
  `AttemptFails`.

### The users of the client

- `DcpTerm` wraps each step of `DcpClient` in the slot it runs
  (`dcp_stateChanged()`). The user acts only when no dialog is open and no slot
  waits; while the settings dialog is open the event loop, the socket and the timer
  go on, and after it was accepted the slot waits in `waitForDisconnected()`, which
  may return true, false or time out.
- `DcpTime` has both programs. Commands and answers are in channels that keep their
  order; a lost connection of the client drops any answers and the commands that had
  not left, one of the server the commands the hub could not deliver and the answers
  that had not left; a restart also resets the mode. A choice made without a connection
  is either kept in the write buffer, and leaves ahead of the requests, or lost. Other
  devices send the window commands, replies that cannot be parsed and valid replies,
  under any number in use and under 0. A message that belongs to a round of requests
  that was given up is marked `late`: only the properties look at the mark.
- `PythonShell` numbers messages as the client does; each answer is where it is:
  with the device, in the socket, in the client's queue, in `_inQueue`, or returned.
  `control` is the place in the program: at its prompt, or in a wait that listens or
  parses. `waitForReadyRead()` returns at once when the client has messages
  (`WaitHasMessages`); otherwise it reads what the socket has, which may be less than a
  message, again and again until its time is up (`WaitListens`, with time as a choice).
  Then the shell parses what the client has, one message a step, and only then looks
  whether it is done. Devices go on answering meanwhile, but the client
  notices nothing while messages are parsed, as no call that blocks is made. Parsing a
  valid command raises an exception (`parser.py` line 102), which ends the wait and
  leaves the messages behind the command where they are.
- `DcpSend` has no event loop: its socket writes, reads and notices that the
  connection is lost only inside the waits.

### The sequential parts

A text is a sequence of words and signs, where only what the code looks at is
told apart: blanks, percent signs, digits, the word ACK and the command words.
A name is a sequence of bytes with nulls, cut at `NameSize`. `MessageApi`,
`ParserApi`, `DcpDump` and `HexFormatter` are state machines, as their objects are
used for many calls.

### Faulty variants

Definitions introduced by "Faulty variant" are never used by a specification.
Each is a plausible mistake in the definition it stands before, and `PROJECT.json`
("mutants") names the run and the property that finds it: every property of a
passing run is violated by at least one of them.

## Runs

| Run | Question | States |
|---|---|---|
| `hub_registry` | three connections compete for two names (and try the null name and the hub's name), exchange packets and come and go | 3.1 million |
| `hub_commands` | two devices send commands, also under each other's name, between texts | 1.5 million |
| `hub_liveness` | nobody is starved, the shutdown ends even if peers never read, a refused connection ends if they do | 78 thousand |
| `hub_devinfo_encoded` | commands with a name that needs percent encoding | violation |
| `framing` | packets below, at and above the limit, with sizes that wrap, parts of larger messages and answers, in every chunking | 256 thousand |
| `framing_answers` | the statement that large answers are skipped | violation |
| `client` | connecting, sending, reading, failing and breaking in any order, auto-reconnect switched, handlers that reconnect | 368 thousand |
| `client_disconnect` | the statement that a connection closed by hand is not made again | violation |
| `dcpterm` | the terminal with two settings and two starts | 3.7 million |
| `dcptime` | time client and server with late answers, lost connections, restarts, choices of the user and messages of other devices | 616 thousand |
| `blocking` | the Python shell and dcpsend, with lost connections | 5.5 million |
| `algorithms` | hex dump, messages, parsers, device map | 26 thousand |

What the properties say:

- `RegistryConsistent`: the maps are inverse to each other and name exactly the
  sockets that are connected or closing. The assertions in the code rest on it, and
  so does the safety of every pointer taken from `m_deviceMap`.
- `ServerNameReserved`, `NameKept`: no device is the hub; a name leaves a connection
  only when that connection ends.
- `NoMisdelivery`: everything queued for a connection is addressed to the name it
  holds now, over any number of hand-overs of the name.
- `ForwardedInOrder`: per origin, packets are forwarded in order and once, whatever
  slots run between.
- `ImplementsSwitch`: the hub is a `NameSwitch`. The mailbox of a name is the write
  buffer of the connection that holds it.
- `AnswersPaired`, `CommandAnswered`, `DevInfoFindsDevices`: an ACK without error is
  followed at once by its reply; a command sent under the sender's own name is
  answered on its own connection, even by the packet that registers it; "get
  devinfo" reports an error exactly when a device is unknown.
- `InputServed`, `ShutdownTerminates`, `RefusedConnectionEnds`: progress.
- `HubReadsPackets`: between device and hub the stream is a `PacketPipe`, parts of
  larger messages included, up to the first packet whose size wraps in 32 bits.
  `RefusedForSize`: nothing above the limit is ever taken, and until a size wraps the
  hub ends a connection for the first packet that is too large, and for no other. A
  packet whose size wraps is *not* refused. `ClientReadsWhole`: the client reads
  every message as it was written until a part of a larger one comes; behind that
  it misreads the stream for good, which the code notes as a todo (`client.cpp` line
  128). `NothingHeldBack`: what is complete is read, with the same two exceptions;
  that parts hold up what is behind them is a fact of the model, not a property.
- `TimerRunsWhenNeeded`, `TimerStartsOnRequest`: the reconnect timer and the
  request, in whatever order the flags are set.
- `RegistersFirst`: every connection is registered exactly once, before any message
  written after it was up. A message written *earlier* does go first: the code
  buffers it before the HELO, and then the hub takes its source for the name.
- `SnrUnique`: numbers the client chooses tell the messages of one connection apart,
  across the wrap from the largest number to 1.
- `ReceivedInOrder`, `AutoReconnects`, `DisconnectHonoured`: messages are read in
  order and once; a connection that stays asked for is tried again and again; one
  that is not is given up.
- `WindowAgrees`, `SettingsInUse`: dcpterm shows the connection as it is, and every
  connection made after the settings were changed has the new ones.
- `FieldsShowTheirAnswers`, `ComboFollowsServer`: no field of the time window shows
  an answer of the server to another question or to one that was given up; the combo
  box and the server come to agree. A valid reply of another device with the right
  number, or with 0, is shown, as the code does not look at the source.
- `NothingLost`, `WaitKeepsItsWord`: every answer that reached the client is kept
  until `wait()` returns it, once; a wait returns one final answer to each message it
  was called for, and times out only if something was missing.
- `SendsAll`: dcpsend sends the registration and then the lines, in order, under
  numbers of their own, and all of them if it succeeds on a connection that held.
- `RoundTrips`, `AnswersReadBack`, `NoLeftovers`: what is written is what is read,
  answers come back to the sender for what they are, parsers forget.
- `MapSymmetric`, `AnswersComeBack`: dcpdump can stand between two devices unseen.
- `WithinBuffers`, `EndsExactly`, `TextAligned`: the size `toHex()` computes is the
  number of characters it writes, and the text column stays straight.

### Bounds

- Hub: `Sockets` bounds the connections at a time, not over time, as freed ones are
  used again. Three are needed for two rivals and an observer; commands and liveness
  involve at most two. `MaxSent` packets (3 or 4) are enough for: register, register
  the rival, forward, and one more that must not overtake. Names: two devices and the
  hub. Sockets are symmetric, except where a liveness property is checked.
- `framing`: three packets and one answer. Data has at most two cells and looks like
  lengths; with `MaxPacketSize = 4` packets are below, at and one above the limit.
  Three packets are a part of a message, its rest, and one behind both. With
  `MaxInt = 3` sizes wrap at 8: one packet has a size that wraps to 1, so that what the
  hub reads behind it has a size that wraps to 0 and one that wraps at the client.
- `client`: `MaxSnr = 3`, and two calls per connection with the HELO make three
  numbers, a full turn through the wrap; more messages than numbers would repeat by
  design. `MaxCalls` bounds messages per connection, not in a behaviour: connections
  come and go for ever. Two packets arrive, in one batch or two.
- `dcpterm`: two settings, so that a new one differs from the old; two starts, so
  that what was saved is loaded; the bounds of the client as above.
- `dcptime`: `MaxFaults = 2`: an answer can be late and a connection lost after it.
  `MaxEvents = 1`: one choice of the user, or one message of another device, under
  every number in use and under 0.
- `blocking`: two messages (a wait for both, for one, for none), one message of
  another device with the same number and name as an answer, one lost connection; up
  to four lines to three destinations, one of them twice.
- `algorithms`: inputs of up to 20 bytes with widths from -1 to 21 cover a short last
  line, a full one and a single one, and offsets of two digits; names that are cut,
  padded, and have nulls inside; texts with the word ACK, blanks and percent signs in
  each place.

### Fairness

- Hub: a slot that runs goes on to its end, and a wait of `close()` is over after
  its three seconds (weak fairness). `socketReadyRead(s)` and `DeferredDelete(s)` are
  enabled only between slots of other sockets, so they have strong fairness: the
  event dispatcher looks at every ready descriptor in each turn, and at the posted
  deletions. Nothing is assumed of peers: that they read (`PeersRead`) is a
  condition of `RefusedConnectionEnds` alone.
- Framing: TCP delivers what was written, and each end runs its slot. That anything
  is written is not assumed.
- Client: the timer fires, the read loop goes on, the operating system ends every
  lookup and every attempt one way or the other, and written data is sent or the
  connection breaks. It is never assumed that an attempt succeeds, that a connection
  with nothing to send ends, or that the application does anything.
- Time client: messages are delivered, the client reconnects, its timer fires and
  time passes. Faults are bounded, so that `ComboFollowsServer` speaks of the time
  after the last.

### Findings

- `hub_devinfo_encoded` (code bug): `deviceKey(name, true)` takes the length of the
  name before it is percent-decoded, so the key ends in bytes that were never set and
  "get devinfo" can report a registered device as unknown.
- `framing_answers` (code bug): the test for a large answer negates the size first, so
  no answer is ever skipped, which the warning behind it says it is.
- `client_disconnect` (documentation): a `disconnectFromServer()` between two attempts
  does not stop the reconnect timer, and the timer does not look at the request.

Behaviour met while modelling that no text of the repository contradicts, and that
the models have:

- `connectToServer()` on a connection changes the client's name, not the one it is
  registered under.
- dcpterm: settings accepted while an attempt is being made leave it without a
  connection, as the wait returns false at once; "connect" cannot cancel an attempt.
- dcpsend exits with success when the connection was lost between two waits and
  writing failed unnoticed.
- Python: no valid command can be received (`parser.py` line 102); messages of
  devices are keyed by number and name, so one can replace another that is unread.
- The reply to "get echo ACK" cannot be told from an ACK.
- A packet whose length is near 2^32 is not refused by the hub, and the client queues
  the first part of a larger message as a null message.
- A message sent before the connection is up goes out before the HELO and registers
  the device under its own source.
- The time client takes a valid reply of any device with the right number, and one
  with the number 0 for the first field that waits for nothing.

## Proofs

The theorems hold for every value of the constants that satisfies the assumptions,
which TLC evaluates in the runs:

- `NamesAssumption` (finitely many names), `HubAssumption` and `ClientAssumption` (the
  sentinels are distinct from sockets and names, the parameters have their types);
- `FramingAssumption` (a full header fits into the largest packet, whose message has a
  size that is an `int`; sizes and data are numbers of the width), `NameSizeAssumption`, `MessageAssumption`, `HexAssumption` and
  `SendAssumption` (types);
- `DumpAssumption` (no name ends in a null: those the hub delivers are stripped, and
  the command line cannot hold one).

Three theorems need more, and say so as a hypothesis, because without it the property
is false of the code:

- `NumbersTellApart`: `MaxCalls < MaxSnr`. The client sends fewer messages on one
  connection than there are numbers; with more of them numbers repeat by design.
- `AnswersStayTogether`: `"ACK" \notin Args`. No device is called ACK and no argument is
  this word, or a reply reads as an ACK.
- `DevInfoIsRight`: `Spaced = {}`. No name holds a blank or a percent sign; with one that
  does, the first finding is met.

### The hub

`RegistryConsistent` and `NoMisdelivery` are not inductive alone, so the proof
carries

    IInv == TypeOK /\ RegistryConsistent /\ ServerNameReserved /\ NoMisdelivery
            /\ QuietChannels /\ SlotHasInput /\ SetupQuiet

`QuietChannels` (a socket that is not connected has no input, one that is gone no
output) makes a reused socket start empty; `SlotHasInput` says that the packet a slot
reads is there and its socket connected; `SetupQuiet` that nothing is connected while
`setDeviceName()` can still change the name the registry must not contain. One lemma
per conjunct shows that every step keeps it (`TypeStep`, `RegistryStep`,
`ReservedStep`, `MisdeliveryStep`, `QuietStep`, `SlotStep`, `SetupStep`); they use the
registry's effect of a disconnect (`GoneKeepsRegistry`) and the buffers' effect of a
packet (`ProcessPacketEffect`: nothing, or an append of packets addressed to the
owner of that buffer). Proved: `TypeCorrectness`, `RegistryIsConsistent`,
`ServerNameIsReserved`, `NothingIsMisdelivered`, `NamesAreKept`.

Order. `ForwardingKeepsOrder` proves `ForwardedInOrder` from

    ForwardInv == Numbered /\ ReadRises /\ ReadApart
                  /\ WrittenRises /\ WrittenFirst /\ WrittenApart

Packets are numbered as they are sent and wait where they came in (`Numbered`). The
numbers in a read buffer rise (`ReadRises`), so do those of one origin in a write
buffer (`WrittenRises`), and what was written of an origin was sent before whatever
waits to be read of it (`WrittenFirst`). No number is in two places (`ReadApart`,
`WrittenFirst`, `WrittenApart`). A step loses packets at an end of a buffer (`LossKeepsOrder`),
appends a new one to a read buffer (`ArrivalKeepsOrder`), or moves the head of a
read buffer to the end of a write buffer (`HandlingKeepsOrder`).

Refinement. `HubImplementsSwitch`: the end of connections is `Leave` (by
`RegistryConsistent` the names lost are those of the sockets gone), a write is `Take`
(by `NoMisdelivery` a socket with output owns a name), and a handled packet is
`Handle` (registration is `Join`, and by `NoMisdelivery` nothing waits for the new
name).

Answers. `AnswersStayTogether` proves `AnswersPaired` beside `IInv` and `ForwardInv`:
what `handleCommand()` writes is a `WholeAnswer` (`AnswersAreWhole`, for each command),
appending one or a forwarded packet keeps the pairs (`AppendStaysPaired`), and so does
writing the first packet of a buffer (`TailStaysPaired`). `CommandsAreAnswered` shows
that the step that handles a command writes its answer to the sender: by
`RegistryConsistent` the sender's own name, also one registered by this packet, leads
back to its socket (`OwnNameAnswered`). `DevInfoIsRight` follows the lookup of "get
devinfo" to the registry, whose names are those of live connections.

### Bytes

`HubImplementsPipe` (the refinement `HubReadsPackets`), `WholeMessagesAreRead`
(`ClientReadsWhole`) and `OnlyTooLargeIsRefused` (`RefusedForSize`) come from

    FramingInv == Types /\ HeadersRight /\ HubInOrder /\ ClientInOrder /\ RefusedForSize

`HubInOrder` speaks of what was cut out up to the first packet whose size wraps, and
`RefusedForSize` beyond it of the limit alone; nothing is assumed of the sizes that other
devices write. The heart of it is `Laid(stream, packets, from)`: the bytes that have arrived and those
on the way are, one behind the other, exactly the packets that were written and not yet
read. It is said with the position each packet starts at, so that no byte has to be
counted twice. Writing a packet puts one more at the end; delivering moves the border
between the two parts of the stream and changes nothing; and the length each end looks
at, the one in the message header for the hub and the one in the packet header for the
client, is by `HeadersRight` that of the first packet, so cutting takes the first and
leaves the rest laid out. For the client all this holds while every message is whole
(`AllInOnePacket`). A cut is then a read of `PacketPipe`, and every other step stutters.

### The client

`TypeCorrectness`, `TimerIsRight`, `TimerFollowsRequest`: `TypeOK` and
`TimerRunsWhenNeeded` are inductive together. `MessagesStayInOrder` proves
`ReceivedInOrder` from `OrderInv`: queue and read buffer each rise, one behind the
other, and neither holds a number above `arrived`, so what arrives next goes last.
`ConnectionsRegisterFirst` proves `RegistersFirst` from `RegInv`: before a connection
is up its output holds no HELO and nothing written on a live connection (`Early`);
from then on it holds a HELO that comes before all that was (`HeloLeads`). A step
either cuts the front of the output, appends to it, or starts over, and a lemma shows
each of these.

`NumbersTellApart` proves `SnrUnique` from `SnrInv`. What has to be carried across the
wrap is the age of a number (`Age`): how many numbers ago it was given. No number is
older than the connection has used up (`Fresh`), so the next one, `MaxSnr` old if it was
ever given, was not given here (`NumberTaken`). Zero is given once at most, to the first
message of a client, and has no age.

### The tools

dcpterm. `WindowShowsConnection`: `WindowAgrees` is inductive, because every step
that changes the state of the socket runs `dcp_stateChanged()`, which puts the window
right whatever it showed before, and no other step touches either.
`NewSettingsAreUsed` proves `SettingsInUse` from `SettingsInv`: with the dialog closed
or open, a client that still has an old name is unconnected or closing, is not asked to
connect, and has no timer (`OldSetting`); a slot that waits has given its connection up
(`WaitingSlot`, `EndedSlot`); a HELO is only written with the name the client has
(`Registered`).

Time client. `RightAnswersAreShown` proves `FieldsShowTheirAnswers` from `TimeInv`.
Whatever is on the way to the server under a number that is open belongs to the present
round and asks what the field is for (`Asked`), and an answer on the way back under such
a number answers that (`Answered`). Both hold because the numbers a round takes are in
neither channel and differ from each other; the server answers a command in its own
words; and messages that are lost, at either end of a channel, only leave fewer
(`FewerMessages`). A field that takes a reply of another device shows that it did.

Python shell. `NothingIsLost` proves `NothingLost` and `WaitsKeepTheirWord` proves
`WaitKeepsItsWord`, both from

    ShellInv == ShellTypes /\ Answers /\ Placed(Stream, Held, given, made, gone)

`NothingLost` alone is not inductive: nothing in it says that a place in `_inQueue` is
free when a message is filed there. `ShellTypes` says that every entry of `_inQueue` is
filed under the key of its messages, and one under each (`Filed`). `Answers` says what
devices may have said: one ACK of zero and one final answer to a message at most, with its
number and its destination. `Placed` is about the stream of messages, first those in the
client and then those in its socket: an answer is in one place of the stream, the shell or
the program (`OnePlace`); an ACK of zero comes before the final answer in this order
(`AckFirst`); and an answer that is nowhere is an ACK of zero whose final answer was
returned (`SomePlace`). Reading the socket moves the border between the two parts of the
stream and nothing else (`ArrivesMoves`), the end of a connection cuts its end off
(`EndIsLost`), parsing takes its head (`HeadIsTaken`): the entry has no other message in
this place, or it would be the same answer in two places. A wait takes out whole entries,
each with its final answer (`AnswersAreReturned`). That a wait gives back as many answers
as it was called for is a bijection between the two (`WaitAnswersEach`), and one that ends
for the time leaves an entry incomplete, which by `Filed` is the only one a final answer
could be in (`WaitLacksOne`).

dcpsend. `AllLinesAreSent` proves `SendsAll` from `SendInv`. `InOrder` says that what
was sent and what the socket holds are, one behind the other, the first messages of all
that are to be sent; while the connection is up they are exactly as many as the lines
read so far ask for (`Count`, the lines with text up to a place). `Course` ties
the connection to the place in `main()`. A line with text adds its copies, which are the
next ones wanted (`CopiesAreNext`, the division of a number by the destinations).

### The sequential parts

Messages. A name is what is left of a field when the nulls at its end are cut off
(`StripOnly`, `StripFinds`), so padding a name and stripping it gives the name back
(`PaddedName`). `SentIsReceived` proves `RoundTrips` from `MessageInv` with this.

Answers. `AnswersAreRead` proves `AnswersReadBack` from `MessageInv` and `DataInv` (the
data of a message is a text, also after answers to answers). It needs what the
algorithms compute for every text, so all of them are shown to work on one character
after the other, and the rest is induction over sequences (`ByAppending`, which takes
the induction hypothesis as a set and so needs no operator as a parameter):
- `Words()`: a blank at the end changes no word, a character begins a word or makes the
  last one longer (`WordsOfBlank`, `WordsOfFirst`, `WordsOfNext`). Hence a word is the
  one word of itself (`OneWord`), the words of two texts, the first ending in a blank,
  are those of the one and those of the other (`WordsOfBoth`), and the words that
  `joinedArguments()` puts together are the words of what it makes (`JoinedWords`);
- `percentEncodeSpaces()`: a character more puts one or three behind the encoded text
  (`EncodeMore`), of which decoding keeps the first and reads the character from them
  (`KeptMore`, `DecodedMore`), as two characters follow every percent sign (`Whole`).
  So what is encoded is one word and decodes to the text (`Encodes`);
- `number()` and `toInt()`: the digits written for a number have its value, by strong
  induction on the number (`DecimalsAre`), for every integer (`NumberRead`).

An answer is then a number, a blank and a text: its first word is read as the code, and
the others are the words of the text (`AnswerWords`, `AnswerIsRead`). The prover does
not know that a literal is in STRING, so the texts of the invariant are sequences of
`Chars`: all strings, and by name the characters and keywords that the code writes.

Parsers. `NothingIsLeftBehind` proves `NoLeftovers` from `ParserInv`: a parse
sets every member back before it looks at the message, whatever it then assigns.
dcpdump. `MapGoesBothWays`: `MapSymmetric` is inductive (`MapInv`); a pair that was
refused would break it if only one of its names were looked up. `AnswersArePassedBack`
proves `AnswersComeBack` from the same invariant, as the answer's names are the swapped
names of the message and the map is its own inverse.

HexFormatter. `StaysWithinBuffers`, `FillsItsOutput`, `TextIsAligned` from

    IInv == TypeOK /\ Pointers /\ Columns

`Pointers` gives both pointers as functions of the number of lines written. The
lemmas before it are the arithmetic of the size: products of unknowns, which the
solver needs in single steps.

### Only model-checked

Every invariant and action property the runs check is a theorem. Liveness is not:

- `InputServed`, `ShutdownTerminates`, `RefusedConnectionEnds`, `NothingHeldBack`,
  `AutoReconnects`, `DisconnectHonoured`, `ComboFollowsServer` need ENABLED and
  fairness, which are out of the prover's reach.

## Not modelled

- `dcplisten` prints what it reads; `cmdlineoptions` turns text into options;
  `version.cpp` holds constants; the bindings and build files have no behaviour.
- Of the client: the mapping of socket errors to client errors. The blocking waits
  appear as their users call them, not as operations of `DcpClient`.
- Of dcpterm: the lists of devices and messages, printing, text encodings.
- Of the Python shell: the purge that nothing calls, and a wait for the same message
  twice in one call, which fails with a `KeyError`.
- Of dcpsend: lines that do not fit into a packet.
- Messages above 2^31 bytes that the library itself makes: a `QByteArray` cannot hold
  them (`FramingAssumption`).
- Handlers of the application for `stateChanged()` that send, in the step that
  connects and before the HELO; `DcpTime` has those of its own window.
- Endless traffic to a connection that is closing: `MaxSent` bounds what
  `RefusedConnectionEnds` is checked with.
- Qt itself. Sockets, timers and the event loop are modelled from how the code uses
  them, and marked external in the map: states, the deferred close, signals emitted
  inside calls, `deleteLater()`. Failures to allocate or to write to an open socket
  are left out.
- Debug output and the formatting of addresses, versions and times.

## Plan

What would come next: a composition of two `DcpClient`s with the hub over channels, with
the restart of a device.
