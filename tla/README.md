# A TLA+ verification of mctp-serial-linux

The repository implements a bridge between an MCTP serial line and the MCTP stack of the
Linux kernel: a library (`linux-mctp/libsermctp`) and a small program around it
(`linux-mctp/mctp-bridge`). This directory holds TLA+ models of the library and the program,
the TLC configurations that check them, and TLAPS proofs of their safety properties.

## 1. The system

| Component | State | Operations | Interacts with |
|---|---|---|---|
| `MctpFramer` | receive state machine (`rxState`, `rx_in_progress`, `byte_count`), a SEQPACKET socketpair of validated packets, an interrupt pipe, the port, an epoll set, the receive thread and `running` | `open`, `openFd`, `close`, `send`, `buildWire`, `receive`, `isFrameAvailable`, the thread's `run` | the line; whoever polls the ready descriptor |
| `BcastMessenger` | listening socket, one accepted socket, `state`, `socketPath` | `open`, `acceptConnection`, `recvMessage`, `sendMessage`, `close` | client processes; the file system |
| `LinuxMctpSerial` | a pseudo-terminal with the MCTP line discipline, the interface's name, an embedded framer | `initialize`, `close`, `send`, `receive` | the kernel, which names the interfaces; other processes that do the same |
| `ManagedUsbTty` | a pseudo-terminal, the descriptor of the USB device while it is plugged in, a udev monitor, the worker thread | `open`, `close`, the worker's `threadMain` | udev, the device, the framer on the slave side |
| `MctpBridge` | one of each of the above, `running`, the dispatch thread | `open`, `close`, the thread's `run` | the application |
| `MctpNetlink` | none between calls | eight calls that resolve a name, send a request and read an answer; `setMctpInterfaceNetId` reads flags first and tries three masks | the kernel; other processes that change the same interfaces |
| `mctp-bridge` | the options, `interrupted` | `parseArgs`, `main`, `signalHandler`, the destructors | the library; through interface names and socket files every other bridge of the machine |

What is hard: three kinds of threads (receive thread of each framer, worker, dispatch) that
`close()` has to stop from outside; descriptors that are closed, kept as numbers and reused;
a byte stream that can be cut anywhere, by an unplugged device or by a write that times out;
blocking and non-blocking sockets side by side; interface names that several processes
allocate without telling each other, and socket files named after them; requests that are
not matched with their answers; system calls that fail in the middle of an `open()`; signals
and crashes at any moment.
`PROJECT.json` lists these hazards at the lines where they bite.

What makes each component correct:

* framer: count, buffer and length byte agree whatever arrives; no packet is forged or
  spliced; over an intact line packets arrive in order, unchanged, and are lost only for two
  stated reasons; `close()` ends the thread before it closes anything the thread uses;
* messenger: it works on its own sockets only, notices when a client leaves, leaks nothing;
* bridge: every packet takes its one route, once and in order; no port starves; `close()`
  returns;
* kernel endpoint: it goes by the name of its own interface, which is programmed as asked
  unless a warning was printed, and leaves nothing behind;
* netlink: what is reported done has been done, to the interface that was meant;
* program: it starts whatever earlier ones have left, is found under its name, ends when it
  is told to, and takes everything with it;
* USB forwarder: bytes stay in order through any replugging; an announced device is
  attached; `close()` returns and releases everything.

## 2. Modules

| Module | Models | Notes |
|---|---|---|
| `MctpFramerRx` | `updateRxFSM`, `validateRx`, `receive` | one action per case of the switch; the FCS is a parameter |
| `MctpFramer` | `open`, `openFd`, `close`, `run` around it | extends `MctpFramerRx`; any byte may arrive at any time |
| `MctpCodec` | `calcFcs` with its table | with a bit-by-bit reference CRC |
| `PacketChannel` | nothing: an abstract specification | what two framers promise each other |
| `MctpSerialLink` | `send`, `transmitFrame`, `framer_write_all` of one framer, `updateRxFSM` of the other; `buildWire` | implements `PacketChannel` |
| `UsbReplug` | the same receiver behind a device that is pulled out and put back | extends `MctpSerialLink` |
| `BcastMessenger` | the class, its clients, the descriptor table of the process | operations without a Next |
| `MessengerApi` | the messenger in every order of calls | extends `BcastMessenger` |
| `MctpBridge` | `open`, `close`, `run` | extends `BcastMessenger`; the two framers are the queues that `PacketChannel` allows |
| `LinuxMctpSerial` | `initialize`, `close` in several processes | one action per netlink request; the kernel's naming is external |
| `MctpNetlink` | the calls of `mctpnet::` and their helpers | attributes by offset in a buffer; the kernel walks them as `getMctpInterfaceNetId` does |
| `BridgeProcess` | `main`, `signalHandler`, the destructors, and `open` and `close` of `MctpBridge` as far as they touch what processes share | extends `LinuxMctpSerial`, whose operations it calls; adds the socket files |
| `ManagedUsbTty` | `open`, `close`, `threadMain` | udev and the device are external |
| `MC*` | | constants for TLC; `MCMctpSerialLink` also states what the FCS promises |
| `MctpFramerRx_proofs`, `MctpFramer_proofs`, `MctpSerialLink_proofs`, `MessengerApi_proofs`, `MctpBridge_proofs`, `ManagedUsbTty_proofs`, `MctpNetlink_proofs`, `BridgeProcess_proofs` | | theorems about the module they are named after, section 5; the last one also about `LinuxMctpSerial`, which `BridgeProcess` extends. `MctpFramer_proofs` and `MctpSerialLink_proofs` extend `MctpFramerRx_proofs`; `MctpBridge_proofs` instantiates `MessengerApi_proofs` |

How state corresponds to the code:

* Descriptors are Booleans where only "open or not" matters (framer), numbers with an owner
  where reuse matters (messenger), and the number of the plugged-in device in
  `ManagedUsbTty`.
* A method that blocks or loops is several actions, with the point reached in `caller`,
  `app`, `pc`, `thread` or `worker`. A stretch of code that nobody else can observe in the
  middle is one action. A call that blocks is an action that is not enabled (`sendMessage`
  on a full buffer, the two write loops of `ManagedUsbTty` on EAGAIN, the joins).
* System calls that may fail are listed in the constant `Faults`; each failure path of the
  code is an action or a disjunct.
* `MctpNetlink` keeps what the kernel tells apart in a request: where each attribute lies,
  how long it says it is, and one value. The kernel's side is written from what the requests
  are for; it handles a request before `sendmsg()` returns, as rtnetlink does.
* `BridgeProcess` opens and closes the kernel endpoint step by step, and the serial port in
  one step. `Launch` stands for options that `parseArgs()` accepts. The dispatch thread and
  the worker of `ManagedUsbTty` have modules of their own; here `main()` only waits for them,
  in the states "joining" (MctpBridge.cpp:255), "failed" (:204, :214, :226) and at the end of
  "closing" (:266), and `Blocked` says that such a wait need not end.
* A port is open when its descriptor is. The code asks for more, a number above 0
  (MctpFramer.cpp:70, :158), which differs in a process that has closed its standard input.
* Bytes are 0..255 in the framer modules. In the bridge a packet is its routing class, the
  port it came from and a number in order of arrival; in `ManagedUsbTty` a byte is its number.
* `transmitFrame()`'s output buffer is a function of the message, so `MctpSerialLink` keeps
  the sender's position in it and not the buffer. Bytes on the wire carry their position for
  the properties; no action reads it.

Operators marked "Seeded fault" are deliberately wrong variants of the definition that
follows them. No specification uses them. Putting one in place of that definition makes TLC
report the property named for it under "mutants" in `PROJECT.json`: each property notices
the kind of mistake it is meant for.

## 3. Runs that pass

Run one with `tlc -config <cfg> <module>`.

| cfg (module) | Shows | Bounds |
|---|---|---|
| `MctpFramer` (`MCMctpFramer`) | `FrameLength`, `PacketsBounded`, `ThreadOwnsFds`, `DeafOnlyFromTheStart`, `CloseReturns`, under every byte stream, every failing call, every order of `open`/`close`/`receive` | per receiver state one byte for each branch of the code; a frame of length byte 0 or 126 is followed for 10 bytes; the pipe holds 1 packet, so that it is full as often as empty |
| `SerialLink` (`MCMctpSerialLink`) | `InStep`, `WireIsBuildWire`, `NothingForged`, refinement of `PacketChannel` with its fairness; `FcsIsCrc`, `WrongByteDetected` | 3 messages out of: one with a flag, an escape and the byte an escape leaves; one whose FCS contains a flag; one that is too short; an empty one, whose length byte is 0. Up to 2 failed writes or lost bytes anywhere. The line holds 2 bytes, the pipe 1 packet. The two properties of the FCS do not depend on the state: they are evaluated once, for all 65536 register values (a byte only enters by exclusive or), so that they hold for strings of any length |
| `MessengerApi` (`MCMessengerApi`) | `OwnSocketsInUse`, `NothingLeaks` | 2 clients that come, go and come back, 3 descriptor numbers, any number of `open`/`close` rounds |
| `MctpBridge` (`MCMctpBridge`) | `Routing`, `DispatchOnOpenPorts`, and, if clients read, `KernelTrafficFlows`, `DisconnectNoticed`, `CloseReturns` | 1 client that may reconnect for ever, which is what keeps the loop busy in `KernelTrafficFlows`; 2 packets from the line (broadcasts, unicasts and responses to the client), 2 from the kernel, 1 from a client; pipes and sockets of 1 so that all of them are full at times; any number of `open`/`close` rounds |
| `ManagedUsbTty` (`MCManagedUsbTty`) | `InOrderBothWays`, `LeaksOnlyRepeated`, `AnnouncedIsAttached`, `GoneIsDetached`, `CloseReturnsUnlessStuck` | 2 pluggings, 1 repeated announcement, 2 bytes each way, a pseudo-terminal of 1 byte so that partial writes happen, a device that takes 1 byte before it has to read, and may never read; every failing call but the open of a device that is there, which `threadMain()` does not retry |
| `LinuxMctpSerial` (`MCLinuxMctpSerial`) | `NothingLeftBehind`, `OwnInterfaceIfUndisturbed`, `ConfiguredUnlessWarned`, the loops end | 2 processes (symmetric), each asking for any or for one of 2 names at every call, each with an EID and one route to program; 2 interface numbers; 4 passes for 10 and 3 for 50: what a pass does depends only on whether it is the last. Processes see each other only through the names in the list, so one other process already is every kind of company |
| `BridgeProcess` (`MCBridgeProcess`) | `ServedIfUncrowded`, `StartsUnlessHindered`, `ExitLeavesNothing`, `SignalEnds` | 2 processes that are started again and again, one with `--tty`, the other with `--id-path-tag` and every failing call; 1 pass of each loop (their number is the subject of `LinuxMctpSerial`), no EID and no route, so that the interface is programmed in one request |
| `MctpNetlink` (`MCMctpNetlink`) | `TrueMeansDone`, `FlagsKept`, `CallReturns`, no socket stays open | any sequence of the eight calls on 2 names, while others create, remove and rename up to 2 interfaces in all and raise and lower them at will; 1 EID, 2 network ids; every failing call |

Deadlock checking is off where a system may stop: bounded traffic has been handled
(`SerialLink`), or a worker spins on EAGAIN, which has no step in the model
(`ManagedUsbTty`).

Fairness. The receive, dispatch and worker threads are scheduled (weak fairness on their
steps), and a join that can return does. In the bridge and in `ManagedUsbTty`, whose poll
step may always be skipped (EINTR, a failing `epoll_create1`), strong fairness says that it
is not skipped for ever while something is ready: `epoll_wait` is level-triggered. Clients
and the framer are taken to read only where it is said (`ReadersFair`, an attached framer);
the runs of section 4 drop that. The USB device need not read what it is sent: with RTS/CTS
it may hold the line for ever. A bridge process that is alive is
scheduled, and the kernel answers every netlink request, but a call in which `main()` waits
for somebody else (`Blocked`: the open of the terminal, the joins of the dispatch thread and
of the worker) has no fairness. `SignalEnds` says that a signal ends the process unless
`main()` stays in one of those; that the joins may indeed not return is shown by the run
`MctpBridgeClose` and by `Stuck` of `ManagedUsbTty`. Nobody is obliged to open, close, send, plug, unplug, signal or
crash; in `UsbReplug` the device keeps sending and is put back, because that is the question.

## 4. Runs that find a disagreement

Each checks one sentence of the repository's documentation against the code. `PROJECT.json`
quotes the sentences and says what the counterexample is.

| cfg | Property | What the code does |
|---|---|---|
| `UsbReplugRecovers` | `Recovers` | an unlucky cut puts the receiver out of step for good |
| `MessengerApiClose` | `CloseOnlyOwn` | a second `close()` closes and unlinks what is no longer its own |
| `MctpBridgeClose` | `CloseReturns` | a client that does not read blocks `close()` |
| `LinuxMctpSerialOverlap` | `OwnInterface` | of two processes that start together, one may go by the other's name, and then both have the same |

The passing runs go around other places where code and documentation disagree. The models
have the behaviour, and the properties say exactly what is left of the promise:

* `MctpFramer::open()` reports a port that cannot be opened as `false`, that is 0, where its
  comment promises -1 (MctpFramer.cpp:94 and :66): the value `"0"` of `ret`.
* After `BcastMessenger::close()` `isConnected()` may stay true (BcastMessenger.cpp:176):
  `OwnSocketsInUse` speaks of the time between `open()` and `close()`.
* A device announced twice costs a descriptor (ManagedUsbTty.cpp:359): `LeaksOnlyRepeated`
  counts them.
* The worker of `ManagedUsbTty` retries EAGAIN without a look at `running`, towards the
  device (ManagedUsbTty.cpp:383) and towards the pseudo-terminal (:405). The device may hold
  CTS off, and `MctpBridge::close()` stops the only reader of the pseudo-terminal first
  (MctpBridge.cpp:260): `CloseReturnsUnlessStuck`, and `SignalEnds` for the process.
* `MctpFramer::open()` looks at no result of `epoll_ctl()` (MctpFramer.cpp:138, :141, :205,
  :209): it succeeds, and the framer never hears the port. `DeafOnlyFromTheStart` says that
  a framer that is not deaf when `open()` returns does not become so.
* "Any device that responds will have the response relayed back to the sender" says
  mctp-bridge/README.md:45 of a client's broadcast. The dispatch loop looks only at the
  destination byte (MctpBridge.cpp:362): a response is addressed to an endpoint id, so it goes
  to the kernel and never to the client, and nothing remembers who asked. `Routing` has the
  responses ("reply") among the packets of the kernel.
* A device that was there before `open()` is not attached (ManagedUsbTty.cpp:353):
  `AnnouncedIsAttached` speaks of announced ones.
* `LinuxMctpSerial::initialize()` reports a timeout after the first pass that finds nothing
  (LinuxMctpSerial.cpp:167), although the comment above says it waits (:144): `ScanNothing`.
* `MctpBridge::close()` gives the interface back before it unlinks the socket file named after
  it (MctpBridge.cpp:259 and :277), and the destructors unlink it again, so that a bridge that
  starts meanwhile may lose its file: `ServedIfUncrowded` speaks of bridges that start while
  no other is closing, dying or known by a name that may not be its own.
* `setMctpInterfaceNetId()` writes flags of 0 when it could not read them
  (MctpNetlink.cpp:425), and lowers the interface from the second mask on: `FlagsKept` leaves
  that case out.
* `sendNetlinkMessage()` takes any answer for its own (MctpNetlink.cpp:147). After a `recv()`
  that failed, the answer to an earlier mask is taken for that to a later one;
  `TrueMeansDone` shows that it makes no difference, since they ask for the same.
* `main()` does not hand `--ifname` to `open()` (mctp-bridge.cpp:299), and `open()` clears
  the member it would be in, so that the option has no effect but on the printed summary:
  `BridgeProcess` asks for no name.

## 5. What is proved

`MctpFramer_proofs` proves for every FCS, pipe capacity, set of inputs and set of faults:

* `FramerTypeOK`: `TypeOK`;
* `FramerFrameLength`: `FrameLength`;
* `FramerPacketsBounded`: `PacketsBounded`;
* `FramerThreadOwnsFds`: `ThreadOwnsFds`;
* `FramerDeafOnlyFromTheStart`: `DeafOnlyFromTheStart`.

The assumptions are the named ASSUMEs of the two modules: the pipe holds at least one packet,
inputs are bytes, faults are among the calls that can fail.

All five follow from `FramerInvariant`, whose invariant `FramerInv` has three parts. `RxInv`
(types, `FrameLength`, `PacketsBounded`) is inductive for one byte; the argument
(`UpdateRxInv`) is that the length byte is never touched after HEADER2, that a payload byte
makes the buffer longer and the count smaller by one, and that a validated frame has 11 to
261 bytes of which 6 are removed. `ThreadInv` is needed because `ThreadOwnsFds` alone is not
inductive: `CloseEnd` closes the descriptors when the join returns, and only
`wait_for_join <=> there is a thread` makes that harmless; this in turn needs
`running <=> there is a thread` outside `close()`, which covers a thread that has ended by
itself after an epoll failure and still has to be joined.

`MctpSerialLink_proofs` proves for every FCS (any function to 0..65535), any set of messages
of 0 to 256 bytes, and any capacity of the line and the pipe:

* `LinkTypeCorrect`: `LinkTypeOK`, also with failed writes and lost bytes; the sender's
  position, and that of every byte on the line, is one of its frame;
* `LinkInStep`: `InStep`, the receiver is where the next byte of the sender's frame is;
* `LinkIsChannel`: `Spec => Channel!Spec`, every step of the link is one of `PacketChannel`;
* `LinkNothingForged`: `NothingForged` for as long as the line is intact;
* `LinkWireIsBuildWire`: `WireIsBuildWire`, also on a damaged line: the bytes written are those
  of `buildWire()`.

`InStep` is not inductive alone, since it speaks of the next byte only. `LinkInv` adds what
all the bytes between the two are: each is the one its position tells (`WireInv`), and as
long as nothing has failed the positions follow one another up to the sender's (`Chained`,
`TxInv`). `ReadMoves` shows, one state of the receiver after the other, that the byte at its position
takes it to the next one; that an escape is undone, and that the two FCS bytes are those
of the very buffer, is proved from the frame layout of `transmitFrame()`. The refinement
follows: a step of the receiver maps to `Arrive` or `Discard` exactly at the last byte of a
frame, and to a stuttering step at every other. For `LinkNothingForged` the invariant
`DeliveredInv` says more than that the packets are among those sent: they are among those
whose frames lie behind the receiver (`Within`), which leaves room for the next one.
For `LinkWireIsBuildWire` it is enough that a byte on the line is the one its position tells;
the work is in `buildWire()`, whose loop is a recursive function. `RoundsRecorded` shows that
there is a function that obeys the recursion, `RoundHolds` that a round leaves every byte of
the positions so far at its place, moved by the escapes before it. Both are inductions over
the bytes of a frame, put as the least element of the set of counterexamples
(`SetInduction`), which needs no operator as a parameter.

`MessengerApi_proofs` proves for any number of clients and any finite set of descriptor
numbers, for the calls in every order:

* `MessengerTypeOK`: `ApiTypeOK`;
* `MessengerOwnSockets`: `OwnSocketsInUse`;
* `MessengerNothingLeaks`: `NothingLeaks`.

`close()` leaves the numbers it has closed in `listenFd` and `connFd`, and others may get
those numbers. The invariant `ApiInv` therefore ties the members to the descriptor table from
the side of the table (`Sockets`: a descriptor is a listening one iff the messenger is in use
and has its number), and says nothing of the members while the messenger is not in use.

`MctpBridge_proofs` proves for any number of clients, any traffic and any buffers:

* `BridgeUsesMessenger`: `Spec => Api!Spec`, the bridge with its threads is a user of the
  messenger as `MessengerApi` allows it, with `inUse` mapped to the time between the socket's
  setup in `open()` and the end of `close()`;
* `BridgeTypeCorrect`, `BridgeRouting`, `BridgeOnOpenPorts`: `BridgeTypeOK`, `Routing`,
  `DispatchOnOpenPorts`.

The proof is compositional: by the first theorem the invariant proved of the messenger alone
holds inside the bridge, and its socket handling is not proved again. `LoopInv` (the thread
exists exactly between `open()` and the join, and never fetches from an empty pipe) comes
first, because only the running thread may call the messenger. `RouteInv` strengthens
`Routing` to what is still on its way: the packets delivered on each route, followed by those
of the same origin that wait in a pipe, in a socket or in `msg`, are numbered in order
(`Ordered`). The assumptions are those of the two modules; `PortsAssumption` says that no
client is called like one of the other two ports.

`ManagedUsbTty_proofs` proves for buffers of any size and any number of devices, faults,
repeated announcements and bytes:

* `UsbTypeCorrect`: `UsbTypeOK`;
* `UsbInOrder`: `InOrderBothWays`;
* `UsbLeaks`: `LeaksOnlyRepeated`.

`FlowInv` puts the stages of each direction in a line (what the reader got, the first buffer,
what the worker carries, the second buffer) and says that the whole line is numbered in order:
every step moves a piece along the line or drops one. For the leak it is not enough to count,
since a repeated announcement does its harm only when the worker gets to it. `LeakInv` gives
each event in the queue a ticket, the number of repetitions there had been when it was queued;
an event that may overwrite an open descriptor has a higher ticket than the one before, the
tickets begin no lower than the leaks so far and end no higher than the repetitions. `LifeInv`
says when descriptors are open and that a removal is queued behind every announcement of the
device it removes.

`BridgeProcess_proofs` first proves of `LinuxMctpSerial`, for every number of processes and
names, every number of passes and routes, and every set of faults:

* `LinuxTypeCorrect`: `LinuxTypeOK`, the ends of the three loops included;
* `LinuxNothingLeftBehind`: `NothingLeftBehind`;
* `LinuxOwnInterface`: `OwnInterfaceIfUndisturbed`;
* `LinuxConfigured`: `ConfiguredUnlessWarned`.

The assumptions are those of `LinuxAssumption`: interface numbers and given names are
different things, and the loops have at least one pass. The invariant of
`NothingLeftBehind`, `LinuxInv`, adds where a process must have an interface (from the ioctl
to `close()`) and where it may have a framer. `LinuxOwnInterface` needs more, because an
endpoint keeps its name while others come and go. `OwnInv` says that two interfaces never
have the same name (`Labels`), that a process without company is indeed alone (`Alone`), and
what it knows at each point (`Found`): the names listed before differ from those listed now
in its own interface only; from the second pass on its name is that of its interface; and
once it is up, any process that looks for an interface of its own has that name in its list,
so that it can neither take nor rename it. Between `Begin` and `Attach` another process
cannot take a step without becoming company, which is what makes the two listings
comparable. That the kernel always finds a lowest free number (`LowestUnused`) rests on the
library's theorem on well-founded relations. `ConfigInv` builds on `OwnInv`: since the name
a request is resolved by is that of the process's own interface, each request that was not
warned about adds to that interface (`Asked`: after k requests it has the first k), and no
other process takes anything away.

It then proves of `BridgeProcess`, for every number of processes, names and passes and every
set of faults, with processes started, interrupted and killed at any point:

* `ProcessExitLeavesNothing`: `ExitLeavesNothing`;
* `ProcessServed`: `ServedIfUncrowded`;
* `ProcessStarts`: `StartsUnlessHindered`.

The assumptions are those above and `ProcessAssumption`, by which a socket file nobody
listens on is told apart from a process. For the first theorem the invariant `ProcessInv`
extends `LinuxInv`, whose step lemmas it reuses for the calls of `initialize()` and
`close()`. It adds `Listens`: a process listens only behind the path its messenger
remembers, and only while `main()` is between the socket's creation and the end of a
`close()`. Without the first half the removal of the file in `close()` or in a destructor
would not be known to hit the right file; without the second a process could exit from a
point where nothing is removed any more. A `main()` that waits for a join ("failed",
"joining") still listens. A process that dies leaves the file to the kernel,
which marks it stale. `ServeInv`, for the other two, says where the endpoint is at each
place of `main()` (`Ladder`), that while a bridge that nobody crowded opens, the others are
neither closing nor known by a name that may not be theirs (`Quiet`), what it then knows of
its interface, with the name in nobody else's hands (`Mine`, `Untouched`), and that every
way into a failed start, the wait for the worker included, passes a call that may fail
(`Blamed`). The two halves need each
other: the new interface's number is in nobody's `mctp_if_name` or `socketPath` only because
`Mine` holds of the other bridges, and it is kept only because no bridge that looks for its
interface later can see it as new.

`MctpNetlink_proofs` proves for any interfaces, names, endpoint and network ids, with other
processes changing the interfaces between any two system calls, and every set of faults:

* `NetlinkTypeCorrect`: `NetlinkTypeOK`, every socket closed included;
* `NetlinkTrueMeansDone`: `TrueMeansDone`;
* `NetlinkFlagsKept`: `FlagsKept`.

`NetlinkAssumption` says that interface numbers are positive, that a new interface's network 1
is one of the networks, and that an interface that is gone is told apart from one that is
there. The first half of the module is about the bytes. The walk over the attributes of a
message is a recursive function; `WalkUnfolds` shows that it does what its definition says
whenever some function does, and `ShortWalk` gives that function for messages whose
attributes are the last or the last but one of their nest, which all of them are. From it
follows, offset by offset, that the kernel finds in each request the one value that was put
there, and `getMctpInterfaceNetId()` in the answer the network id that the kernel wrote
(`EidRequestRead`, `RouteRequestRead`, `NameRequestRead`, `NetRequestRead`,
`LinkAnswerRead`). In the second half, `NetInv` says of the call under way: what its
arguments are (`CallInv`); that no more answers wait than requests were sent (`PlaceInv`);
that an answer without error, also one left over from an earlier mask, says that the kernel
has done what was asked (`AnswersInv`, which is why answers need not be matched with
requests); and, while nobody else has touched an interface, that the flags that were read and
the ones it has are those it began with (`FlagsInv`). The last needs that no two interfaces
have the same name (`NamesUnique`), since the name is resolved twice.

Only model-checked:

* all liveness, which is out of the prover's reach together with ENABLED, and with it the
  fairness of `PacketChannel` in `IsPacketChannel`;
* `FcsIsCrc` and `WrongByteDetected`, which are computations with the 256 entries of a table
  for all 65536 register values: TLC covers them completely, and there is no constant left to
  generalise;
* `NothingForged` on a damaged line: it holds of the code's FCS on the payloads of the run,
  and could not hold of every FCS, which is what the theorems on the link speak of.

## 6. Not modelled

* The spelling and the checks of the options (`parseArgs()`, `baudRateFromString()`,
  `parseBool()`): rejected options end the process before it touches anything.
* The thin public wrappers, and the examples and tests.
* Terminal settings (speed, parity, flow control) and diagnostics output. The open of the
  terminal may wait for a carrier; nothing in the code bounds that.
* Fields of netlink messages that are the same in every request, and answers that are neither
  an acknowledgement nor an interface.
* udev events of other devices, which `threadMain()` takes off the monitor and ignores.
* Messages of more than 256 bytes in `send()`, which `BcastMessenger` does not hand on. Those
  of 0 and 256 bytes, whose length byte is 0, are modelled; the runs send the empty one.
* `accept()` failing on the dispatch thread is an action of the messenger and a way to die in
  `BridgeProcess`, not a step of `MctpBridge`.
* A failing `epoll_ctl()` in the loops of `MctpBridge` and `ManagedUsbTty`; that of the framer
  is modelled.

## 7. Plan

Done in this order: framer and its proofs, codec, link and refinement, messenger, bridge,
USB forwarder, kernel endpoint with its netlink requests and proofs, netlink, processes; then
the proofs of the processes, the messenger, the link with its refinement, the bridge, the
USB forwarder, netlink and `buildWire()`. What is left are compositions: `ManagedUsbTty` under
`UsbReplug`'s framer; the closing order of `MctpBridge::close()` with the parts' own
`close()`.
