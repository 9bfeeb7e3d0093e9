----------------------------- MODULE MctpBridge -----------------------------
(***************************************************************************)
(* The bridge (libsermctp/src/MctpBridge.cpp): open() and close() on the   *)
(* application's thread, run() on the dispatch thread, and the three ports *)
(* it moves packets between.  The broadcast port is BcastMessenger.  The   *)
(* kernel port (LinuxMctpSerial) and the serial port (mctpSerial) are two  *)
(* framers; here each is the pipe its receive thread fills and the record  *)
(* of what was handed to its send(), as PacketChannel allows.              *)
(*                                                                         *)
(* A packet is a record: where its destination byte msg[1] points, where   *)
(* it came from ("tty", "linux" or a client) and a number in order of      *)
(* arrival; nothing but the properties reads the last two.  "bcast" is EID *)
(* 0xff or 0x00, "uni" and "reply" any other: a "reply" is a remote        *)
(* device's response to a client's broadcast, addressed to the EID the     *)
(* client gave as its own.  ClientMsgs are the destinations clients use:   *)
(* an "empty" message is one too, and "one" is a message of a single byte, *)
(* in which msg[1] reads past the end.  The framers deliver neither: their *)
(* packets have 5 bytes at least.                                          *)
(***************************************************************************)
EXTENDS BcastMessenger

CONSTANTS
    PipeCap,      \* packets a framer's pipe holds
    MaxTty, MaxLinux, MaxClient   \* bounds on the packets that arrive at each port

ASSUME BridgeAssumption ==
    PipeCap \in Nat \ {0} /\ MaxTty \in Nat /\ MaxLinux \in Nat /\ MaxClient \in Nat
ASSUME PortsAssumption == "tty" \notin Clients /\ "linux" \notin Clients

VARIABLES
    app,          \* how far open() or close() has come
    running,
    pc,           \* where the dispatch thread is, "none" when there is none
    ready,        \* the ports the last epoll_wait reported, as far as still to be handled
    msg,          \* the broadcast sendMessage() is about to send
    ttyPipe, linuxPipe,          \* packets waiting in the two framers
    ttyIn, linuxIn, clientIn,    \* how many have arrived at each port
    toTty, toLinux, toBcast      \* history: what was handed to each port

bridgeVars == <<app, running, pc, ready, msg>>
portVars == <<ttyPipe, linuxPipe, ttyIn, linuxIn, clientIn>>
outVars == <<toTty, toLinux, toBcast>>
vars == <<bcastVars, bridgeVars, portVars, outVars>>

NoMsg == [dest |-> "none", from |-> None, id |-> 0]

Init ==
    /\ BcastInit
    /\ app = "closed" /\ running = FALSE /\ pc = "none" /\ ready = {} /\ msg = NoMsg
    /\ ttyPipe = <<>> /\ linuxPipe = <<>> /\ ttyIn = 0 /\ linuxIn = 0 /\ clientIn = 0
    /\ toTty = <<>> /\ toLinux = <<>> /\ toBcast = <<>>

-----------------------------------------------------------------------------
(* open() and close().                                                     *)

appStep(from, to) ==
    /\ app = from /\ app' = to
    /\ UNCHANGED <<ready, msg, ttyIn, linuxIn, clientIn, outVars>>

\* What close() does once the dispatch thread is joined: the endpoint, the framer
\* and the socket are closed, and the packets that waited in the two pipes are gone.
Shutdown == close /\ ttyPipe' = <<>> /\ linuxPipe' = <<>>

\* open() calls close() first, whatever state the bridge is in.
OpenBegin ==
    /\ appStep("closed", "opening")
    /\ Shutdown
    /\ UNCHANGED <<running, pc>>

\* The kernel endpoint is up and the socket is set up, or not.
OpenSocket ==
    /\ appStep("opening", "bound")
    /\ open
    /\ UNCHANGED <<running, pc, ttyPipe, linuxPipe>>

OpenSocketFails ==
    /\ appStep("opening", "failed")
    /\ openFailsSocket \/ openFailsBind \/ openFailsListen
    /\ UNCHANGED <<running, pc, ttyPipe, linuxPipe>>

\* Every failure path ends in close(): the kernel endpoint cannot be initialised,
\* the socket cannot be set up, or the serial port cannot be opened.
OpenFails ==
    /\ \E from \in {"opening", "failed", "bound"} : appStep(from, "closed")
    /\ Shutdown
    /\ UNCHANGED <<running, pc>>

\* The serial port is open and its framer attached: the dispatch thread starts.
OpenEnd ==
    /\ appStep("bound", "open")
    /\ running' = TRUE /\ pc' = "top"
    /\ UNCHANGED <<bcastVars, ttyPipe, linuxPipe>>

\* Seeded fault: close() leaves the flag alone.
CloseBeginStillRunning ==
    /\ appStep("open", "closing")
    /\ UNCHANGED <<bcastVars, running, pc, ttyPipe, linuxPipe>>

CloseBegin ==
    /\ appStep("open", "closing")
    /\ running' = FALSE
    /\ UNCHANGED <<bcastVars, pc, ttyPipe, linuxPipe>>

\* Seeded fault: the dispatch thread is not joined.
CloseEndNoJoin ==
    /\ appStep("closing", "closed")
    /\ Shutdown
    /\ UNCHANGED <<running, pc>>

\* The join returns.
CloseEnd ==
    /\ appStep("closing", "closed")
    /\ pc = "exited" /\ pc' = "none"
    /\ Shutdown
    /\ UNCHANGED running

-----------------------------------------------------------------------------
(* run(): one pass of the loop is Top, Poll, then the three ports in turn. *)

goto(l) == pc' = l /\ UNCHANGED <<app, running>>

\* Seeded fault: the loop does not look at running.
TopForever ==
    /\ pc = "top"
    /\ IF isConnected THEN UNCHANGED bcastVars ELSE acceptNone \/ acceptClient
    /\ goto("poll") /\ UNCHANGED <<ready, msg, portVars, outVars>>

Top ==
    /\ pc = "top" /\ running
    /\ IF isConnected THEN UNCHANGED bcastVars ELSE acceptNone \/ acceptClient
    /\ goto("poll") /\ UNCHANGED <<ready, msg, portVars, outVars>>

Exit ==
    /\ pc = "top" /\ ~running
    /\ goto("exited") /\ UNCHANGED <<bcastVars, ready, msg, portVars, outVars>>

\* Seeded fault: the kernel's port is not polled.
ReadyPortsNoLinux ==
    {p \in {"bcast", "tty"} :
        \/ p = "bcast" /\ isConnected /\ (toServer[peer] # <<>> \/ Gone(peer))
        \/ p = "tty" /\ ttyPipe # <<>>}

ReadyPorts ==
    {p \in {"bcast", "linux", "tty"} :
        \/ p = "bcast" /\ isConnected /\ (toServer[peer] # <<>> \/ Gone(peer))
        \/ p = "linux" /\ linuxPipe # <<>>
        \/ p = "tty" /\ ttyPipe # <<>>}

\* A timeout, EINTR, or no descriptor for epoll_create1(): the pass is skipped.
PollSkipped ==
    /\ pc = "poll"
    /\ goto("top") /\ UNCHANGED <<bcastVars, ready, msg, portVars, outVars>>

PollReady ==
    /\ pc = "poll" /\ ReadyPorts # {}
    /\ ready' = ReadyPorts
    /\ goto("bcast") /\ UNCHANGED <<bcastVars, msg, portVars, outVars>>

\* A client's message goes out if it is a broadcast; what a one-byte message does
\* depends on the byte behind it.
Forwarded(m) ==
    \/ m.dest \in {"bcast", "one"} /\ toTty' = Append(toTty, m)
    \/ m.dest \in {"uni", "one"} /\ UNCHANGED toTty

HandleBcast ==
    /\ pc = "bcast" /\ "bcast" \in ready
    /\ \/ recvData /\ Forwarded(Head(toServer[peer]))
       \/ (recvClosed \/ recvNothing) /\ UNCHANGED toTty
    /\ ready' = ready \ {"bcast"}
    /\ goto("linux") /\ UNCHANGED <<msg, portVars, toLinux, toBcast>>

\* What the kernel sends goes out as it is.
HandleLinux ==
    /\ pc = "linux" /\ "linux" \in ready
    /\ toTty' = Append(toTty, Head(linuxPipe))
    /\ linuxPipe' = Tail(linuxPipe)
    /\ ready' = ready \ {"linux"} /\ goto("tty")
    /\ UNCHANGED <<bcastVars, msg, ttyPipe, ttyIn, linuxIn, clientIn, toLinux, toBcast>>

\* Seeded fault: a broadcast that finds no client goes to the kernel.
HandleTtyFallThrough ==
    /\ pc = "tty" /\ "tty" \in ready
    /\ ttyPipe' = Tail(ttyPipe) /\ ready' = {}
    /\ LET m == Head(ttyPipe)
       IN  IF m.dest = "bcast" /\ isConnected
           THEN msg' = m /\ goto("sending") /\ UNCHANGED toLinux
           ELSE toLinux' = Append(toLinux, m) /\ goto("top") /\ UNCHANGED msg
    /\ UNCHANGED <<bcastVars, linuxPipe, ttyIn, linuxIn, clientIn, toTty, toBcast>>

\* What comes in goes to the kernel; a broadcast goes to the client if there is one.
HandleTty ==
    /\ pc = "tty" /\ "tty" \in ready
    /\ ttyPipe' = Tail(ttyPipe) /\ ready' = {}
    /\ LET m == Head(ttyPipe)
       IN  \/ /\ m.dest = "bcast" /\ isConnected
              /\ msg' = m /\ goto("sending") /\ UNCHANGED toLinux
           \/ /\ m.dest = "bcast" /\ ~isConnected
              /\ goto("top") /\ UNCHANGED <<msg, toLinux>>
           \/ /\ m.dest # "bcast"
              /\ toLinux' = Append(toLinux, m) /\ goto("top") /\ UNCHANGED msg
    /\ UNCHANGED <<bcastVars, linuxPipe, ttyIn, linuxIn, clientIn, toTty, toBcast>>

\* The thread is inside send() until the client has room or is gone.
SendBcast ==
    /\ pc = "sending"
    /\ sendMessage(msg)
    /\ toBcast' = IF Gone(peer) THEN toBcast ELSE Append(toBcast, msg)
    /\ msg' = NoMsg
    /\ goto("top") /\ UNCHANGED <<ready, portVars, toTty, toLinux>>

\* A port that was not reported is passed over.
After(p) == CASE p = "bcast" -> "linux" [] p = "linux" -> "tty" [] p = "tty" -> "top"

PassOver ==
    /\ pc \in {"bcast", "linux", "tty"} /\ pc \notin ready
    /\ goto(After(pc)) /\ UNCHANGED <<bcastVars, ready, msg, portVars, outVars>>

Dispatch ==
    \/ Top \/ Exit \/ PollSkipped \/ PollReady
    \/ HandleBcast \/ HandleLinux \/ HandleTty \/ SendBcast \/ PassOver

-----------------------------------------------------------------------------
(* The outside: clients, the remote device, the kernel.                    *)

ClientStep(c) ==
    /\ \/ /\ clientIn < MaxClient
          /\ \E d \in ClientMsgs : clientSend(c, [dest |-> d, from |-> c, id |-> clientIn + 1])
          /\ clientIn' = clientIn + 1
       \/ (clientConnect(c) \/ clientLeave(c)) /\ UNCHANGED clientIn
    /\ UNCHANGED <<bridgeVars, ttyPipe, linuxPipe, ttyIn, linuxIn, outVars>>

ClientReads(c) == clientRead(c) /\ UNCHANGED <<bridgeVars, portVars, outVars>>

TtyDests == {"bcast", "uni", "reply"}

\* The receive thread of each framer runs from its openFd() to the end of close().
\* A device only responds to what it was sent.
TtyArrives(d) ==
    /\ d = "reply" => \E k \in 1..Len(toTty) : toTty[k].from \in Clients
    /\ app \in {"open", "closing"} /\ ttyIn < MaxTty /\ Len(ttyPipe) < PipeCap
    /\ ttyIn' = ttyIn + 1
    /\ ttyPipe' = Append(ttyPipe, [dest |-> d, from |-> "tty", id |-> ttyIn + 1])
    /\ UNCHANGED <<bcastVars, bridgeVars, linuxPipe, linuxIn, clientIn, outVars>>

\* Nothing looks at the destination of what the kernel sends.
LinuxArrives ==
    /\ app # "closed" /\ linuxIn < MaxLinux /\ Len(linuxPipe) < PipeCap
    /\ linuxIn' = linuxIn + 1
    /\ linuxPipe' = Append(linuxPipe, [dest |-> "any", from |-> "linux", id |-> linuxIn + 1])
    /\ UNCHANGED <<bcastVars, bridgeVars, ttyPipe, ttyIn, clientIn, outVars>>

Next ==
    \/ OpenBegin \/ OpenSocket \/ OpenSocketFails \/ OpenFails \/ OpenEnd
    \/ CloseBegin \/ CloseEnd
    \/ Dispatch
    \/ \E c \in Clients : ClientStep(c) \/ ClientReads(c)
    \/ LinuxArrives
    \/ \E d \in TtyDests : TtyArrives(d)

Spec == Init /\ [][Next]_vars

\* The dispatch thread is scheduled, epoll does not fail for ever, and a join that
\* can return does.
DispatchFair == Spec /\ WF_vars(Dispatch) /\ SF_vars(PollReady) /\ WF_vars(CloseEnd)

\* In addition every client reads what it is sent.
ReadersFair == DispatchFair /\ \A c \in Clients : WF_vars(ClientReads(c))

-----------------------------------------------------------------------------
(* Properties.                                                             *)

\* No packet is in s twice or behind a later one of the same origin.
InOrder(s) ==
    \A j, k \in 1..Len(s) : j < k /\ s[j].from = s[k].from => s[j].id < s[k].id

\* Every variable has its type, the flag the dispatch thread polls is up exactly
\* while the bridge is open, and no pipe is overfilled.
BridgeTypeOK ==
    /\ app \in {"closed", "opening", "bound", "failed", "open", "closing"}
    /\ running = (app = "open")
    /\ pc \in {"none", "top", "poll", "bcast", "linux", "tty", "sending", "exited"}
    /\ ready \subseteq {"bcast", "linux", "tty"}
    /\ ttyIn \in 0..MaxTty /\ linuxIn \in 0..MaxLinux /\ clientIn \in 0..MaxClient
    /\ Len(ttyPipe) <= PipeCap /\ Len(linuxPipe) <= PipeCap

\* Each packet takes the one route its destination byte says, once and in order:
\* what came in over the serial line reaches the kernel only if it is addressed to
\* an EID and a client only if it is a broadcast; no unicast of a client goes out;
\* and no port sees a packet twice or overtaken by a later one of the same origin.
\* This is what the code does, and not what mctp-bridge/README.md:45 says of a
\* response to a client's broadcast: addressed to an EID, it is the kernel's too.
Routing ==
    /\ \A k \in 1..Len(toLinux) : toLinux[k].dest \in {"uni", "reply"}
    /\ \A k \in 1..Len(toBcast) : toBcast[k].dest = "bcast"
    /\ \A k \in 1..Len(toTty) : toTty[k].from \in Clients => toTty[k].dest \in {"bcast", "one"}
    /\ InOrder(toLinux) /\ InOrder(toBcast) /\ InOrder(toTty)

\* The dispatch thread works only on sockets that are open: it exists exactly from
\* open() to the join in close(), and recvMessage()/sendMessage() find the client
\* that epoll saw, or one that has left, but never none.
DispatchOnOpenPorts ==
    /\ pc # "none" <=> app \in {"open", "closing"}
    /\ pc # "none" => fdOwner[listenFd] = "listen"
    /\ pc = "sending" \/ (pc = "bcast" /\ "bcast" \in ready)
          => isConnected /\ fdOwner[connFd] = "conn"

\* A packet of the kernel that waits in its pipe reaches the serial line unless the
\* bridge is closed first, however busy the other two ports are.
KernelTrafficFlows ==
    \A id \in 1..MaxLinux :
       (\E k \in 1..Len(linuxPipe) : linuxPipe[k].id = id)
          ~> (app # "open" \/ \E k \in 1..Len(toTty) : toTty[k].from = "linux" /\ toTty[k].id = id)

\* A client that has left gives its place up, so that the next one is accepted.
DisconnectNoticed ==
    \A c \in Clients : peer = c /\ Gone(c) ~> peer # c

\* close() returns (README: "clean shutdown").
CloseReturns == app = "closing" ~> app = "closed"
=============================================================================
