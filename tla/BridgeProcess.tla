---------------------------- MODULE BridgeProcess ----------------------------
(***************************************************************************)
(* Bridge processes (mctp-bridge/src/mctp-bridge.cpp) on one machine, from *)
(* the command line to the exit: main() with its signal handlers, open()   *)
(* and close() of MctpBridge as far as they touch what the processes       *)
(* share, the destructors, and processes that die.  What they share is the *)
(* kernel's interfaces, of LinuxMctpSerial, and the directory of socket    *)
(* files /tmp/bcast_mctpserial<n>.sock of the broadcast ports.             *)
(*                                                                         *)
(* A bridge never asks for a name of its own: main() passes none to        *)
(* open(), and open() calls close() first, which clears the member that is *)
(* handed to initialize().                                                 *)
(*                                                                         *)
(* The dispatch thread is MctpBridge's subject and the worker of the USB   *)
(* forwarder ManagedUsbTty's.  Here main() waits for them in close(), and  *)
(* for the terminal in open(), and no fairness says that it gets back.     *)
(***************************************************************************)
EXTENDS LinuxMctpSerial

CONSTANTS
    Stale,       \* a socket file nobody listens on
    Tagged       \* processes started with --id-path-tag; the others with --tty

ASSUME ProcessAssumption == Stale \notin Procs \cup {None}

VARIABLES
    main,        \* how far main() has come, "out" when there is no process
    interrupted, \* the flag the signal handler sets
    closes,      \* calls of MctpBridge::close() that are still to be finished
    managedUsb,  \* whether there is a forwarder with its worker
    socketPath,  \* the path BcastMessenger remembers, as the number in it
    sockFile,    \* who listens behind each path: a process, Stale, or None if there is no file
    crowded      \* history: bridges that opened among others that were not settled

mainVars == <<main, interrupted, closes, managedUsb, socketPath, sockFile>>
processVars == <<vars, mainVars, crowded>>

ProcessInit ==
    /\ Init
    /\ main = [p \in Procs |-> "out"] /\ interrupted = [p \in Procs |-> FALSE]
    /\ closes = [p \in Procs |-> 0] /\ managedUsb = [p \in Procs |-> FALSE] /\ socketPath = [p \in Procs |-> None]
    /\ sockFile = [n \in Names |-> None]
    /\ crowded = {}

step(p, from, to) == main[p] = from /\ main' = [main EXCEPT ![p] = to]

-----------------------------------------------------------------------------
(* main() up to the loop.                                                  *)

\* parseArgs() accepts the options; a process whose options it rejects just ends.
Launch(p) ==
    /\ step(p, "out", "parsed")
    /\ UNCHANGED <<interrupted, closes, managedUsb, socketPath, sockFile, linuxVars>>

InstallHandlers(p) ==
    /\ step(p, "parsed", "open")
    /\ UNCHANGED <<interrupted, closes, managedUsb, socketPath, sockFile, linuxVars>>

\* open() of a fresh bridge: its close() finds nothing to do.  By --id-path-tag the
\* forwarder is started first.
OpenBegin(p) ==
    /\ step(p, "open", "linux") /\ Begin(p, None)
    /\ managedUsb' = [managedUsb EXCEPT ![p] = p \in Tagged]
    /\ UNCHANGED <<interrupted, closes, socketPath, sockFile>>

EndpointOpens(p) ==
    /\ main[p] = "linux" /\ Continues(p)
    /\ UNCHANGED mainVars

\* close() without a dispatch thread begins with the kernel endpoint.  It is called
\* n times: by a failed open() and by the destructor, or by the destructor alone.
Closing(p, from, n) ==
    /\ step(p, from, "closing") /\ CloseBegin(p)
    /\ closes' = [closes EXCEPT ![p] = n]
    /\ UNCHANGED <<interrupted, socketPath>>

\* A failed open() stops the forwarder, if there is one, before it closes the bridge.
OpenFails(p, from) ==
    /\ \/ ~managedUsb[p] /\ Closing(p, from, 2)
       \/ /\ managedUsb[p] /\ step(p, from, "failed")
          /\ UNCHANGED <<interrupted, closes, socketPath, linuxVars>>
    /\ UNCHANGED managedUsb

\* The worker is joined.
UsbStops(p) ==
    /\ Closing(p, "failed", 2)
    /\ managedUsb' = [managedUsb EXCEPT ![p] = FALSE]
    /\ UNCHANGED sockFile

\* initialize() has cleaned up and throws.
EndpointFails(p) ==
    /\ pc[p] = "idle" /\ OpenFails(p, "linux")
    /\ UNCHANGED sockFile

\* Seeded fault: the path is not remembered, so that no close() can remove the file.
SocketOpensUnremembered(p) ==
    /\ pc[p] = "up" /\ step(p, "linux", "device")
    /\ sockFile' = [sockFile EXCEPT ![mctp_if_name[p]] = p]
    /\ UNCHANGED <<interrupted, closes, managedUsb, socketPath, linuxVars>>

\* bcast->open(): whatever file has the name is removed, and bind() makes a new one.
SocketOpens(p) ==
    /\ pc[p] = "up" /\ step(p, "linux", "device")
    /\ sockFile' = [sockFile EXCEPT ![mctp_if_name[p]] = p]
    /\ socketPath' = [socketPath EXCEPT ![p] = mctp_if_name[p]]
    /\ UNCHANGED <<interrupted, closes, managedUsb, linuxVars>>

\* Seeded fault: a file that is already there is not removed first, and bind() refuses.
SocketFailsInUse(p) ==
    /\ pc[p] = "up" /\ OpenFails(p, "linux")
    /\ <<p, "socket">> \in Faults \/ sockFile[mctp_if_name[p]] # None
    /\ UNCHANGED sockFile

\* socket() fails, or bind() after the old file is gone, or listen() after the new
\* one is there.  The path is not remembered.
SocketFails(p) ==
    /\ <<p, "socket">> \in Faults
    /\ pc[p] = "up" /\ OpenFails(p, "linux")
    /\ \E file \in {sockFile[mctp_if_name[p]], None, Stale} :
          sockFile' = [sockFile EXCEPT ![mctp_if_name[p]] = file]

\* The serial port is open and the dispatch thread runs.
DeviceOpens(p) ==
    /\ step(p, "device", "loop")
    /\ UNCHANGED <<interrupted, closes, managedUsb, socketPath, sockFile, linuxVars>>

\* The forwarder cannot be started.
UsbFails(p) ==
    /\ p \in Tagged /\ <<p, "device">> \in Faults
    /\ OpenFails(p, "open")
    /\ UNCHANGED sockFile

\* The terminal cannot be opened or configured, or no framer attached.
DeviceFails(p) ==
    /\ <<p, "device">> \in Faults
    /\ OpenFails(p, "device")
    /\ UNCHANGED sockFile

-----------------------------------------------------------------------------
(* The way out.                                                            *)

\* Seeded fault: the test is inverted.
LoopEndsUnlessInterrupted(p) ==
    /\ ~interrupted[p]
    /\ step(p, "loop", "joining")
    /\ UNCHANGED <<interrupted, closes, managedUsb, socketPath, sockFile, linuxVars>>

\* The loop looks at the flag every 100 ms.  The destructor closes the bridge, and
\* close() tells the dispatch thread to end.
LoopEnds(p) ==
    /\ interrupted[p]
    /\ step(p, "loop", "joining")
    /\ UNCHANGED <<interrupted, closes, managedUsb, socketPath, sockFile, linuxVars>>

\* The dispatch thread is joined.
DispatchJoined(p) ==
    /\ Closing(p, "joining", 1)
    /\ UNCHANGED <<managedUsb, sockFile>>

EndpointCloses(p) ==
    /\ main[p] \in {"closing", "members"} /\ close(p)
    /\ UNCHANGED mainVars

\* unlink() of the path the messenger remembers, whoever has it by now.
Unlinked(p) == [n \in Names |-> IF n = socketPath[p] THEN None ELSE sockFile[n]]

\* Once the endpoint and the framer are closed, close() waits for the worker.
UsbCloses(p) ==
    /\ main[p] = "closing" /\ pc[p] = "idle" /\ managedUsb[p]
    /\ managedUsb' = [managedUsb EXCEPT ![p] = FALSE]
    /\ UNCHANGED <<main, interrupted, closes, socketPath, sockFile, linuxVars>>

\* close() ends with the socket file.  There may be another close().
CloseEnds(p) ==
    /\ pc[p] = "idle" /\ ~managedUsb[p]
    /\ \/ closes[p] = 2 /\ step(p, "closing", "closing") /\ CloseBegin(p)
       \/ closes[p] = 1 /\ step(p, "closing", "destroyed") /\ UNCHANGED linuxVars
    /\ closes' = [closes EXCEPT ![p] = @ - 1]
    /\ sockFile' = Unlinked(p)
    /\ UNCHANGED <<interrupted, managedUsb, socketPath>>

\* ~MctpBridge() is done and its members follow: the broadcast port removes the
\* file once more, the endpoint closes once more.
DestroyMembers(p) ==
    /\ step(p, "destroyed", "members") /\ CloseBegin(p)
    /\ sockFile' = Unlinked(p)
    /\ UNCHANGED <<interrupted, closes, managedUsb, socketPath>>

\* The memory of a process that is gone.
Forget(p) ==
    /\ main' = [main EXCEPT ![p] = "out"] /\ interrupted' = [interrupted EXCEPT ![p] = FALSE]
    /\ closes' = [closes EXCEPT ![p] = 0] /\ managedUsb' = [managedUsb EXCEPT ![p] = FALSE]
    /\ socketPath' = [socketPath EXCEPT ![p] = None]
    /\ mctp_if_name' = [mctp_if_name EXCEPT ![p] = None]
    /\ warned' = warned \ {p}

Exit(p) ==
    /\ main[p] = "members" /\ pc[p] = "idle"
    /\ Forget(p)
    /\ UNCHANGED <<sockFile, pc, wanted, before, round, framer, kernel>>

-----------------------------------------------------------------------------
(* Signals and death.                                                      *)

signalHandler(p) ==
    /\ main[p] \notin {"out", "parsed"}
    /\ interrupted' = [interrupted EXCEPT ![p] = TRUE]
    /\ UNCHANGED <<main, closes, managedUsb, socketPath, sockFile, linuxVars>>

\* SIGKILL at any time, SIGINT or SIGTERM before it has a handler, or accept()
\* fails on the dispatch thread and nobody catches the exception.  The kernel
\* closes the descriptors, and with them the interface; the file stays.
Die(p) ==
    /\ main[p] # "out"
    /\ Forget(p)
    /\ pc' = [pc EXCEPT ![p] = "idle"] /\ LeaveScan(p) /\ framer' = [framer EXCEPT ![p] = FALSE]
    /\ Released(p)
    /\ sockFile' = [n \in Names |-> IF sockFile[n] = p THEN Stale ELSE sockFile[n]]

-----------------------------------------------------------------------------
\* What a bridge does by itself.
Run(p) ==
    \/ InstallHandlers(p)
    \/ OpenBegin(p) \/ EndpointOpens(p) \/ EndpointFails(p)
    \/ SocketOpens(p) \/ SocketFails(p) \/ UsbFails(p) \/ DeviceOpens(p) \/ DeviceFails(p)
    \/ UsbStops(p) \/ LoopEnds(p) \/ DispatchJoined(p) \/ EndpointCloses(p) \/ UsbCloses(p)
    \/ CloseEnds(p) \/ DestroyMembers(p) \/ Exit(p)

\* main() is inside a call that may never return: the open of a terminal, which may
\* wait for a carrier; the join of the dispatch thread, which may be in send() to a
\* client that does not read (the run bridge_close); or that of the worker, which may
\* be in one of its EAGAIN loops (Stuck of ManagedUsbTty).
Blocked(p) ==
    \/ main[p] = "device" /\ ~managedUsb[p]
    \/ main[p] = "joining"
    \/ main[p] = "failed"
    \/ main[p] = "closing" /\ pc[p] = "idle" /\ managedUsb[p]

\* A bridge that closes, dies, or goes by a name that may not be its own.
Unsettled(q) ==
    \/ main'[q] \in {"closing", "destroyed", "members"}
    \/ main[q] # "out" /\ main'[q] = "out"
    \/ q \in disturbed' \cup crowded

Watch ==
    /\ Observe
    /\ crowded' = {p \in Procs :
         \/ p \in crowded /\ main'[p] # "out"
         \/ p \in disturbed' /\ main'[p] = "linux"
         \/ main'[p] = "linux" /\ \E q \in Procs \ {p} : Unsettled(q)}

BridgeStep(p) == Run(p) /\ Watch
Outside(p) == (Launch(p) \/ signalHandler(p) \/ Die(p)) /\ Watch

ProcessNext ==
    \E p \in Procs : BridgeStep(p) \/ Outside(p)

\* A process that is alive is scheduled and the kernel answers it; nothing is said of
\* the calls that wait for others.
ProcessSpec ==
    /\ ProcessInit /\ [][ProcessNext]_processVars
    /\ \A p \in Procs : WF_<<mainVars, linuxVars>>(~Blocked(p) /\ Run(p))

-----------------------------------------------------------------------------
(* Properties.                                                             *)

\* A client finds a running bridge: the file named after its interface leads to it,
\* and no crash, failed start or orderly exit of another process takes it away.
ServedIfUncrowded ==
    \A p \in Procs \ crowded :
       main[p] \in {"device", "loop", "joining"} => GoesByOwnName(p) /\ sockFile[mctp_if_name[p]] = p

\* Whatever crashed processes have left behind, a bridge starts unless a call fails
\* for itself or it has company.
StartsUnlessHindered ==
    \A p \in Procs \ crowded :
       main[p] = "failed" \/ (main[p] = "closing" /\ closes[p] = 2)
       => \E what \in {"pty", "ldisc", "framer", "socket", "device"} : <<p, what>> \in Faults

\* A process that is gone holds nothing, whichever way main() was left and however
\* many times its objects were closed: no interface, no framer, no listening socket.
ExitLeavesNothing ==
    \A p \in Procs : main[p] = "out" =>
       /\ pc[p] = "idle" /\ ~framer[p]
       /\ \A n \in Names : iface[n] # p /\ sockFile[n] # p

\* "Press Ctrl-C to exit": a signal at any moment after the handlers are there ends
\* the process, unless main() stays for good in one of the calls that wait for a
\* carrier, a client or the device.  No other place of open(), of the loop or of the
\* repeated close() holds it up.
SignalEnds ==
    \A p \in Procs : [](interrupted[p] => <>(main[p] = "out" \/ []Blocked(p)))
=============================================================================
