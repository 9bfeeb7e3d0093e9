----------------------------- MODULE MctpFramer -----------------------------
(***************************************************************************)
(* One MctpFramer object: the caller's thread (open, openFd, close,        *)
(* receive), the receive thread that runs run(), and the kernel objects    *)
(* they share.  The serial line is open: any byte may arrive at any time,  *)
(* so everything shown here holds for line noise and for any peer.         *)
(*                                                                         *)
(* A file descriptor is a BOOLEAN, TRUE while it is >= 0 (the port is      *)
(* never descriptor 0, which is standard input: open() tests it for > 0).  *)
(* The receive state machine is that of MctpFramerRx; note that neither    *)
(* open() nor close() resets it.                                           *)
(***************************************************************************)
EXTENDS MctpFramerRx

CONSTANTS
    Inputs(_),   \* bytes that may arrive, by state of the receiver
    Faults,      \* system calls that may fail
    MaxRx        \* bound on rx_in_progress (a frame of length byte 0 never ends)

ASSUME InputsAssumption == \A s \in RxStates : Inputs(s) \subseteq Byte
ASSUME FaultsAssumption == Faults \subseteq {"socketpair", "pipe", "serial", "termios", "dup", "epoll", "epoll_ctl"}
ASSUME MaxRxAssumption == MaxRx \in Nat

VARIABLES
    serial_fd, pipe_fds, intr_pipe_fds, ready_fd_dup, epoll_fd,
    watched,     \* what epoll_ctl() has put in the epoll set
    running,     \* the atomic flag the receive thread polls
    thread,      \* where the receive thread is, "none" when there is none
    events,      \* what the last epoll_wait returned and run() has not handled
    wakeups,     \* bytes in the interrupt pipe
    caller,      \* "idle", or "joining" inside close()
    waitForJoin, \* close()'s wait_for_join
    ret          \* what the last open()/openFd() returned

fdVars == <<serial_fd, pipe_fds, intr_pipe_fds, ready_fd_dup, epoll_fd, watched>>
threadVars == <<thread, events, wakeups>>
callerVars == <<caller, waitForJoin, ret>>
vars == <<rxVars, pipe, fdVars, running, threadVars, callerVars>>

Sources == {"serial", "intr"}

Threads == {"none", "top", "poll", "events", "exited"}

FramerInit ==
    /\ RxInit
    /\ serial_fd = FALSE /\ pipe_fds = FALSE /\ intr_pipe_fds = FALSE
    /\ ready_fd_dup = FALSE /\ epoll_fd = FALSE /\ watched = {}
    /\ running = FALSE
    /\ thread = "none" /\ events = <<>> /\ wakeups = 0
    /\ caller = "idle" /\ waitForJoin = FALSE /\ ret = "none"

-----------------------------------------------------------------------------
(* open() and openFd().  They run the same steps; open() also configures   *)
(* the port, and reports a failed ::open as false, that is 0.              *)

Entry == {"open", "openFd"}

OpenReturns(value) ==
    /\ caller = "idle"
    /\ ret' = value
    /\ UNCHANGED <<caller, waitForJoin>>

\* The framer is open already, or openFd() is given a negative descriptor.
OpenRefused(entry) ==
    /\ serial_fd \/ entry = "openFd"
    /\ OpenReturns("-1")
    /\ UNCHANGED <<rxVars, pipe, fdVars, running, threadVars>>

OpenFailsSocketpair ==
    /\ ~serial_fd /\ ~pipe_fds /\ "socketpair" \in Faults
    /\ OpenReturns("-1")
    /\ UNCHANGED <<rxVars, pipe, fdVars, running, threadVars>>

\* The socketpair, new or kept from an earlier attempt, is closed with its packets.
OpenFailsPipe ==
    /\ ~serial_fd /\ ~intr_pipe_fds /\ "pipe" \in Faults
    /\ OpenReturns("-1")
    /\ pipe_fds' = FALSE /\ pipe' = <<>>
    /\ UNCHANGED <<rxVars, serial_fd, intr_pipe_fds, ready_fd_dup, epoll_fd, watched,
                   running, threadVars>>

\* Both pipes stay for the next attempt when the port cannot be had or configured.
OpenFailsPort(value) ==
    /\ ~serial_fd
    /\ OpenReturns(value)
    /\ pipe_fds' = TRUE /\ intr_pipe_fds' = TRUE
    /\ UNCHANGED <<rxVars, pipe, serial_fd, ready_fd_dup, epoll_fd, watched, running, threadVars>>

OpenFailsSerial(entry) ==
    /\ "serial" \in Faults
    /\ OpenFailsPort(IF entry = "open" THEN "0" ELSE "-1")

OpenFailsTermios ==
    /\ "termios" \in Faults
    /\ OpenFailsPort("-1")

\* Each of the two epoll_ctl() calls may fail by itself.
Registered ==
    IF "epoll_ctl" \in Faults THEN SUBSET Sources ELSE {Sources}

\* A failed dup() of the ready fd, epoll_create1() or epoll_ctl() goes unreported.
OpenSucceeds ==
    /\ ~serial_fd
    /\ OpenReturns("fd")
    /\ serial_fd' = TRUE /\ pipe_fds' = TRUE /\ intr_pipe_fds' = TRUE
    /\ ready_fd_dup' \in {TRUE} \cup {d \in {FALSE} : "dup" \in Faults}
    /\ epoll_fd' \in {TRUE} \cup {e \in {FALSE} : "epoll" \in Faults}
    /\ IF epoll_fd' THEN watched' \in Registered ELSE watched' = {}
    /\ running' = TRUE
    /\ thread' = "top" /\ events' = <<>>
    /\ UNCHANGED <<rxVars, pipe, wakeups>>

Open ==
    \/ \E entry \in Entry : OpenRefused(entry)
    \/ OpenFailsSocketpair
    \/ OpenFailsPipe
    \/ \E entry \in Entry : OpenFailsSerial(entry)
    \/ OpenFailsTermios
    \/ OpenSucceeds

-----------------------------------------------------------------------------
(* close(): clear running, wake the thread, join it, close every fd.       *)

\* Seeded fault: the port is closed before the thread is joined.
CloseBeginEarly ==
    /\ caller = "idle"
    /\ caller' = "joining"
    /\ waitForJoin' = running
    /\ running' = FALSE
    /\ wakeups' = IF intr_pipe_fds THEN wakeups + 1 ELSE wakeups
    /\ ret' = "none"
    /\ serial_fd' = FALSE
    /\ UNCHANGED <<rxVars, pipe, pipe_fds, intr_pipe_fds, ready_fd_dup, epoll_fd, watched,
                   thread, events>>

CloseBegin ==
    /\ caller = "idle"
    /\ caller' = "joining"
    /\ waitForJoin' = running
    /\ running' = FALSE
    /\ wakeups' = IF intr_pipe_fds THEN wakeups + 1 ELSE wakeups
    /\ ret' = "none"
    /\ UNCHANGED <<rxVars, pipe, fdVars, thread, events>>

Joined == waitForJoin => thread \in {"none", "exited"}

CloseEnd ==
    /\ caller = "joining"
    /\ Joined
    /\ caller' = "idle" /\ waitForJoin' = FALSE
    /\ thread' = IF waitForJoin THEN "none" ELSE thread
    /\ serial_fd' = FALSE /\ pipe_fds' = FALSE /\ intr_pipe_fds' = FALSE
    /\ ready_fd_dup' = FALSE /\ epoll_fd' = FALSE /\ watched' = {}
    /\ pipe' = <<>> /\ wakeups' = 0
    /\ UNCHANGED <<rxVars, running, events, ret>>

\* The caller fetches a packet; receive() asks only whether the pipe is there.
Receive ==
    /\ caller = "idle" /\ pipe_fds
    /\ receive
    /\ UNCHANGED <<fdVars, running, threadVars, callerVars>>

-----------------------------------------------------------------------------
(* run(): the receive thread.                                              *)

threadFrame == UNCHANGED <<fdVars, running, callerVars>>

\* Seeded fault: the loop does not look at running.
LoopTopForever ==
    /\ thread = "top"
    /\ thread' = "poll"
    /\ UNCHANGED <<rxVars, pipe, events, wakeups>> /\ threadFrame

LoopTop ==
    /\ thread = "top"
    /\ thread' = IF running THEN "poll" ELSE "exited"
    /\ UNCHANGED <<rxVars, pipe, events, wakeups>> /\ threadFrame

\* epoll_wait on fd -1 fails with EBADF and ends the thread.
PollFails ==
    /\ thread = "poll" /\ ~epoll_fd
    /\ thread' = "exited"
    /\ UNCHANGED <<rxVars, pipe, events, wakeups>> /\ threadFrame

\* Seeded fault: a timeout ends the loop like an error.
PollTimeoutBreaks ==
    /\ thread = "poll" /\ epoll_fd
    /\ thread' = "exited"
    /\ UNCHANGED <<rxVars, pipe, events, wakeups>> /\ threadFrame

\* A timeout or EINTR.
PollTimeout ==
    /\ thread = "poll" /\ epoll_fd
    /\ thread' = "top"
    /\ UNCHANGED <<rxVars, pipe, events, wakeups>> /\ threadFrame

EventLists == {<<"serial">>, <<"intr">>, <<"serial", "intr">>, <<"intr", "serial">>}

\* A watched interrupt pipe is reported exactly when it holds a byte.
PollWakes ==
    /\ thread = "poll" /\ epoll_fd
    /\ \E list \in EventLists :
          /\ \A k \in 1..Len(list) : list[k] \in watched
          /\ (\E k \in 1..Len(list) : list[k] = "intr") <=> wakeups > 0 /\ "intr" \in watched
          /\ events' = list
    /\ thread' = "events"
    /\ UNCHANGED <<rxVars, pipe, wakeups>> /\ threadFrame

NextEvent ==
    /\ events' = Tail(events)
    /\ thread' = IF Len(events) = 1 THEN "top" ELSE "events"

\* The interrupt pipe is drained; a cleared running flag abandons the other events.
HandleIntr ==
    /\ thread = "events" /\ Head(events) = "intr"
    /\ wakeups' = 0
    /\ IF running THEN NextEvent ELSE events' = <<>> /\ thread' = "top"
    /\ UNCHANGED <<rxVars, pipe>> /\ threadFrame

\* read() returns one byte.
HandleSerial(by) ==
    /\ thread = "events" /\ Head(events) = "serial"
    /\ Len(rx_in_progress) < MaxRx \/ by = FRAME_CHAR \/ rxState \in {"WAITING_FOR_SYNC", "END"}
    /\ updateRxFSM(by)
    /\ NextEvent
    /\ UNCHANGED wakeups /\ threadFrame

\* Seeded fault: the result of read() is not checked, and -1 taken for a byte.
HandleNoByteUnchecked ==
    /\ thread = "events" /\ Head(events) = "serial"
    /\ Len(rx_in_progress) < MaxRx
    /\ updateRxFSM(-1)
    /\ NextEvent
    /\ UNCHANGED wakeups /\ threadFrame

\* read() returns nothing: end of file, a hang-up, or the byte is gone.
HandleNoByte ==
    /\ thread = "events" /\ Head(events) = "serial"
    /\ NextEvent
    /\ UNCHANGED <<rxVars, pipe, wakeups>> /\ threadFrame

RecvThread ==
    \/ LoopTop
    \/ PollFails
    \/ PollTimeout
    \/ PollWakes
    \/ HandleIntr
    \/ \E by \in Inputs(rxState) : HandleSerial(by)
    \/ HandleNoByte

Next == Open \/ CloseBegin \/ CloseEnd \/ Receive \/ RecvThread

Spec == FramerInit /\ [][Next]_vars

\* The scheduler runs the receive thread, and close() returns from a join that
\* can return.  Nobody is obliged to open, close or receive.
FairSpec == Spec /\ WF_vars(RecvThread) /\ WF_vars(CloseEnd)

-----------------------------------------------------------------------------
(* Properties.                                                             *)

\* Every variable has its type.
TypeOK ==
    /\ RxTypeOK
    /\ serial_fd \in BOOLEAN /\ pipe_fds \in BOOLEAN /\ intr_pipe_fds \in BOOLEAN
    /\ ready_fd_dup \in BOOLEAN /\ epoll_fd \in BOOLEAN /\ watched \subseteq Sources
    /\ running \in BOOLEAN
    /\ thread \in Threads
    /\ events \in {<<>>} \cup EventLists
    /\ wakeups \in Nat
    /\ caller \in {"idle", "joining"} /\ waitForJoin \in BOOLEAN
    /\ ret \in {"none", "-1", "0", "fd"}

\* The receive thread, while it can still touch a descriptor, finds all of them
\* open, and open() never starts a second thread over a joinable one (which would
\* be std::terminate): close() joins before it closes anything.
ThreadOwnsFds ==
    /\ thread \in {"top", "poll", "events"} => serial_fd /\ pipe_fds /\ intr_pipe_fds
    /\ caller = "idle" /\ ~serial_fd => thread = "none"

\* An open framer that does not hear the line was deaf from the start, for one of
\* two reasons that open() does not report: there was no epoll instance, or it did
\* not take the port.  Otherwise a thread that waits for the port is there: no
\* timeout, hang-up, garbage, unwatched interrupt pipe or stale wake-up of an
\* earlier close() ends it or takes the port from it.
DeafOnlyFromTheStart ==
    caller = "idle" /\ serial_fd =>
        \/ ~epoll_fd /\ "epoll" \in Faults
        \/ /\ epoll_fd /\ thread \in {"top", "poll", "events"}
           /\ "serial" \in watched \/ "epoll_ctl" \in Faults

\* close() returns: the interrupt byte or the cleared flag ends the thread
\* whatever the line does.
CloseReturns == caller = "joining" ~> caller = "idle"
=============================================================================
