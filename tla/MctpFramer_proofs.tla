------------------------- MODULE MctpFramer_proofs -------------------------
(***************************************************************************)
(* The invariants of MctpFramer for every behaviour of the line, of the    *)
(* caller and of the system calls, and for every FCS and pipe capacity.    *)
(*                                                                         *)
(* The inductive invariant adds to the stated properties what ties the     *)
(* thread to the running flag: outside close() the flag is up exactly      *)
(* while there is a thread to join, and close() remembers it in            *)
(* wait_for_join before it clears it.                                      *)
(***************************************************************************)
EXTENDS MctpFramer, MctpFramerRx_proofs

ThreadInv ==
    /\ thread # "none" => serial_fd /\ pipe_fds /\ intr_pipe_fds
    /\ serial_fd => thread # "none"
    /\ caller = "idle" => (running <=> thread # "none")
    /\ caller = "joining" => ~running /\ (waitForJoin <=> thread # "none")
    /\ thread = "events" => events \in EventLists
    /\ thread = "exited" /\ caller = "idle" => ~epoll_fd
    /\ thread # "none" /\ ~epoll_fd => "epoll" \in Faults
    /\ thread # "none" /\ epoll_fd /\ "serial" \notin watched => "epoll_ctl" \in Faults

FramerInv == TypeOK /\ RxInv /\ ThreadInv

\* What the lemmas on the receiver need of a step that leaves it alone.
LEMMA RxUnchanged ==
    ASSUME RxInv, UNCHANGED <<rxVars, pipe>> PROVE RxInv'
BY DEF rxVars, RxInv, RxTypeOK, FrameLength, PacketsBounded, Declared

\* Handling the first event of a list leaves a list of events.
LEMMA NextEventTypes ==
    ASSUME events \in EventLists, NextEvent
    PROVE  /\ events' \in {<<>>} \cup EventLists
           /\ thread' \in {"top", "events"}
           /\ thread' = "events" => events' \in EventLists
<1>1. ASSUME NEW e \in {"serial", "intr"}, events = <<e>>
      PROVE  events' = <<>> /\ thread' = "top"
  BY <1>1 DEF NextEvent
<1>2. ASSUME NEW d \in {"serial", "intr"}, NEW e \in {"serial", "intr"}, events = <<d, e>>
      PROVE  events' = <<e>> /\ thread' = "events"
  BY <1>2 DEF NextEvent
<1> QED BY <1>1, <1>2 DEF EventLists

LEMMA FramerInitInv == FramerInit => FramerInv
<1> SUFFICES ASSUME FramerInit PROVE FramerInv
  OBVIOUS
<1>1. RxInv
  BY RxInitInv DEF FramerInit
<1> QED BY <1>1 DEF FramerInit, FramerInv, TypeOK, RxInv, ThreadInv, Threads

\* Every step of the framer, of either thread, keeps the invariant.
LEMMA FramerStep == FramerInv /\ [Next]_vars => FramerInv'
<1> SUFFICES ASSUME FramerInv, [Next]_vars PROVE FramerInv'
  OBVIOUS
<1> USE DEF FramerInv
<1>1. ASSUME NEW entry \in Entry, OpenRefused(entry) PROVE FramerInv'
  <2>1. RxInv'
    BY <1>1, RxUnchanged DEF OpenRefused
  <2> QED BY <1>1, <2>1 DEF OpenRefused, OpenReturns, TypeOK, RxInv, ThreadInv, fdVars, threadVars
<1>2. CASE OpenFailsSocketpair
  <2>1. RxInv'
    BY <1>2, RxUnchanged DEF OpenFailsSocketpair
  <2> QED BY <1>2, <2>1 DEF OpenFailsSocketpair, OpenReturns, TypeOK, RxInv, ThreadInv, fdVars, threadVars
<1>3. CASE OpenFailsPipe
  <2>1. RxInv'
    BY <1>3, ClearPipeInv DEF OpenFailsPipe
  <2> QED BY <1>3, <2>1 DEF OpenFailsPipe, OpenReturns, TypeOK, RxInv, ThreadInv, threadVars
<1>4. ASSUME NEW value \in {"-1", "0"}, OpenFailsPort(value) PROVE FramerInv'
  <2>1. RxInv'
    BY <1>4, RxUnchanged DEF OpenFailsPort
  <2> QED BY <1>4, <2>1 DEF OpenFailsPort, OpenReturns, TypeOK, RxInv, ThreadInv, threadVars
<1>5. CASE OpenSucceeds
  <2>1. RxInv'
    BY <1>5, RxUnchanged DEF OpenSucceeds
  <2>2. watched' \subseteq Sources /\ (epoll_fd' /\ "serial" \notin watched' => "epoll_ctl" \in Faults)
    BY <1>5 DEF OpenSucceeds, Registered, Sources
  <2>3. epoll_fd' \in BOOLEAN /\ (~epoll_fd' => "epoll" \in Faults)
    BY <1>5 DEF OpenSucceeds
  <2> QED BY <1>5, <2>1, <2>2, <2>3 DEF OpenSucceeds, OpenReturns, TypeOK, RxInv, ThreadInv, Threads
<1>6. CASE Open
  BY <1>1, <1>2, <1>3, <1>4, <1>5, <1>6 DEF Open, OpenFailsSerial, OpenFailsTermios
<1>7. CASE CloseBegin
  <2>1. RxInv'
    BY <1>7, RxUnchanged DEF CloseBegin
  <2>2. wakeups' \in Nat
    BY <1>7, SMT DEF CloseBegin, TypeOK
  <2>3. running' = FALSE /\ waitForJoin' = running /\ caller' = "joining" /\ ret' = "none"
    BY <1>7 DEF CloseBegin
  <2>4. UNCHANGED <<serial_fd, pipe_fds, intr_pipe_fds, ready_fd_dup, epoll_fd, watched, thread, events>>
    BY <1>7 DEF CloseBegin, fdVars
  <2>5. TypeOK'
    BY <2>1, <2>2, <2>3, <2>4 DEF TypeOK, RxInv
  <2>6. running <=> thread # "none"
    BY <1>7 DEF CloseBegin, ThreadInv
  <2>7. ThreadInv'
    BY <2>3, <2>4, <2>6 DEF ThreadInv
  <2> QED BY <2>1, <2>5, <2>7
<1>8. CASE CloseEnd
  <2>1. RxInv'
    BY <1>8, ClearPipeInv DEF CloseEnd
  <2> QED BY <1>8, <2>1 DEF CloseEnd, Joined, TypeOK, RxInv, ThreadInv, Threads
<1>9. CASE Receive
  <2>1. RxInv'
    BY <1>9, ReceiveInv DEF Receive
  <2> QED BY <1>9, <2>1 DEF Receive, TypeOK, RxInv, ThreadInv, fdVars, threadVars, callerVars
<1>10. CASE RecvThread
  <2> USE DEF threadFrame
  <2>1. CASE LoopTop \/ PollFails \/ PollTimeout
    <3>1. RxInv'
      BY <2>1, RxUnchanged DEF LoopTop, PollFails, PollTimeout
    <3> QED BY <2>1, <3>1 DEF LoopTop, PollFails, PollTimeout, TypeOK, RxInv, ThreadInv,
                              Threads, fdVars, callerVars
  <2>2. CASE PollWakes
    <3>1. RxInv'
      BY <2>2, RxUnchanged DEF PollWakes
    <3>2. events' \in EventLists
      BY <2>2 DEF PollWakes
    <3> QED BY <2>2, <3>1, <3>2 DEF PollWakes, TypeOK, RxInv, ThreadInv, Threads, fdVars, callerVars
  <2>3. CASE HandleIntr
    <3>1. RxInv'
      BY <2>3, RxUnchanged DEF HandleIntr
    <3>2. /\ events' \in {<<>>} \cup EventLists
          /\ thread' \in {"top", "events"}
          /\ thread' = "events" => events' \in EventLists
      BY <2>3, NextEventTypes DEF HandleIntr, ThreadInv
    <3> QED BY <2>3, <3>1, <3>2 DEF HandleIntr, TypeOK, RxInv, ThreadInv, Threads, fdVars, callerVars
  <2>4. ASSUME NEW by \in Inputs(rxState), HandleSerial(by) PROVE FramerInv'
    <3>1. by \in Byte
      BY <2>4, InputsAssumption DEF TypeOK, RxTypeOK
    <3>2. RxInv'
      BY <2>4, <3>1, UpdateRxInv DEF HandleSerial
    <3>3. /\ events' \in {<<>>} \cup EventLists
          /\ thread' \in {"top", "events"}
          /\ thread' = "events" => events' \in EventLists
      BY <2>4, NextEventTypes DEF HandleSerial, ThreadInv
    <3> QED BY <2>4, <3>2, <3>3 DEF HandleSerial, TypeOK, RxInv, ThreadInv, Threads, fdVars, callerVars
  <2>5. CASE HandleNoByte
    <3>1. RxInv'
      BY <2>5, RxUnchanged DEF HandleNoByte
    <3>2. /\ events' \in {<<>>} \cup EventLists
          /\ thread' \in {"top", "events"}
          /\ thread' = "events" => events' \in EventLists
      BY <2>5, NextEventTypes DEF HandleNoByte, ThreadInv
    <3> QED BY <2>5, <3>1, <3>2 DEF HandleNoByte, TypeOK, RxInv, ThreadInv, Threads, fdVars, callerVars
  <2> QED BY <1>10, <2>1, <2>2, <2>3, <2>4, <2>5 DEF RecvThread
<1>11. CASE UNCHANGED vars
  <2>1. RxInv'
    BY <1>11, RxUnchanged DEF vars
  <2> QED BY <1>11, <2>1 DEF vars, TypeOK, RxInv, ThreadInv, fdVars, threadVars, callerVars
<1> QED BY <1>6, <1>7, <1>8, <1>9, <1>10, <1>11 DEF Next

\* The inductive invariant holds in every behaviour of a framer.
THEOREM FramerInvariant == Spec => []FramerInv
BY FramerInitInv, FramerStep, PTL DEF Spec

\* Type correctness of MctpFramer.
THEOREM FramerTypeOK == Spec => []TypeOK
<1>1. FramerInv => TypeOK
  BY DEF FramerInv
<1> QED BY <1>1, FramerInvariant, PTL

\* Whatever arrives on the line, buffer and byte_count agree with the length byte.
THEOREM FramerFrameLength == Spec => []FrameLength
<1>1. FramerInv => FrameLength
  BY DEF FramerInv, RxInv
<1> QED BY <1>1, FramerInvariant, PTL

\* Whatever arrives on the line, every packet in the pipe has 5 to 255 bytes.
THEOREM FramerPacketsBounded == Spec => []PacketsBounded
<1>1. FramerInv => PacketsBounded
  BY DEF FramerInv, RxInv
<1> QED BY <1>1, FramerInvariant, PTL

\* An open framer has a thread that waits for the port, unless epoll_create1() or
\* the epoll_ctl() for the port failed when it was opened.
THEOREM FramerDeafOnlyFromTheStart == Spec => []DeafOnlyFromTheStart
<1>1. FramerInv => DeafOnlyFromTheStart
  BY DEF FramerInv, ThreadInv, DeafOnlyFromTheStart, TypeOK, Threads
<1> QED BY <1>1, FramerInvariant, PTL

\* close() joins the receive thread before it closes what the thread uses.
THEOREM FramerThreadOwnsFds == Spec => []ThreadOwnsFds
<1>1. FramerInv => ThreadOwnsFds
  BY DEF FramerInv, ThreadInv, ThreadOwnsFds, TypeOK, Threads
<1> QED BY <1>1, FramerInvariant, PTL
=============================================================================
