---------------------------- MODULE MctpFramerRx ----------------------------
(***************************************************************************)
(* The receive half of MctpFramer (libsermctp/src/MctpFramer.cpp): the     *)
(* state machine that updateRxFSM() drives with one byte per call, the     *)
(* validation of a finished frame and the SEQPACKET socketpair on which    *)
(* validated packets wait for receive().                                   *)
(*                                                                         *)
(* The frame layout is that of send(), transmitFrame() and buildWire():    *)
(*                                                                         *)
(*    7E  01  len  payload (7D and 7E escaped)  fcs_hi  fcs_lo  7E         *)
(*                                                                         *)
(* FCS is calcFcs(INITFCS, _).  It is a parameter because nothing that is  *)
(* stated here depends on which checksum it is; module MctpCodec defines   *)
(* the real one, and the MC modules that need it plug it in.               *)
(***************************************************************************)
EXTENDS Integers, Sequences

CONSTANTS
    FCS(_),      \* calcFcs(INITFCS, bytes)
    PipeCap      \* packets the socketpair holds before ::send returns EAGAIN

ASSUME PipeCapAssumption == PipeCap \in Nat \ {0}

VARIABLES
    rxState,         \* enum dataTransmission
    rx_in_progress,  \* bytes of the frame being received, the flag included
    byte_count,      \* payload bytes still expected (an int: it may go below 0)
    pipe             \* packets between pipe_fds[1] and pipe_fds[0]

rxVars == <<rxState, rx_in_progress, byte_count>>

Byte == 0..255
FRAME_CHAR == 126
ESCAPE_CHAR == 125
SERIAL_REV == 1
EscapeShift == 32

\* The shortest frame validateRx() accepts and the shortest packet that is
\* handed on: 11 bytes on the line carry 5 bytes of payload.
MinFrame == 11
MinPacket == 5

\* The value calcFcs returns is a uint16_t.
fcs16(bytes) == IF FCS(bytes) \in Nat /\ FCS(bytes) < 65536 THEN FCS(bytes) ELSE 0

-----------------------------------------------------------------------------
(* Pure parts.                                                             *)

\* full_msg as send() and buildWire() lay it out, before escaping.  The length
\* byte is (uint8_t)msg.size().
FullMsg(msg) ==
    LET body == <<SERIAL_REV, Len(msg) % 256>> \o msg
        fcs  == fcs16(body)
    IN  <<FRAME_CHAR>> \o body \o <<fcs \div 256, fcs % 256, FRAME_CHAR>>

\* Seeded fault: the FCS is not compared.
validateRxNoFcs(rx) == Len(rx) >= MinFrame /\ rx[3] = Len(rx) - 6

\* What validateRx() decides about a buffer.
validateRx(rx) ==
    /\ Len(rx) >= MinFrame
    /\ rx[3] = Len(rx) - 6
    /\ rx[Len(rx) - 2] * 256 + rx[Len(rx) - 1] = fcs16(SubSeq(rx, 2, Len(rx) - 3))

\* The packet that is left after three bytes are erased at either end.
Packet(rx) == SubSeq(rx, 4, Len(rx) - 3)

-----------------------------------------------------------------------------
(* updateRxFSM(): one action per case of its switch.                       *)

RxInit ==
    /\ rxState = "WAITING_FOR_SYNC"
    /\ rx_in_progress = <<>>
    /\ byte_count = 0
    /\ pipe = <<>>

\* Seeded fault: rx_in_progress is not cleared.
StartFrameNoClear ==
    /\ rxState' = "HEADER1"
    /\ rx_in_progress' = Append(rx_in_progress, FRAME_CHAR)
    /\ UNCHANGED <<byte_count, pipe>>

\* A flag starts a frame, and restarts the one that is in progress.
StartFrame ==
    /\ rxState' = "HEADER1"
    /\ rx_in_progress' = <<FRAME_CHAR>>
    /\ UNCHANGED <<byte_count, pipe>>

PushBody(by) ==
    /\ rx_in_progress' = Append(rx_in_progress, by)
    /\ byte_count' = byte_count - 1
    /\ rxState' = IF byte_count' = 0 THEN "FCS1" ELSE "BODY"
    /\ UNCHANGED pipe

WaitingForSync(by) ==
    /\ rxState = "WAITING_FOR_SYNC"
    /\ IF by = FRAME_CHAR THEN StartFrame ELSE UNCHANGED <<rxVars, pipe>>

Header1(by) ==
    /\ rxState = "HEADER1"
    /\ rxState' = "HEADER2"
    /\ rx_in_progress' = Append(rx_in_progress, by)
    /\ UNCHANGED <<byte_count, pipe>>

Header2(by) ==
    /\ rxState = "HEADER2"
    /\ rxState' = "BODY"
    /\ rx_in_progress' = Append(rx_in_progress, by)
    /\ byte_count' = by
    /\ UNCHANGED pipe

Body(by) ==
    /\ rxState = "BODY"
    /\ \/ /\ by = ESCAPE_CHAR
          /\ rxState' = "ESCAPE"
          /\ UNCHANGED <<rx_in_progress, byte_count, pipe>>
       \/ by = FRAME_CHAR /\ StartFrame
       \/ by \notin {ESCAPE_CHAR, FRAME_CHAR} /\ PushBody(by)

\* Seeded fault: an escaped byte is not counted.
EscapeNotCounted(by) ==
    /\ rxState = "ESCAPE"
    /\ rxState' = "BODY"
    /\ rx_in_progress' = Append(rx_in_progress, by + EscapeShift)
    /\ UNCHANGED <<byte_count, pipe>>

Escape(by) ==
    /\ rxState = "ESCAPE"
    /\ \/ /\ by \in {ESCAPE_CHAR - EscapeShift, FRAME_CHAR - EscapeShift}
          /\ PushBody(by + EscapeShift)
       \/ by = FRAME_CHAR /\ StartFrame
       \/ /\ by \notin {ESCAPE_CHAR - EscapeShift, FRAME_CHAR - EscapeShift, FRAME_CHAR}
          /\ rxState' = "WAITING_FOR_SYNC"
          /\ UNCHANGED <<rx_in_progress, byte_count, pipe>>

Fcs1(by) ==
    /\ rxState = "FCS1"
    /\ rxState' = "FCS2"
    /\ rx_in_progress' = Append(rx_in_progress, by)
    /\ UNCHANGED <<byte_count, pipe>>

\* Seeded fault: the closing flag is not added to the buffer.
Fcs2NoFlag(by) ==
    /\ rxState = "FCS2"
    /\ rxState' = "END"
    /\ rx_in_progress' = Append(rx_in_progress, by)
    /\ UNCHANGED <<byte_count, pipe>>

\* The closing flag is appended before it has been read.
Fcs2(by) ==
    /\ rxState = "FCS2"
    /\ rxState' = "END"
    /\ rx_in_progress' = rx_in_progress \o <<by, FRAME_CHAR>>
    /\ UNCHANGED <<byte_count, pipe>>

\* Seeded fault: ::send is given one byte less than the packet that was checked.
EnqueueOneShort(packet) ==
    pipe' = IF Len(packet) >= MinPacket /\ Len(pipe) < PipeCap
            THEN Append(pipe, SubSeq(packet, 1, Len(packet) - 1)) ELSE pipe

\* ::send on the non-blocking socketpair: a packet that finds it full is lost.
\* Packets below MinPacket are dropped with a message.
Enqueue(packet) ==
    pipe' = IF Len(packet) >= MinPacket /\ Len(pipe) < PipeCap
            THEN Append(pipe, packet) ELSE pipe

\* validateRx() reloads byte_count from the length byte once the size check has
\* passed, whatever it then decides.
End(by) ==
    /\ rxState = "END"
    /\ rxState' = "WAITING_FOR_SYNC"
    /\ \/ /\ by # FRAME_CHAR
          /\ UNCHANGED <<rx_in_progress, byte_count, pipe>>
       \/ /\ by = FRAME_CHAR
          /\ ~validateRx(rx_in_progress)
          /\ byte_count' = IF Len(rx_in_progress) < MinFrame
                           THEN byte_count ELSE rx_in_progress[3]
          /\ UNCHANGED <<rx_in_progress, pipe>>
       \/ /\ by = FRAME_CHAR
          /\ validateRx(rx_in_progress)
          /\ byte_count' = rx_in_progress[3]
          /\ rx_in_progress' = Packet(rx_in_progress)
          /\ Enqueue(Packet(rx_in_progress))

updateRxFSM(by) ==
    \/ WaitingForSync(by)
    \/ Header1(by)
    \/ Header2(by)
    \/ Body(by)
    \/ Escape(by)
    \/ Fcs1(by)
    \/ Fcs2(by)
    \/ End(by)

\* receive() takes the oldest packet; on an empty pipe it returns an empty
\* vector and changes nothing.
receive ==
    /\ pipe # <<>>
    /\ pipe' = Tail(pipe)
    /\ UNCHANGED rxVars

-----------------------------------------------------------------------------
(* Properties of the receiver, whatever bytes it is fed.                   *)

RxStates == {"WAITING_FOR_SYNC", "HEADER1", "HEADER2", "BODY",
             "FCS1", "FCS2", "ESCAPE", "END"}

\* The receiver's part of the type invariant; byte_count may be negative.
RxTypeOK ==
    /\ rxState \in RxStates
    /\ rx_in_progress \in Seq(Byte)
    /\ byte_count \in Int
    /\ pipe \in Seq(Seq(Byte))

\* What the length byte says the buffer holds when the payload is complete.
Declared == 3 + rx_in_progress[3]

\* Whatever arrives on the line, the buffer and byte_count agree with the length
\* byte of the frame in progress: in BODY and ESCAPE the missing payload is
\* byte_count (and a length byte of 0 leaves it at 0 or below, so that no payload
\* byte ends the frame), and a frame reaches the FCS states, END and validateRx()
\* only with exactly the payload its length byte declares.
FrameLength ==
    /\ rxState = "HEADER1" => rx_in_progress = <<FRAME_CHAR>>
    /\ rxState = "HEADER2" => Len(rx_in_progress) = 2
    /\ rxState \in {"BODY", "ESCAPE"} =>
          /\ Len(rx_in_progress) >= 3
          /\ Len(rx_in_progress) + byte_count = Declared
          /\ byte_count >= 1 \/ rx_in_progress[3] = 0
    /\ rxState = "FCS1" => Len(rx_in_progress) >= 4 /\ Len(rx_in_progress) = Declared
    /\ rxState = "FCS2" => Len(rx_in_progress) >= 5 /\ Len(rx_in_progress) = Declared + 1
    /\ rxState = "END" => Len(rx_in_progress) >= 7 /\ Len(rx_in_progress) = Declared + 3

\* No packet the bridge can receive() is shorter than the 5 bytes it indexes into
\* or longer than one length byte can say, and the socketpair never overflows.
PacketsBounded ==
    /\ Len(pipe) <= PipeCap
    /\ \A k \in 1..Len(pipe) : Len(pipe[k]) \in MinPacket..255
=============================================================================
