--------------------------- MODULE MctpSerialLink ---------------------------
(***************************************************************************)
(* Two MctpFramer objects on one serial line: send() of one, the bytes in  *)
(* the kernel buffers and on the wire, and updateRxFSM()/receive() of the  *)
(* other.                                                                  *)
(*                                                                         *)
(* transmitFrame() computes the escaped bytes of a frame into a local      *)
(* buffer and framer_write_all() passes them to write(), which may take    *)
(* any part of them.  The buffer is a function of the message, so it is    *)
(* not a variable: `tx' is the position of the next byte to be written,    *)
(* and ByteAt the byte found there.  Each byte on the wire carries its     *)
(* position along; nothing but the properties reads it.                    *)
(***************************************************************************)
EXTENDS MctpFramerRx, FiniteSets

CONSTANTS
    Messages,    \* payloads handed to send()
    WireCap,     \* bytes the line and its buffers hold before write() blocks
    MaxSent,     \* bound on the number of messages
    MaxFaults    \* bound on failed writes and lost bytes

\* send() takes payloads of any length; BcastMessenger hands it up to 256 bytes.
ASSUME MessagesAssumption ==
    \A m \in Messages : m \in Seq(Byte) /\ Len(m) \in 0..256
ASSUME BoundsAssumption == WireCap \in Nat \ {0} /\ MaxSent \in Nat /\ MaxFaults \in Nat

VARIABLES
    sent,      \* history: every message given to send()
    tx,        \* the sender's position, [n, i, h]: see below
    wire,      \* bytes written and not yet read
    rcvd,      \* history: every packet receive() returned
    faults     \* failed writes and lost bytes so far

linkVars == <<rxVars, pipe, sent, tx, wire, rcvd, faults>>

-----------------------------------------------------------------------------
(* Positions.  [n, i, h] is byte i (from 0) of the n-th frame; h = 1 is    *)
(* the second byte of an escape.                                           *)

FrameOf(n) == FullMsg(sent[n])

\* Seeded fault: the FCS is escaped too.
EscapedFcs(n, i) ==
    /\ i \in 3..(Len(FrameOf(n)) - 2)
    /\ FrameOf(n)[i + 1] \in {FRAME_CHAR, ESCAPE_CHAR}

\* transmitFrame() escapes the payload only: not the first three bytes, not the
\* FCS, not the closing flag.
Escaped(n, i) ==
    /\ i \in 3..(Len(FrameOf(n)) - 4)
    /\ FrameOf(n)[i + 1] \in {FRAME_CHAR, ESCAPE_CHAR}

ByteAt(p) ==
    IF ~Escaped(p.n, p.i) THEN FrameOf(p.n)[p.i + 1]
    ELSE IF p.h = 0 THEN ESCAPE_CHAR ELSE FrameOf(p.n)[p.i + 1] - EscapeShift

StartOf(n) == [n |-> n, i |-> 0, h |-> 0]

\* Seeded fault: the loop runs to i <= msg.size().
AfterOnePast(p) ==
    IF Escaped(p.n, p.i) /\ p.h = 0 THEN [p EXCEPT !.h = 1]
    ELSE IF p.i + 1 <= Len(FrameOf(p.n)) THEN [n |-> p.n, i |-> p.i + 1, h |-> 0]
    ELSE StartOf(p.n + 1)

After(p) ==
    IF Escaped(p.n, p.i) /\ p.h = 0 THEN [p EXCEPT !.h = 1]
    ELSE IF p.i + 1 < Len(FrameOf(p.n)) THEN [n |-> p.n, i |-> p.i + 1, h |-> 0]
    ELSE StartOf(p.n + 1)

-----------------------------------------------------------------------------
(* buildWire(): the bytes of a whole frame at once, for whoever wants to   *)
(* know them beforehand.  It lays the frame out and escapes it in a loop   *)
(* of its own.                                                             *)

\* What one round of the loop pushes for the k-th byte (from 1) of a frame.
Pushed(full, k) ==
    IF k \in 4..(Len(full) - 3) /\ full[k] \in {FRAME_CHAR, ESCAPE_CHAR}
    THEN <<ESCAPE_CHAR, full[k] - EscapeShift>> ELSE <<full[k]>>

\* `out' after k rounds.
Rounds(full) ==
    LET out[k \in 0..Len(full)] == IF k = 0 THEN <<>> ELSE out[k - 1] \o Pushed(full, k)
    IN  out

buildWire(msg) ==
    LET body == <<SERIAL_REV, Len(msg) % 256>> \o msg
        fcs  == fcs16(body)
        full == <<FRAME_CHAR>> \o body \o <<fcs \div 256, fcs % 256, FRAME_CHAR>>
    IN  Rounds(full)[Len(full)]

-----------------------------------------------------------------------------
Sending == tx.n = Len(sent)

LinkInit ==
    /\ RxInit
    /\ sent = <<>> /\ tx = StartOf(1) /\ wire = <<>> /\ rcvd = <<>> /\ faults = 0

-----------------------------------------------------------------------------
(* The sender.                                                             *)

\* send() is called again only when it has returned.
send(m) ==
    /\ ~Sending /\ Len(sent) < MaxSent
    /\ sent' = Append(sent, m)
    /\ UNCHANGED <<rxVars, pipe, tx, wire, rcvd, faults>>

\* write() accepts the next byte of the frame; on a full line framer_write_all()
\* waits in poll().
WriteByte ==
    /\ Sending /\ Len(wire) < WireCap
    /\ wire' = Append(wire, [pos |-> tx, b |-> ByteAt(tx)])
    /\ tx' = After(tx)
    /\ UNCHANGED <<rxVars, pipe, sent, rcvd, faults>>

\* poll() timed out or write() failed: the rest of the frame is never written, and
\* transmitFrame() returns as if nothing had happened.
WriteFails ==
    /\ Sending /\ faults < MaxFaults
    /\ tx' = StartOf(tx.n + 1)
    /\ faults' = faults + 1
    /\ UNCHANGED <<rxVars, pipe, sent, wire, rcvd>>

\* A byte is lost on the line: an overrun, or an unplugged cable.
LoseByte ==
    /\ wire # <<>> /\ faults < MaxFaults
    /\ wire' = Tail(wire)
    /\ faults' = faults + 1
    /\ UNCHANGED <<rxVars, pipe, sent, tx, rcvd>>

-----------------------------------------------------------------------------
(* The receiver.                                                           *)

ReadByte ==
    /\ wire # <<>>
    /\ updateRxFSM(Head(wire).b)
    /\ wire' = Tail(wire)
    /\ UNCHANGED <<sent, tx, rcvd, faults>>

ReceivePacket ==
    /\ receive
    /\ rcvd' = Append(rcvd, Head(pipe))
    /\ UNCHANGED <<sent, tx, wire, faults>>

Next ==
    \/ \E m \in Messages : send(m)
    \/ WriteByte
    \/ WriteFails
    \/ LoseByte
    \/ ReadByte
    \/ ReceivePacket

Spec == LinkInit /\ [][Next]_linkVars

\* A started send() keeps writing, the receive thread keeps reading, and the
\* dispatch loop of the bridge fetches what select reports.  Nobody must send.
FairSpec ==
    /\ Spec
    /\ WF_linkVars(WriteByte)
    /\ WF_linkVars(ReadByte)
    /\ WF_linkVars(ReceivePacket)

-----------------------------------------------------------------------------
(* Properties.                                                             *)

Position == [n : Nat \ {0}, i : Nat, h : {0, 1}]

LinkTypes ==
    /\ RxTypeOK
    /\ rcvd \in Seq(Seq(Byte))
    /\ sent \in Seq(Messages)
    /\ tx \in Position
    /\ wire \in Seq([pos : Position, b : Byte])
    /\ faults \in Nat

InFrame(p) == p.n \in 1..Len(sent) /\ p.i < Len(FrameOf(p.n))

\* Every variable has its type, and transmitFrame() reads and writes no byte outside
\* the frame it was given, wherever earlier writes have failed.
LinkTypeOK ==
    /\ LinkTypes
    /\ Sending => InFrame(tx)
    /\ \A k \in 1..Len(wire) : InFrame(wire[k].pos)

\* s is obtained from t by leaving out elements.
InOrder(s, t) ==
    \E f \in [1..Len(s) -> 1..Len(t)] :
       /\ \A j, k \in 1..Len(s) : j < k => f[j] < f[k]
       /\ \A k \in 1..Len(s) : s[k] = t[f[k]]

\* Also when writes fail, bytes are lost and payloads are sent whose length the
\* length byte cannot tell, the packets that come out of the receiver are among
\* those that went in, unchanged, in order and none twice.
NothingForged == InOrder(rcvd \o pipe, sent)

\* Escapes among the first i bytes of the n-th frame.
EscapesBefore(n, i) == Cardinality({j \in 0..(i - 1) : Escaped(n, j)})

\* The bytes transmitFrame() puts on the wire are those buildWire() predicts, one
\* by one: the two copies of the escaping loop agree.
WireIsBuildWire ==
    \A k \in 1..Len(wire) :
       LET p == wire[k].pos
       IN  wire[k].b = buildWire(sent[p.n])[p.i + 1 + EscapesBefore(p.n, p.i) + p.h]

\* The length byte can tell 1..255 apart.  An empty payload, or one of 256 bytes,
\* makes a frame the receiver does not recognise as one: its closing flag is taken
\* for an opening one, as after a fault.
Tellable(m) == Len(m) \in 1..255
Intact == faults = 0 /\ \A k \in 1..Len(sent) : Tellable(sent[k])

\* Where the receiver is in the stream: the position of the next byte it will read.
RxPos == IF wire = <<>> THEN tx ELSE Head(wire).pos

\* The receiver's state as a function of that position.
StateAt(p) ==
    LET N == Len(FrameOf(p.n))
    IN  CASE p.i = 0 -> "WAITING_FOR_SYNC"
          [] p.i = 1 -> "HEADER1"
          [] p.i = 2 -> "HEADER2"
          [] p.i \in 3..(N - 4) /\ p.h = 0 -> "BODY"
          [] p.i \in 3..(N - 4) /\ p.h = 1 -> "ESCAPE"
          [] p.i = N - 3 -> "FCS1"
          [] p.i = N - 2 -> "FCS2"
          [] p.i = N - 1 -> "END"

\* The receiver's state, its buffer and its count are those of position p.
At(p) ==
    \/ p.i = 0 /\ rxState = "WAITING_FOR_SYNC"
    \/ /\ p.i > 0
       /\ rxState = StateAt(p)
       /\ rx_in_progress = IF rxState = "END" THEN FrameOf(p.n) ELSE SubSeq(FrameOf(p.n), 1, p.i)
       /\ rxState \in {"BODY", "ESCAPE"} => byte_count = Len(sent[p.n]) - (p.i - 3)

\* On an intact line the receiver is never off by a byte: it is where the very byte
\* that it reads next is, at every byte of every frame, escapes included.
InStep == Intact => At(RxPos)

\* The link seen as a channel of packets: in flight is every message whose last
\* byte the receiver has not read.
Channel == INSTANCE PacketChannel WITH
    Packets <- Messages, MinLen <- MinPacket, Cap <- PipeCap,
    inflight <- SubSeq(sent, RxPos.n, Len(sent)), queue <- pipe, got <- rcvd,
    intact <- Intact

\* On an intact line the pair of framers is a FIFO channel that discards a packet
\* only when it is too short or finds the pipe full, and delivers every other one.
IsPacketChannel == Channel!FairSpec
=============================================================================
