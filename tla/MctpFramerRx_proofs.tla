------------------------ MODULE MctpFramerRx_proofs ------------------------
(***************************************************************************)
(* What one byte does to the receiver: the three invariants of             *)
(* MctpFramerRx are inductive together, for every byte and every FCS.      *)
(***************************************************************************)
EXTENDS MctpFramerRx, SequenceTheorems, TLAPS

\* An element of a sequence of bytes is a byte.
LEMMA ByteOfSeq ==
    ASSUME NEW s \in Seq(Byte), NEW k \in 1..Len(s)
    PROVE  s[k] \in Byte /\ s[k] \in 0..255 /\ s[k] \in Nat
<1>1. s[k] \in Byte
  OBVIOUS
<1>2. \A x : x \in Byte => x \in 0..255 /\ x \in Nat
  BY DEF Byte
<1> QED BY <1>1, <1>2

\* A slice of a sequence of bytes is one, and has the length of its bounds.
LEMMA SliceOfBytes ==
    ASSUME NEW s \in Seq(Byte), NEW a \in 1..(Len(s) + 1), NEW b \in (a - 1)..Len(s)
    PROVE  /\ SubSeq(s, a, b) \in Seq(Byte)
           /\ Len(SubSeq(s, a, b)) = b - a + 1
           /\ \A k \in 1..(b - a + 1) : SubSeq(s, a, b)[k] = s[a + k - 1]
BY SubSeqProperties

\* Pushing a byte.
LEMMA PushByte ==
    ASSUME NEW s \in Seq(Byte), NEW by \in Byte
    PROVE  /\ Append(s, by) \in Seq(Byte)
           /\ Len(Append(s, by)) = Len(s) + 1
           /\ Append(s, by)[Len(s) + 1] = by
           /\ \A k \in 1..Len(s) : Append(s, by)[k] = s[k]
BY AppendProperties

RxInv == RxTypeOK /\ FrameLength /\ PacketsBounded

\* The constructor leaves the receiver in a state that satisfies the invariant.
LEMMA RxInitInv ==
    ASSUME RxInit PROVE RxInv
BY PipeCapAssumption DEF RxInit, RxInv, RxTypeOK, FrameLength, PacketsBounded, RxStates

\* A flag that starts or restarts a frame keeps the invariant.
LEMMA StartFrameInv ==
    ASSUME RxInv, StartFrame PROVE RxInv'
BY DEF StartFrame, RxInv, RxTypeOK, FrameLength, PacketsBounded, RxStates, Byte, FRAME_CHAR, Declared

\* A payload byte keeps the invariant in BODY and in ESCAPE.
LEMMA PushBodyInv ==
    ASSUME RxInv, rxState \in {"BODY", "ESCAPE"}, NEW by \in Byte, PushBody(by)
    PROVE  RxInv'
<1>1. /\ rx_in_progress \in Seq(Byte) /\ byte_count \in Int
      /\ Len(rx_in_progress) >= 3
      /\ Len(rx_in_progress) + byte_count = 3 + rx_in_progress[3]
      /\ byte_count >= 1 \/ rx_in_progress[3] = 0
  BY DEF RxInv, RxTypeOK, FrameLength, Declared
<1>2. /\ rx_in_progress' = Append(rx_in_progress, by)
      /\ byte_count' = byte_count - 1
      /\ rxState' = IF byte_count' = 0 THEN "FCS1" ELSE "BODY"
      /\ pipe' = pipe
  BY DEF PushBody
<1>3. /\ rx_in_progress' \in Seq(Byte)
      /\ Len(rx_in_progress') = Len(rx_in_progress) + 1
      /\ rx_in_progress'[3] = rx_in_progress[3]
  BY <1>1, <1>2
<1>4. rx_in_progress[3] \in Nat
  BY <1>1, ByteOfSeq
<1>5. RxTypeOK'
  BY <1>1, <1>2, <1>3 DEF RxInv, RxTypeOK, RxStates
<1>6. FrameLength'
  <2>1. CASE byte_count = 1
    BY <2>1, <1>1, <1>2, <1>3, <1>4 DEF FrameLength, Declared
  <2>2. CASE byte_count # 1
    BY <2>2, <1>1, <1>2, <1>3, <1>4 DEF FrameLength, Declared
  <2> QED BY <2>1, <2>2
<1>7. PacketsBounded'
  BY <1>2 DEF RxInv, PacketsBounded
<1> QED BY <1>5, <1>6, <1>7 DEF RxInv

\* The packet cut out of a valid frame has as many bytes as the length byte says,
\* 5 at least.
LEMMA PacketLength ==
    ASSUME RxInv, rxState = "END", validateRx(rx_in_progress)
    PROVE  /\ Packet(rx_in_progress) \in Seq(Byte)
           /\ Len(Packet(rx_in_progress)) \in MinPacket..255
<1> DEFINE n == Len(rx_in_progress)
           x == rx_in_progress[3]
<1>1. rx_in_progress \in Seq(Byte)
  BY DEF RxInv, RxTypeOK
<1>2. n \in Nat /\ n >= 11
  BY <1>1 DEF validateRx, MinFrame
<1>3. x \in 0..255
  BY <1>1, <1>2, ByteOfSeq
<1>4. n = (3 + x) + 3
  BY DEF RxInv, FrameLength, Declared
<1>5. /\ Packet(rx_in_progress) \in Seq(Byte)
      /\ Len(Packet(rx_in_progress)) = (n - 3) - 4 + 1
  BY <1>1, <1>2, SliceOfBytes DEF Packet
<1> HIDE DEF n, x
<1>6. (n - 3) - 4 + 1 \in 5..255
  BY <1>2, <1>3, <1>4
<1> QED BY <1>5, <1>6 DEF MinPacket

\* The last byte of a frame keeps the invariant, whatever becomes of the frame.
LEMMA EndInv ==
    ASSUME RxInv, NEW by \in Byte, End(by)
    PROVE  RxInv'
<1>1. rxState = "END" /\ rxState' = "WAITING_FOR_SYNC"
  BY DEF End
<1>2. FrameLength'
  BY <1>1 DEF FrameLength
<1>3. CASE by # FRAME_CHAR
  BY <1>1, <1>2, <1>3 DEF End, RxInv, RxTypeOK, PacketsBounded, RxStates
<1>4. CASE by = FRAME_CHAR /\ ~validateRx(rx_in_progress)
  <2>1. rx_in_progress' = rx_in_progress /\ pipe' = pipe
    BY <1>4 DEF End
  <2>2. Len(rx_in_progress) >= 7 /\ rx_in_progress[3] \in Int
    BY <1>1, ByteOfSeq DEF RxInv, RxTypeOK, FrameLength
  <2>3. byte_count' \in Int
    BY <1>4, <2>2 DEF End, RxInv, RxTypeOK
  <2> QED BY <1>1, <1>2, <2>1, <2>3 DEF RxInv, RxTypeOK, PacketsBounded, RxStates
<1>5. CASE by = FRAME_CHAR /\ validateRx(rx_in_progress)
  <2> DEFINE p == Packet(rx_in_progress)
  <2>1. /\ rx_in_progress' = p /\ byte_count' = rx_in_progress[3]
        /\ pipe' = IF Len(p) >= MinPacket /\ Len(pipe) < PipeCap THEN Append(pipe, p) ELSE pipe
    BY <1>5 DEF End, Enqueue
  <2>2. p \in Seq(Byte) /\ Len(p) \in MinPacket..255
    BY <1>1, <1>5, PacketLength
  <2>3. Len(rx_in_progress) >= 7 /\ rx_in_progress[3] \in Int
    BY <1>1, ByteOfSeq DEF RxInv, RxTypeOK, FrameLength
  <2>4. pipe \in Seq(Seq(Byte)) /\ Len(pipe) <= PipeCap
        /\ \A k \in 1..Len(pipe) : Len(pipe[k]) \in MinPacket..255
    BY DEF RxInv, RxTypeOK, PacketsBounded
  <2> HIDE DEF p
  <2>5. pipe' \in Seq(Seq(Byte)) /\ PacketsBounded'
    <3>1. CASE pipe' = pipe
      BY <3>1, <2>4 DEF PacketsBounded
    <3>2. CASE pipe' = Append(pipe, p) /\ Len(pipe) < PipeCap
      BY <3>2, <2>2, <2>4, PipeCapAssumption DEF PacketsBounded
    <3> QED BY <3>1, <3>2, <2>1
  <2> QED BY <1>1, <1>2, <2>1, <2>2, <2>3, <2>5 DEF RxInv, RxTypeOK, RxStates
<1> QED BY <1>3, <1>4, <1>5

\* One call of updateRxFSM() keeps the invariant, for any byte.
LEMMA UpdateRxInv ==
    ASSUME RxInv, NEW by \in Byte, updateRxFSM(by)
    PROVE  RxInv'
<1>1. rx_in_progress \in Seq(Byte) /\ byte_count \in Int
  BY DEF RxInv, RxTypeOK
<1>2. CASE WaitingForSync(by)
  <2>1. CASE by = FRAME_CHAR
    BY <1>2, <2>1, StartFrameInv DEF WaitingForSync
  <2>2. CASE by # FRAME_CHAR
    BY <1>2, <2>2 DEF WaitingForSync, rxVars, RxInv, RxTypeOK, FrameLength, PacketsBounded, Declared
  <2> QED BY <2>1, <2>2
<1>3. CASE Header1(by)
  <2>1. Len(rx_in_progress) = 1
    BY <1>3 DEF Header1, RxInv, FrameLength
  <2>2. rx_in_progress' \in Seq(Byte) /\ Len(rx_in_progress') = Len(rx_in_progress) + 1
    BY <1>1, <1>3, PushByte DEF Header1
  <2> QED BY <1>3, <2>1, <2>2
          DEF Header1, RxInv, RxTypeOK, FrameLength, PacketsBounded, RxStates
<1>4. CASE Header2(by)
  <2>1. Len(rx_in_progress) = 2
    BY <1>4 DEF Header2, RxInv, FrameLength
  <2>2. /\ rx_in_progress' \in Seq(Byte)
        /\ Len(rx_in_progress') = Len(rx_in_progress) + 1
        /\ rx_in_progress'[Len(rx_in_progress) + 1] = by
    BY <1>1, <1>4, PushByte DEF Header2
  <2>3. Len(rx_in_progress') = 3 /\ rx_in_progress'[3] = by
    BY <2>1, <2>2
  <2>4. by \in Nat
    BY DEF Byte
  <2> QED BY <1>4, <2>2, <2>3, <2>4
          DEF Header2, RxInv, RxTypeOK, FrameLength, PacketsBounded, RxStates, Declared
<1>5. CASE Body(by)
  <2>1. CASE by = ESCAPE_CHAR
    BY <1>5, <2>1 DEF Body, RxInv, RxTypeOK, FrameLength, PacketsBounded, RxStates, Declared,
                      ESCAPE_CHAR, FRAME_CHAR
  <2>2. CASE by = FRAME_CHAR
    BY <1>5, <2>2, StartFrameInv DEF Body, ESCAPE_CHAR, FRAME_CHAR
  <2>3. CASE by \notin {ESCAPE_CHAR, FRAME_CHAR}
    BY <1>5, <2>3, PushBodyInv DEF Body
  <2> QED BY <2>1, <2>2, <2>3
<1>6. CASE Escape(by)
  <2>1. CASE by \in {ESCAPE_CHAR - EscapeShift, FRAME_CHAR - EscapeShift}
    <3>1. by + EscapeShift \in Byte
      BY <2>1 DEF ESCAPE_CHAR, FRAME_CHAR, EscapeShift, Byte
    <3>2. rxState = "ESCAPE" /\ PushBody(by + EscapeShift)
      BY <1>6, <2>1 DEF Escape, ESCAPE_CHAR, FRAME_CHAR, EscapeShift
    <3> QED BY <3>1, <3>2, PushBodyInv
  <2>2. CASE by = FRAME_CHAR
    BY <1>6, <2>2, StartFrameInv DEF Escape, ESCAPE_CHAR, FRAME_CHAR, EscapeShift
  <2>3. CASE by \notin {ESCAPE_CHAR - EscapeShift, FRAME_CHAR - EscapeShift, FRAME_CHAR}
    BY <1>6, <2>3 DEF Escape, RxInv, RxTypeOK, FrameLength, PacketsBounded, RxStates
  <2> QED BY <2>1, <2>2, <2>3
<1>7. CASE Fcs1(by)
  <2>1. Len(rx_in_progress) >= 4 /\ Len(rx_in_progress) = 3 + rx_in_progress[3]
    BY <1>7 DEF Fcs1, RxInv, FrameLength, Declared
  <2>2. /\ rx_in_progress' \in Seq(Byte) /\ Len(rx_in_progress') = Len(rx_in_progress) + 1
        /\ rx_in_progress'[3] = rx_in_progress[3]
    BY <1>1, <1>7, <2>1 DEF Fcs1
  <2> QED BY <1>1, <1>7, <2>1, <2>2
          DEF Fcs1, RxInv, RxTypeOK, FrameLength, PacketsBounded, RxStates, Declared
<1>8. CASE Fcs2(by)
  <2>1. Len(rx_in_progress) >= 5 /\ Len(rx_in_progress) = 4 + rx_in_progress[3]
    BY <1>1, <1>8, ByteOfSeq DEF Fcs2, RxInv, FrameLength, Declared
  <2>2. <<by, FRAME_CHAR>> \in Seq(Byte)
    BY DEF Byte, FRAME_CHAR
  <2>3. /\ rx_in_progress' \in Seq(Byte) /\ Len(rx_in_progress') = Len(rx_in_progress) + 2
        /\ rx_in_progress'[3] = rx_in_progress[3]
    BY <1>1, <1>8, <2>1, <2>2 DEF Fcs2
  <2>4. rx_in_progress[3] \in Nat
    BY <1>1, <2>1, ByteOfSeq
  <2>5. FrameLength'
    BY <1>8, <2>1, <2>3, <2>4 DEF Fcs2, FrameLength, Declared
  <2>6. PacketsBounded' /\ RxTypeOK'
    BY <1>1, <1>8, <2>3 DEF Fcs2, RxInv, RxTypeOK, PacketsBounded, RxStates
  <2> QED BY <2>5, <2>6 DEF RxInv
<1>9. CASE End(by)
  BY <1>9, EndInv
<1> QED BY <1>2, <1>3, <1>4, <1>5, <1>6, <1>7, <1>8, <1>9 DEF updateRxFSM

\* receive() keeps the invariant.
LEMMA ReceiveInv ==
    ASSUME RxInv, receive PROVE RxInv'
<1>1. /\ pipe \in Seq(Seq(Byte)) /\ pipe # <<>> /\ pipe' = Tail(pipe)
      /\ Len(pipe) <= PipeCap /\ \A k \in 1..Len(pipe) : Len(pipe[k]) \in MinPacket..255
  BY DEF RxInv, RxTypeOK, PacketsBounded, receive
<1>2. pipe' \in Seq(Seq(Byte)) /\ PacketsBounded'
  BY <1>1, PipeCapAssumption DEF PacketsBounded
<1> QED BY <1>2 DEF receive, rxVars, RxInv, RxTypeOK, FrameLength, Declared

\* Emptying the pipe keeps the invariant.
LEMMA ClearPipeInv ==
    ASSUME RxInv, UNCHANGED rxVars, pipe' = <<>> PROVE RxInv'
BY PipeCapAssumption DEF rxVars, RxInv, RxTypeOK, FrameLength, PacketsBounded, Declared
=============================================================================
