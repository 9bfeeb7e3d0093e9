----------------------- MODULE MctpSerialLink_proofs -----------------------
(***************************************************************************)
(* On an intact line the receiver is in step with the sender, and the pair *)
(* of framers is a channel of packets: for every checksum, any payloads of *)
(* 1 to 255 bytes, any line and any pipe.                                  *)
(*                                                                         *)
(* The invariant says what the bytes on the line are: each is the one its  *)
(* position tells, and as long as nothing has failed the positions follow  *)
(* one another up to the sender's.  At the end of the module, by induction *)
(* over the bytes of a frame: they are the bytes buildWire() predicts.     *)
(***************************************************************************)
EXTENDS MctpSerialLink, MctpFramerRx_proofs, FiniteSetTheorems, WellFoundedInduction

\* p is the position of a byte of a frame that was sent.
Valid(p) ==
    /\ p \in Position /\ p.n \in 1..Len(sent) /\ p.i < Len(FrameOf(p.n))
    /\ p.h = 1 => Escaped(p.n, p.i)

TxInv == tx = StartOf(Len(sent) + 1) \/ (Valid(tx) /\ tx.n = Len(sent))

WireInv == \A k \in 1..Len(wire) : Valid(wire[k].pos) /\ wire[k].b = ByteAt(wire[k].pos)

Chained ==
    faults = 0 => \A k \in 1..Len(wire) :
                     After(wire[k].pos) = IF k = Len(wire) THEN tx ELSE wire[k + 1].pos

LinkInv == LinkTypes /\ RxInv /\ TxInv /\ WireInv /\ Chained /\ InStep

-----------------------------------------------------------------------------
(* Frames.                                                                 *)

\* The high and the low byte of a 16-bit value make up the value.
LEMMA TwoBytes ==
    ASSUME NEW x \in Nat, x < 65536
    PROVE  x \div 256 \in Byte /\ x % 256 \in Byte /\ (x \div 256) * 256 + (x % 256) = x
<1>1. x - (x % 256) = (x \div 256) * 256
  OBVIOUS
<1>2. x \div 256 \in 0..255 /\ x % 256 \in 0..255
  OBVIOUS
<1> QED BY <1>1, <1>2 DEF Byte

LEMMA SmallValue == ASSUME NEW x \in Nat, x < 256 PROVE x % 256 = x
OBVIOUS

\* The two parts of a concatenation.
LEMMA Parts ==
    ASSUME NEW h \in Seq(Byte), NEW m \in Seq(Byte)
    PROVE  /\ h \o m \in Seq(Byte) /\ Len(h \o m) = Len(h) + Len(m)
           /\ \A k \in 1..Len(h) : (h \o m)[k] = h[k]
           /\ \A k \in 1..Len(m) : (h \o m)[k + Len(h)] = m[k]
<1>1. /\ h \o m \in Seq(Byte) /\ Len(h \o m) = Len(h) + Len(m)
      /\ \A i \in 1..(Len(h) + Len(m)) : (h \o m)[i] = IF i <= Len(h) THEN h[i] ELSE m[i - Len(h)]
  BY ConcatProperties
<1>2. Len(h) \in Nat /\ Len(m) \in Nat
  OBVIOUS
<1>3. \A k \in 1..Len(h) : (h \o m)[k] = h[k]
  BY <1>1, <1>2
<1>4. ASSUME NEW k \in 1..Len(m) PROVE (h \o m)[k + Len(h)] = m[k]
  <2>1. /\ k + Len(h) \in 1..(Len(h) + Len(m)) /\ ~(k + Len(h) <= Len(h))
        /\ k + Len(h) - Len(h) = k
    BY <1>2
  <2> QED BY <1>1, <2>1
<1> QED BY <1>1, <1>3, <1>4

\* The layout of a frame.
LEMMA FrameShape ==
    ASSUME NEW m \in Seq(Byte)
    PROVE  /\ FullMsg(m) \in Seq(Byte) /\ Len(FullMsg(m)) = Len(m) + 6
           /\ FullMsg(m)[1] = FRAME_CHAR /\ FullMsg(m)[3] = Len(m) % 256
           /\ \A k \in 1..Len(m) : FullMsg(m)[k + 3] = m[k]
           /\ FullMsg(m)[Len(m) + 6] = FRAME_CHAR
           /\ FullMsg(m)[Len(m) + 4] * 256 + FullMsg(m)[Len(m) + 5]
                 = fcs16(SubSeq(FullMsg(m), 2, Len(m) + 3))
<1>1. PICK L \in Nat : L = Len(m)
  OBVIOUS
<1>2. PICK x \in Byte : x = L % 256
  <2>1. L % 256 \in 0..255
    OBVIOUS
  <2> QED BY <2>1, Zenon DEF Byte
<1>3. PICK body : body = <<SERIAL_REV, x>> \o m
  OBVIOUS
<1>4. PICK fcs \in Nat : fcs = fcs16(body)
  BY DEF fcs16
<1>5. fcs < 65536
  BY <1>4 DEF fcs16
<1>6. PICK hi \in Byte, lo \in Byte : hi = fcs \div 256 /\ lo = fcs % 256 /\ hi * 256 + lo = fcs
  BY <1>5, TwoBytes
<1>7. PICK front : front = <<FRAME_CHAR>> \o body
  OBVIOUS
<1>8. PICK F : F = front \o <<hi, lo, FRAME_CHAR>>
  OBVIOUS
<1>9. FullMsg(m) = F
  <2>1. FullMsg(m) = (<<FRAME_CHAR>> \o (<<SERIAL_REV, Len(m) % 256>> \o m))
             \o <<fcs16(<<SERIAL_REV, Len(m) % 256>> \o m) \div 256,
                  fcs16(<<SERIAL_REV, Len(m) % 256>> \o m) % 256, FRAME_CHAR>>
    BY Zenon DEF FullMsg
  <2>2. <<SERIAL_REV, Len(m) % 256>> \o m = body
    BY <1>1, <1>2, <1>3, Zenon
  <2>3. FullMsg(m) = (<<FRAME_CHAR>> \o body) \o <<fcs16(body) \div 256, fcs16(body) % 256, FRAME_CHAR>>
    BY <2>1, <2>2, Zenon
  <2>4. fcs16(body) \div 256 = hi /\ fcs16(body) % 256 = lo
    BY <1>4, <1>6, Zenon
  <2>5. FullMsg(m) = front \o <<hi, lo, FRAME_CHAR>>
    BY <1>7, <2>3, <2>4, Zenon
  <2> QED BY <1>8, <2>5, Zenon
<1>10. SERIAL_REV \in Byte /\ FRAME_CHAR \in Byte
  BY DEF SERIAL_REV, FRAME_CHAR, Byte
<1>11. PICK head : head = <<SERIAL_REV, x>>
  OBVIOUS
<1>12. head \in Seq(Byte) /\ Len(head) = 2 /\ head[2] = x
  BY <1>10, <1>11
<1>13. /\ body \in Seq(Byte) /\ Len(body) = 2 + L
       /\ body[2] = x /\ \A k \in 1..L : body[k + 2] = m[k]
  <2>1. body = head \o m
    BY <1>3, <1>11
  <2>2. head \in Seq(Byte)
    BY <1>12
  <2>3. /\ body \in Seq(Byte) /\ Len(body) = Len(head) + Len(m)
        /\ \A k \in 1..Len(head) : body[k] = head[k]
        /\ \A k \in 1..Len(m) : body[k + Len(head)] = m[k]
    BY <2>2, <2>1, Parts
  <2> QED BY <1>1, <1>12, <2>3
<1>14. PICK flag : flag = <<FRAME_CHAR>>
  OBVIOUS
<1>15. flag \in Seq(Byte) /\ Len(flag) = 1 /\ flag[1] = FRAME_CHAR
  BY <1>10, <1>14
<1>16. /\ front \in Seq(Byte) /\ Len(front) = 3 + L /\ front[1] = FRAME_CHAR
       /\ \A k \in 1..(2 + L) : front[k + 1] = body[k]
  <2>1. front = flag \o body
    BY <1>7, <1>14
  <2>2. flag \in Seq(Byte) /\ body \in Seq(Byte)
    BY <1>13, <1>15
  <2>3. /\ front \in Seq(Byte) /\ Len(front) = Len(flag) + Len(body)
        /\ \A k \in 1..Len(flag) : front[k] = flag[k]
        /\ \A k \in 1..Len(body) : front[k + Len(flag)] = body[k]
    BY <2>1, <2>2, Parts
  <2> QED BY <1>13, <1>15, <2>3
<1>17. PICK tail : tail = <<hi, lo, FRAME_CHAR>>
  OBVIOUS
<1>18. tail \in Seq(Byte) /\ Len(tail) = 3 /\ tail[1] = hi /\ tail[2] = lo /\ tail[3] = FRAME_CHAR
  BY <1>10, <1>17
<1>19. /\ F \in Seq(Byte) /\ Len(F) = L + 6
       /\ \A k \in 1..(L + 3) : F[k] = front[k]
       /\ F[L + 4] = hi /\ F[L + 5] = lo /\ F[L + 6] = FRAME_CHAR
  <2>1. F = front \o tail
    BY <1>8, <1>17
  <2>2. /\ F \in Seq(Byte) /\ Len(F) = (3 + L) + 3
        /\ \A k \in 1..(3 + L) : F[k] = front[k]
        /\ \A k \in 1..3 : F[k + (3 + L)] = tail[k]
    <3>1. front \in Seq(Byte) /\ tail \in Seq(Byte)
      BY <1>16, <1>18
    <3>2. /\ F \in Seq(Byte) /\ Len(F) = Len(front) + Len(tail)
          /\ \A k \in 1..Len(front) : F[k] = front[k]
          /\ \A k \in 1..Len(tail) : F[k + Len(front)] = tail[k]
      BY <2>1, <3>1, Parts
    <3> QED BY <1>16, <1>18, <3>2
  <2>3. 1 + (3 + L) = L + 4 /\ 2 + (3 + L) = L + 5 /\ 3 + (3 + L) = L + 6 /\ (3 + L) + 3 = L + 6
        /\ 3 + L = L + 3
    OBVIOUS
  <2>4. F[1 + (3 + L)] = tail[1] /\ F[2 + (3 + L)] = tail[2] /\ F[3 + (3 + L)] = tail[3]
    BY <2>2
  <2> QED BY <1>18, <2>2, <2>3, <2>4
<1>20. SubSeq(F, 2, L + 3) = body
  <2>1. /\ SubSeq(F, 2, L + 3) \in Seq(Byte) /\ Len(SubSeq(F, 2, L + 3)) = L + 2
        /\ \A k \in 1..(L + 2) : SubSeq(F, 2, L + 3)[k] = F[2 + k - 1]
    BY <1>19, SliceOfBytes
  <2>2. ASSUME NEW k \in 1..(L + 2) PROVE F[2 + k - 1] = body[k]
    <3>1. 2 + k - 1 = k + 1 /\ k + 1 \in 1..(L + 3) /\ k \in 1..(2 + L)
      OBVIOUS
    <3> QED BY <1>16, <1>19, <3>1
  <2> QED BY <1>13, <2>1, <2>2, SeqEqual
<1>21. F[1] = FRAME_CHAR /\ F[3] = x
  <2>1. F[3] = front[3] /\ front[2 + 1] = body[2] /\ F[1] = front[1]
    BY <1>16, <1>19
  <2> QED BY <1>13, <1>16, <2>1
<1>22. ASSUME NEW k \in 1..L PROVE F[k + 3] = m[k]
  <2>1. k + 3 \in 1..(L + 3) /\ (k + 2) + 1 = k + 3 /\ k + 2 \in 1..(2 + L)
    OBVIOUS
  <2> QED BY <1>13, <1>16, <1>19, <2>1
<1>23. F[L + 4] * 256 + F[L + 5] = fcs16(SubSeq(F, 2, L + 3))
  <2>1. F[L + 4] * 256 + F[L + 5] = fcs
    BY <1>6, <1>19, Zenon
  <2> QED BY <1>4, <1>20, <2>1, Zenon
<1> QED BY <1>1, <1>2, <1>9, <1>19, <1>21, <1>22, <1>23

\* The receiver accepts the frame of a payload exactly if that has 5 bytes at least,
\* and what it cuts out is the payload.
LEMMA FrameAccepted ==
    ASSUME NEW m \in Seq(Byte), Tellable(m)
    PROVE  /\ validateRx(FullMsg(m)) <=> Len(m) >= MinPacket
           /\ Packet(FullMsg(m)) = m
<1>1. PICK L \in 1..255 : L = Len(m)
  BY DEF Tellable
<1>2. L % 256 = L
  OBVIOUS
<1>3. PICK F : F = FullMsg(m)
  OBVIOUS
<1>4. /\ F \in Seq(Byte) /\ Len(F) = L + 6 /\ F[3] = L
      /\ \A k \in 1..L : F[k + 3] = m[k]
      /\ F[L + 4] * 256 + F[L + 5] = fcs16(SubSeq(F, 2, L + 3))
  <2>1. /\ F \in Seq(Byte) /\ Len(F) = Len(m) + 6 /\ F[3] = Len(m) % 256
        /\ \A k \in 1..Len(m) : F[k + 3] = m[k]
        /\ F[Len(m) + 4] * 256 + F[Len(m) + 5] = fcs16(SubSeq(F, 2, Len(m) + 3))
    <3>1. /\ FullMsg(m) \in Seq(Byte) /\ Len(FullMsg(m)) = Len(m) + 6 /\ FullMsg(m)[3] = Len(m) % 256
          /\ \A k \in 1..Len(m) : FullMsg(m)[k + 3] = m[k]
          /\ FullMsg(m)[Len(m) + 4] * 256 + FullMsg(m)[Len(m) + 5]
                = fcs16(SubSeq(FullMsg(m), 2, Len(m) + 3))
      BY FrameShape
    <3> QED BY <1>3, <3>1, Zenon
  <2> QED BY <1>1, <1>2, <2>1, Zenon
<1>5. Len(F) - 2 = L + 4 /\ Len(F) - 1 = L + 5 /\ Len(F) - 3 = L + 3 /\ Len(F) - 6 = L
      /\ (Len(F) >= 11 <=> L >= 5)
  BY <1>4
<1>6. validateRx(F) <=> L >= 5
  BY <1>4, <1>5 DEF validateRx, MinFrame
<1>7. Packet(F) = m
  <2>1. /\ Packet(F) \in Seq(Byte) /\ Len(Packet(F)) = L + 3 - 4 + 1
        /\ \A k \in 1..(L + 3 - 4 + 1) : Packet(F)[k] = F[4 + k - 1]
    BY <1>4, <1>5, SliceOfBytes DEF Packet
  <2>2. L + 3 - 4 + 1 = L /\ \A k \in 1..L : 4 + k - 1 = k + 3
    OBVIOUS
  <2>3. PICK t \in Seq(Byte) : t = Packet(F) /\ Len(t) = L /\ \A k \in 1..L : t[k] = F[4 + k - 1]
    BY <2>1, <2>2, Zenon
  <2>4. \A k \in 1..Len(t) : t[k] = m[k]
    <3> SUFFICES ASSUME NEW k \in 1..L PROVE t[k] = m[k]
      BY <2>3, Zenon
    <3>1. t[k] = F[k + 3]
      BY <2>2, <2>3, Zenon
    <3> QED BY <1>4, <3>1, Zenon
  <2>5. Len(t) = Len(m)
    BY <1>1, <2>3, Zenon
  <2> QED BY <2>3, <2>4, <2>5, SeqEqual, Zenon
<1> QED BY <1>1, <1>3, <1>6, <1>7 DEF MinPacket

\* One more byte of a sequence.
LEMMA OneMoreByte ==
    ASSUME NEW s \in Seq(Byte), NEW i \in 0..(Len(s) - 1)
    PROVE  Append(SubSeq(s, 1, i), s[i + 1]) = SubSeq(s, 1, i + 1)
<1>1. /\ SubSeq(s, 1, i) \in Seq(Byte) /\ Len(SubSeq(s, 1, i)) = i
      /\ \A k \in 1..i : SubSeq(s, 1, i)[k] = s[k]
  BY SliceOfBytes
<1>2. /\ SubSeq(s, 1, i + 1) \in Seq(Byte) /\ Len(SubSeq(s, 1, i + 1)) = i + 1
      /\ \A k \in 1..(i + 1) : SubSeq(s, 1, i + 1)[k] = s[k]
  BY SliceOfBytes
<1>3. s[i + 1] \in Byte
  BY ByteOfSeq
<1>4. /\ Append(SubSeq(s, 1, i), s[i + 1]) \in Seq(Byte)
      /\ Len(Append(SubSeq(s, 1, i), s[i + 1])) = i + 1
      /\ \A k \in 1..(i + 1) : Append(SubSeq(s, 1, i), s[i + 1])[k] = s[k]
  BY <1>1, <1>3, PushByte
<1> QED BY <1>2, <1>4, SeqEqual

\* The last two bytes of a sequence.
LEMMA LastTwo ==
    ASSUME NEW s \in Seq(Byte), NEW i \in Nat, Len(s) = i + 2
    PROVE  SubSeq(s, 1, i) \o <<s[i + 1], s[i + 2]>> = s
<1>1. /\ SubSeq(s, 1, i) \in Seq(Byte) /\ Len(SubSeq(s, 1, i)) = i
      /\ \A k \in 1..i : SubSeq(s, 1, i)[k] = s[k]
  BY SliceOfBytes
<1>2. PICK t : t = <<s[i + 1], s[i + 2]>>
  OBVIOUS
<1>3. s[i + 1] \in Byte /\ s[i + 2] \in Byte
  BY ByteOfSeq
<1>4. t \in Seq(Byte) /\ Len(t) = 2 /\ t[1] = s[i + 1] /\ t[2] = s[i + 2]
  BY <1>2, <1>3
<1>5. PICK u : u = SubSeq(s, 1, i)
  OBVIOUS
<1>6. /\ u \o t \in Seq(Byte) /\ Len(u \o t) = Len(u) + Len(t)
      /\ \A k \in 1..Len(u) : (u \o t)[k] = u[k]
      /\ \A k \in 1..Len(t) : (u \o t)[k + Len(u)] = t[k]
  <2>1. u \in Seq(Byte) /\ t \in Seq(Byte)
    BY <1>1, <1>4, <1>5, Zenon
  <2> QED BY <2>1, Parts, Zenon
<1>7. (u \o t)[i + 1] = s[i + 1] /\ (u \o t)[i + 2] = s[i + 2]
  <2>1. (u \o t)[1 + i] = t[1] /\ (u \o t)[2 + i] = t[2]
    BY <1>1, <1>4, <1>5, <1>6
  <2>2. 1 + i = i + 1 /\ 2 + i = i + 2
    OBVIOUS
  <2> QED BY <1>4, <2>1, <2>2
<1>8. \A k \in 1..(i + 2) : k \in 1..i \/ k = i + 1 \/ k = i + 2
  OBVIOUS
<1>9. ASSUME NEW k \in 1..(i + 2) PROVE (u \o t)[k] = s[k]
  BY <1>1, <1>5, <1>6, <1>7, <1>8
<1>10. Len(u \o t) = i + 2
  BY <1>1, <1>4, <1>5, <1>6
<1> QED BY <1>2, <1>5, <1>6, <1>9, <1>10, SeqEqual

LEMMA FirstByte ==
    ASSUME NEW s \in Seq(Byte), Len(s) >= 1 PROVE SubSeq(s, 1, 1) = <<s[1]>>
<1>1. s[1] \in Byte
  OBVIOUS
<1>2. SubSeq(s, 1, 1) \in Seq(Byte) /\ Len(SubSeq(s, 1, 1)) = 1 /\ SubSeq(s, 1, 1)[1] = s[1]
  BY SliceOfBytes
<1>3. <<s[1]>> \in Seq(Byte) /\ Len(<<s[1]>>) = 1 /\ <<s[1]>>[1] = s[1]
  BY <1>1
<1>4. \A k \in 1..1 : k = 1
  OBVIOUS
<1>5. \A k \in 1..Len(SubSeq(s, 1, 1)) : SubSeq(s, 1, 1)[k] = <<s[1]>>[k]
  BY <1>2, <1>3, <1>4
<1> QED BY <1>2, <1>3, <1>5, SeqEqual

-----------------------------------------------------------------------------
(* Positions.                                                              *)

\* A message is a sequence of bytes, and stays where it is in the history.
LEMMA SentMessage ==
    ASSUME sent \in Seq(Messages), NEW n \in 1..Len(sent)
    PROVE  /\ sent[n] \in Seq(Byte) /\ Len(sent[n]) \in 0..256
           /\ FrameOf(n) \in Seq(Byte) /\ Len(FrameOf(n)) = Len(sent[n]) + 6
<1>1. sent[n] \in Messages
  OBVIOUS
<1>2. sent[n] \in Seq(Byte) /\ Len(sent[n]) \in 0..256
  BY <1>1, MessagesAssumption, Zenon
<1>3. FullMsg(sent[n]) \in Seq(Byte) /\ Len(FullMsg(sent[n])) = Len(sent[n]) + 6
  BY <1>2, FrameShape, Zenon
<1> QED BY <1>2, <1>3, Zenon DEF FrameOf

\* The byte at a position is a byte.
LEMMA ByteAtType ==
    ASSUME sent \in Seq(Messages), NEW p, Valid(p)
    PROVE  ByteAt(p) \in Byte
<1>1. /\ p.n \in 1..Len(sent) /\ p.i \in Nat /\ p.i < Len(FrameOf(p.n))
  BY DEF Valid, Position
<1>2. FrameOf(p.n) \in Seq(Byte) /\ Len(FrameOf(p.n)) \in Nat
  <2>1. FrameOf(p.n) \in Seq(Byte)
    BY <1>1, SentMessage, Zenon
  <2> QED BY <2>1
<1>3. FrameOf(p.n)[p.i + 1] \in Byte
  BY <1>1, <1>2, ByteOfSeq
<1>4. CASE ~Escaped(p.n, p.i)
  BY <1>3, <1>4 DEF ByteAt
<1>5. CASE Escaped(p.n, p.i)
  <2>1. FrameOf(p.n)[p.i + 1] \in {126, 125}
    BY <1>5 DEF Escaped, FRAME_CHAR, ESCAPE_CHAR
  <2> QED BY <1>5, <2>1 DEF ByteAt, ESCAPE_CHAR, EscapeShift, Byte
<1> QED BY <1>4, <1>5

\* Behind a byte comes another one of the same frame, or the next frame.
LEMMA AfterValid ==
    ASSUME sent \in Seq(Messages), NEW p, Valid(p)
    PROVE  /\ After(p) \in Position
           /\ \/ Valid(After(p)) /\ After(p).n = p.n
              \/ After(p) = StartOf(p.n + 1)
<1>1. /\ p \in Position /\ p.n \in 1..Len(sent) /\ p.n \in Nat /\ p.i \in Nat /\ p.h \in {0, 1}
      /\ p.i < Len(FrameOf(p.n))
  BY DEF Valid, Position
<1>2. Len(FrameOf(p.n)) \in Nat
  <2>1. FrameOf(p.n) \in Seq(Byte)
    BY <1>1, SentMessage, Zenon
  <2> QED BY <2>1
<1>3. CASE Escaped(p.n, p.i) /\ p.h = 0
  <2>1. After(p) = [p EXCEPT !.h = 1]
    BY <1>3 DEF After
  <2> QED BY <1>1, <1>3, <2>1 DEF Valid, Position
<1>4. CASE ~(Escaped(p.n, p.i) /\ p.h = 0) /\ p.i + 1 < Len(FrameOf(p.n))
  <2>1. After(p) = [n |-> p.n, i |-> p.i + 1, h |-> 0]
    BY <1>4 DEF After
  <2> QED BY <1>1, <1>2, <1>4, <2>1 DEF Valid, Position
<1>5. CASE ~(Escaped(p.n, p.i) /\ p.h = 0) /\ ~(p.i + 1 < Len(FrameOf(p.n)))
  <2>1. After(p) = StartOf(p.n + 1)
    BY <1>5 DEF After
  <2> QED BY <1>1, <2>1 DEF StartOf, Position
<1> QED BY <1>3, <1>4, <1>5

\* Nothing changes about the frames sent so far when another message is sent.
LEMMA FramesStay ==
    ASSUME sent \in Seq(Messages), NEW m \in Messages, sent' = Append(sent, m), NEW p, Valid(p)
    PROVE  /\ Valid(p)' /\ ByteAt(p)' = ByteAt(p) /\ After(p)' = After(p)
<1>1. /\ p \in Position /\ p.n \in 1..Len(sent) /\ p.i < Len(FrameOf(p.n))
      /\ p.h = 1 => Escaped(p.n, p.i)
  BY DEF Valid
<1>2. sent'[p.n] = sent[p.n] /\ p.n \in 1..Len(sent')
  BY <1>1
<1>3. FrameOf(p.n)' = FrameOf(p.n)
  BY <1>2 DEF FrameOf
<1>4. Escaped(p.n, p.i)' <=> Escaped(p.n, p.i)
  BY <1>3 DEF Escaped
<1>5. Valid(p)'
  BY <1>1, <1>2, <1>3, <1>4 DEF Valid
<1>6. ByteAt(p)' = ByteAt(p)
  BY <1>3, <1>4 DEF ByteAt
<1>7. After(p)' = After(p)
  BY <1>3, <1>4 DEF After
<1> QED BY <1>5, <1>6, <1>7

\* The positions of a frame with a payload of L bytes.
LEMMA Regions ==
    ASSUME NEW L \in Nat, NEW i \in Nat, i <= L + 5
    PROVE  \/ i = 0 \/ i = 1 \/ i = 2 \/ i \in 3..(L + 2)
           \/ i = L + 3 \/ i = L + 4 \/ i = L + 5
<1>1. CASE i <= 2
  BY <1>1
<1>2. CASE i > 2 /\ i <= L + 2
  BY <1>2
<1>3. CASE i > L + 2
  BY <1>3
<1> QED BY <1>1, <1>2, <1>3

\* The state of the receiver at each position of a frame.
LEMMA States ==
    ASSUME NEW p, NEW N \in Nat, N >= 7, N = Len(FrameOf(p.n)), p.i \in Nat, p.i < N, p.h \in {0, 1}
    PROVE  /\ p.i = 1 => StateAt(p) = "HEADER1"
           /\ p.i = 2 => StateAt(p) = "HEADER2"
           /\ p.i \in 3..(N - 4) /\ p.h = 0 => StateAt(p) = "BODY"
           /\ p.i \in 3..(N - 4) /\ p.h = 1 => StateAt(p) = "ESCAPE"
           /\ p.i = N - 3 => StateAt(p) = "FCS1"
           /\ p.i = N - 2 => StateAt(p) = "FCS2"
           /\ p.i = N - 1 => StateAt(p) = "END"
BY DEF StateAt

\* In each state updateRxFSM() does what the case of its switch says.
LEMMA OneCase ==
    ASSUME NEW by, updateRxFSM(by)
    PROVE  /\ rxState = "WAITING_FOR_SYNC" => WaitingForSync(by)
           /\ rxState = "HEADER1" => Header1(by)
           /\ rxState = "HEADER2" => Header2(by)
           /\ rxState = "BODY" => Body(by)
           /\ rxState = "ESCAPE" => Escape(by)
           /\ rxState = "FCS1" => Fcs1(by)
           /\ rxState = "FCS2" => Fcs2(by)
           /\ rxState = "END" => End(by)
BY DEF updateRxFSM, WaitingForSync, Header1, Header2, Body, Escape, Fcs1, Fcs2, End

\* One byte on an intact line: the receiver moves on with the sender, and at the end
\* of a frame it has the packet.
LEMMA ReadMoves ==
    ASSUME sent \in Seq(Messages), UNCHANGED sent,
           NEW p, Valid(p), Tellable(sent[p.n]), At(p), updateRxFSM(ByteAt(p)),
           NEW q, q = After(p)
    PROVE  /\ At(q)'
           /\ \/ q.n = p.n /\ pipe' = pipe
              \/ /\ q = StartOf(p.n + 1)
                 /\ pipe' = IF Len(sent[p.n]) >= MinPacket /\ Len(pipe) < PipeCap
                            THEN Append(pipe, sent[p.n]) ELSE pipe
<1>1. /\ p.n \in 1..Len(sent) /\ p.i \in Nat /\ p.h \in {0, 1} /\ p.i < Len(FrameOf(p.n))
      /\ p.h = 1 => Escaped(p.n, p.i)
  BY DEF Valid, Position
<1>2. PICK m \in Seq(Byte) : m = sent[p.n]
  BY <1>1, SentMessage
<1>3. PICK L \in Nat : L = Len(m) /\ L >= 1 /\ L < 256
  <2>1. Len(m) \in 1..255
    BY <1>2 DEF Tellable
  <2>2. \A x \in 1..255 : x \in Nat /\ x >= 1 /\ x < 256
    OBVIOUS
  <2> QED BY <2>1, <2>2
<1>4. PICK F \in Seq(Byte) : F = FrameOf(p.n) /\ F = FullMsg(m)
  BY <1>1, <1>2, SentMessage DEF FrameOf
<1>5. PICK N \in Nat : N = Len(F) /\ N = L + 6
  BY <1>3, <1>4, FrameShape
<1>6. F[1] = 126 /\ F[3] = L /\ F[N] = 126
  <2>1. L % 256 = L
    BY <1>3, SmallValue
  <2>2. F[1] = FRAME_CHAR /\ F[3] = Len(m) % 256 /\ F[Len(m) + 6] = FRAME_CHAR
    <3>1. FullMsg(m)[1] = FRAME_CHAR /\ FullMsg(m)[3] = Len(m) % 256 /\ FullMsg(m)[Len(m) + 6] = FRAME_CHAR
      BY FrameShape
    <3> QED BY <1>4, <3>1, Zenon
  <2> QED BY <1>3, <1>5, <2>1, <2>2 DEF FRAME_CHAR
<1>7. p.i \in 0..(L + 5) /\ F[p.i + 1] \in Byte
  <2>1. p.i \in 0..(L + 5) /\ p.i + 1 \in 1..Len(F)
    BY <1>1, <1>4, <1>5
  <2> QED BY <2>1, ByteOfSeq
<1>8. Escaped(p.n, p.i) <=> p.i \in 3..(L + 2) /\ F[p.i + 1] \in {126, 125}
  <2>1. N - 4 = L + 2
    BY <1>5
  <2> QED BY <1>4, <1>5, <2>1 DEF Escaped, FRAME_CHAR, ESCAPE_CHAR
<1>9. FrameOf(p.n)' = F /\ sent'[p.n] = m
  BY <1>2, <1>4 DEF FrameOf
<1>10. StateAt(q)' = StateAt(q)
  BY DEF StateAt, FrameOf
<1>11. ASSUME q.n = p.n, q.i \in Nat, q.i > 0, rxState' = StateAt(q), rxState' # "END",
              rx_in_progress' = SubSeq(F, 1, q.i),
              rxState' \in {"BODY", "ESCAPE"} => byte_count' = L - (q.i - 3)
       PROVE  At(q)'
  BY <1>2, <1>3, <1>9, <1>10, <1>11 DEF At
<1>12. ASSUME ~(Escaped(p.n, p.i) /\ p.h = 0), p.i < N - 1
       PROVE  q.n = p.n /\ q.i = p.i + 1 /\ q.h = 0
  <2>1. q = [n |-> p.n, i |-> p.i + 1, h |-> 0]
    BY <1>1, <1>4, <1>5, <1>12 DEF After
  <2> QED BY <2>1
<1>13. ASSUME q.n = p.n, q.i \in Nat, q.i < N, q.h \in {0, 1}
       PROVE  /\ q.i = 1 => StateAt(q) = "HEADER1"
              /\ q.i = 2 => StateAt(q) = "HEADER2"
              /\ q.i \in 3..(L + 2) /\ q.h = 0 => StateAt(q) = "BODY"
              /\ q.i \in 3..(L + 2) /\ q.h = 1 => StateAt(q) = "ESCAPE"
              /\ q.i = L + 3 => StateAt(q) = "FCS1"
              /\ q.i = L + 4 => StateAt(q) = "FCS2"
              /\ q.i = L + 5 => StateAt(q) = "END"
  <2>1. FrameOf(q.n) = F
    BY <1>4, <1>13, Zenon
  <2>2. N = Len(FrameOf(q.n))
    BY <1>5, <2>1, Zenon
  <2>3. N = Len(FrameOf(q.n)) /\ N >= 7
    BY <1>3, <1>5, <2>2
  <2>4. N - 4 = L + 2 /\ N - 3 = L + 3 /\ N - 2 = L + 4 /\ N - 1 = L + 5
    BY <1>5
  <2> QED BY <1>13, <2>3, <2>4, States
<1>14. F \in Seq(Byte) /\ Len(F) = N /\ N >= 7
  BY <1>3, <1>5
<1>15. ASSUME NEW i \in Nat, i < N PROVE Append(SubSeq(F, 1, i), F[i + 1]) = SubSeq(F, 1, i + 1)
  <2>1. i \in 0..(Len(F) - 1)
    BY <1>14, <1>15
  <2> QED BY <2>1, OneMoreByte
<1>16. p.i > 0 => rxState = StateAt(p)
  BY <1>1 DEF At
<1>17. ASSUME p.i > 0, rxState # "END" PROVE rx_in_progress = SubSeq(F, 1, p.i)
  BY <1>1, <1>4, <1>17 DEF At
<1>18. ASSUME p.i > 0, rxState \in {"BODY", "ESCAPE"} PROVE byte_count = L - (p.i - 3)
  BY <1>1, <1>2, <1>3, <1>18 DEF At
<1>19. /\ p.i = 1 => StateAt(p) = "HEADER1"
       /\ p.i = 2 => StateAt(p) = "HEADER2"
       /\ p.i \in 3..(L + 2) /\ p.h = 0 => StateAt(p) = "BODY"
       /\ p.i \in 3..(L + 2) /\ p.h = 1 => StateAt(p) = "ESCAPE"
       /\ p.i = L + 3 => StateAt(p) = "FCS1"
       /\ p.i = L + 4 => StateAt(p) = "FCS2"
       /\ p.i = L + 5 => StateAt(p) = "END"
  <2>1. N = Len(FrameOf(p.n)) /\ N >= 7
    BY <1>4, <1>5, <1>14, Zenon
  <2>2. N - 4 = L + 2 /\ N - 3 = L + 3 /\ N - 2 = L + 4 /\ N - 1 = L + 5
    BY <1>5
  <2> QED BY <1>1, <2>1, <2>2, States
<1>20. ASSUME ~Escaped(p.n, p.i) PROVE ByteAt(p) = F[p.i + 1]
  BY <1>4, <1>20 DEF ByteAt
<1>21. /\ rxState = "WAITING_FOR_SYNC" => WaitingForSync(ByteAt(p))
       /\ rxState = "HEADER1" => Header1(ByteAt(p))
       /\ rxState = "HEADER2" => Header2(ByteAt(p))
       /\ rxState = "BODY" => Body(ByteAt(p))
       /\ rxState = "ESCAPE" => Escape(ByteAt(p))
       /\ rxState = "FCS1" => Fcs1(ByteAt(p))
       /\ rxState = "FCS2" => Fcs2(ByteAt(p))
       /\ rxState = "END" => End(ByteAt(p))
  BY OneCase
<1>22. CASE p.i = 0
  <2>1. rxState = "WAITING_FOR_SYNC" /\ ByteAt(p) = 126
    BY <1>4, <1>8, <1>6, <1>22 DEF At, ByteAt
  <2>2. rxState' = "HEADER1" /\ rx_in_progress' = <<126>> /\ pipe' = pipe
    BY <2>1, <1>21 DEF WaitingForSync, StartFrame, FRAME_CHAR
  <2>3. q.n = p.n /\ q.i = 1 /\ q.h = 0
    BY <1>3, <1>5, <1>8, <1>12, <1>22
  <2>4. StateAt(q) = "HEADER1"
    BY <1>3, <1>5, <1>13, <2>3
  <2>5. Len(F) >= 1
    BY <1>14
  <2>6. SubSeq(F, 1, 1) = <<F[1]>>
    BY <2>5, FirstByte
  <2>7. SubSeq(F, 1, 1) = <<126>>
    BY <1>6, <2>6
  <2>8. rx_in_progress' = SubSeq(F, 1, q.i)
    BY <2>2, <2>3, <2>7, Zenon
  <2>9. At(q)'
    BY <1>11, <2>2, <2>3, <2>4, <2>8
  <2> QED BY <2>2, <2>3, <2>9
<1>23. ASSUME p.i > 0, rxState # "END", q.i = p.i + 1,
              rx_in_progress' = Append(rx_in_progress, F[p.i + 1])
       PROVE  rx_in_progress' = SubSeq(F, 1, q.i)
  <2>1. rx_in_progress = SubSeq(F, 1, p.i)
    BY <1>17, <1>23
  <2>2. p.i < N
    BY <1>1, <1>4, <1>5
  <2>3. Append(SubSeq(F, 1, p.i), F[p.i + 1]) = SubSeq(F, 1, p.i + 1)
    BY <1>1, <1>15, <2>2
  <2> QED BY <1>23, <2>1, <2>3, Zenon
<1>24. CASE p.i = 1
  <2>1. rxState = "HEADER1" /\ ByteAt(p) = F[p.i + 1]
    BY <1>8, <1>16, <1>19, <1>20, <1>24
  <2>2. rxState' = "HEADER2" /\ rx_in_progress' = Append(rx_in_progress, F[p.i + 1]) /\ pipe' = pipe
    BY <2>1, <1>21 DEF Header1
  <2>3. q.n = p.n /\ q.i = p.i + 1 /\ q.h = 0 /\ q.i = 2
    BY <1>8, <1>12, <1>14, <1>24
  <2>4. StateAt(q) = "HEADER2"
    BY <1>13, <1>14, <2>3
  <2>5. rx_in_progress' = SubSeq(F, 1, q.i)
    <3>1. p.i > 0 /\ rxState # "END"
      BY <1>24, <2>1
    <3> QED BY <1>23, <2>2, <2>3, <3>1
  <2>6. At(q)'
    BY <1>11, <2>2, <2>3, <2>4, <2>5
  <2> QED BY <2>2, <2>3, <2>6
<1>25. CASE p.i = 2
  <2>1. rxState = "HEADER2" /\ ByteAt(p) = F[p.i + 1] /\ ByteAt(p) = L
    BY <1>8, <1>6, <1>16, <1>19, <1>20, <1>25
  <2>2. /\ rxState' = "BODY" /\ rx_in_progress' = Append(rx_in_progress, F[p.i + 1])
        /\ byte_count' = L /\ pipe' = pipe
    BY <2>1, <1>21 DEF Header2
  <2>3. q.n = p.n /\ q.i = p.i + 1 /\ q.h = 0 /\ q.i = 3
    BY <1>8, <1>12, <1>14, <1>25
  <2>4. StateAt(q) = "BODY"
    BY <1>3, <1>13, <1>14, <2>3
  <2>5. rx_in_progress' = SubSeq(F, 1, q.i)
    <3>1. p.i > 0 /\ rxState # "END"
      BY <1>25, <2>1
    <3> QED BY <1>23, <2>2, <2>3, <3>1
  <2>6. byte_count' = L - (q.i - 3)
    BY <2>2, <2>3
  <2>7. At(q)'
    <3>1. q.i \in Nat /\ q.i > 0 /\ rxState' = StateAt(q) /\ rxState' # "END"
      BY <2>2, <2>3, <2>4
    <3> QED BY <1>11, <2>3, <2>5, <2>6, <3>1
  <2> QED BY <2>2, <2>3, <2>7
<1>26. ASSUME p.i \in 3..(L + 2), rxState # "END", ~(Escaped(p.n, p.i) /\ p.h = 0),
              PushBody(F[p.i + 1]), byte_count = L - (p.i - 3)
       PROVE  At(q)' /\ q.n = p.n /\ pipe' = pipe
  <2>1. q.n = p.n /\ q.i = p.i + 1 /\ q.h = 0
    BY <1>3, <1>5, <1>12, <1>26
  <2>2. rx_in_progress' = SubSeq(F, 1, q.i)
    <3>1. p.i > 0 /\ rx_in_progress' = Append(rx_in_progress, F[p.i + 1])
      BY <1>26 DEF PushBody
    <3> QED BY <1>23, <1>26, <2>1, <3>1
  <2>3. byte_count' = L - (q.i - 3) /\ pipe' = pipe
    BY <1>26, <2>1 DEF PushBody
  <2>4. CASE p.i = L + 2
    <3>1. rxState' = "FCS1"
      <4>1. byte_count' = 0
        BY <2>1, <2>3, <2>4
      <4> QED BY <1>26, <4>1 DEF PushBody
    <3>2. StateAt(q) = "FCS1"
      BY <1>3, <1>5, <1>13, <2>1, <2>4
    <3>3. q.i \in Nat /\ q.i > 0 /\ rxState' = StateAt(q) /\ rxState' # "END"
      BY <1>1, <2>1, <3>1, <3>2
    <3> QED BY <1>11, <2>1, <2>2, <2>3, <3>3
  <2>5. CASE p.i # L + 2
    <3>1. q.i \in Nat /\ q.i >= 3 /\ q.i < L + 3 /\ L \in Nat
      <4>1. p.i \in Nat /\ p.i >= 3 /\ p.i <= L + 2 /\ L \in Nat
        BY <1>3, <1>26
      <4> QED BY <2>1, <2>5, <4>1
    <3>2. rxState' = "BODY"
      <4>1. byte_count' # 0
        BY <2>3, <3>1
      <4> QED BY <1>26, <4>1 DEF PushBody
    <3>3. StateAt(q) = "BODY"
      <4>1. q.i \in 3..(L + 2) /\ q.i < N
        BY <1>5, <3>1
      <4> QED BY <1>13, <2>1, <3>1, <4>1
    <3>4. q.i > 0 /\ rxState' = StateAt(q) /\ rxState' # "END"
      BY <3>1, <3>2, <3>3
    <3> QED BY <1>11, <2>1, <2>2, <2>3, <3>1, <3>4
  <2> QED BY <2>4, <2>5
<1>27. CASE p.i \in 3..(L + 2) /\ ~Escaped(p.n, p.i)
  <2>1. rxState = "BODY" /\ ByteAt(p) = F[p.i + 1] /\ ByteAt(p) \notin {125, 126}
    <3>1. p.h = 0 /\ p.i > 0 /\ p.i \in 3..(L + 2) /\ ~Escaped(p.n, p.i)
      BY <1>1, <1>27
    <3>2. rxState = "BODY"
      BY <1>16, <1>19, <3>1
    <3>3. ByteAt(p) = F[p.i + 1]
      BY <1>20, <3>1
    <3>4. F[p.i + 1] \notin {125, 126}
      BY <1>8, <3>1
    <3> QED BY <3>2, <3>3, <3>4, Zenon
  <2>2. byte_count = L - (p.i - 3)
    BY <1>18, <1>27, <2>1
  <2>3. PushBody(F[p.i + 1])
    BY <2>1, <1>21 DEF Body, ESCAPE_CHAR, FRAME_CHAR
  <2> QED BY <1>26, <1>27, <2>1, <2>2, <2>3
<1>28. CASE p.i \in 3..(L + 2) /\ Escaped(p.n, p.i) /\ p.h = 0
  <2>1. rxState = "BODY" /\ ByteAt(p) = 125
    BY <1>1, <1>16, <1>19, <1>28 DEF ByteAt, ESCAPE_CHAR
  <2>2. rxState' = "ESCAPE" /\ UNCHANGED <<rx_in_progress, byte_count, pipe>>
    BY <2>1, <1>21 DEF Body, ESCAPE_CHAR, FRAME_CHAR
  <2>3. q.n = p.n /\ q.i = p.i /\ q.h = 1
    BY <1>28 DEF After, Valid, Position
  <2>4. StateAt(q) = "ESCAPE"
    BY <1>3, <1>5, <1>13, <1>28, <2>3
  <2>5. rx_in_progress' = SubSeq(F, 1, q.i) /\ byte_count' = L - (q.i - 3)
    BY <1>17, <1>18, <1>28, <2>1, <2>2, <2>3
  <2> QED BY <1>11, <1>28, <2>2, <2>3, <2>4, <2>5
<1>29. CASE p.i \in 3..(L + 2) /\ Escaped(p.n, p.i) /\ p.h = 1
  <2>1. F[p.i + 1] \in {126, 125} /\ rxState = "ESCAPE"
    BY <1>8, <1>16, <1>19, <1>29
  <2>2. ByteAt(p) = F[p.i + 1] - 32
    BY <1>4, <1>29 DEF ByteAt, EscapeShift
  <2>3. PushBody(F[p.i + 1])
    BY <2>1, <2>2, <1>21 DEF Escape, ESCAPE_CHAR, FRAME_CHAR, EscapeShift
  <2>4. byte_count = L - (p.i - 3)
    BY <1>18, <1>29, <2>1
  <2> QED BY <1>26, <1>29, <2>1, <2>3, <2>4
<1>30. CASE p.i = L + 3
  <2>1. rxState = "FCS1" /\ ByteAt(p) = F[p.i + 1]
    BY <1>3, <1>8, <1>16, <1>19, <1>20, <1>30
  <2>2. rxState' = "FCS2" /\ rx_in_progress' = Append(rx_in_progress, F[p.i + 1]) /\ pipe' = pipe
    BY <2>1, <1>21 DEF Fcs1
  <2>3. q.n = p.n /\ q.i = p.i + 1 /\ q.h = 0 /\ q.i = L + 4
    BY <1>3, <1>5, <1>8, <1>12, <1>30
  <2>4. StateAt(q) = "FCS2"
    BY <1>3, <1>5, <1>13, <2>3
  <2>5. rx_in_progress' = SubSeq(F, 1, q.i)
    BY <1>3, <1>23, <1>30, <2>1, <2>2, <2>3
  <2> QED BY <1>11, <1>3, <2>2, <2>3, <2>4, <2>5
<1>31. CASE p.i = L + 4
  <2>1. rxState = "FCS2" /\ ByteAt(p) = F[p.i + 1]
    BY <1>3, <1>8, <1>16, <1>19, <1>20, <1>31
  <2>2. rxState' = "END" /\ rx_in_progress' = rx_in_progress \o <<F[p.i + 1], 126>> /\ pipe' = pipe
    BY <2>1, <1>21 DEF Fcs2, FRAME_CHAR
  <2>3. q.n = p.n /\ q.i = p.i + 1 /\ q.h = 0 /\ q.i = L + 5
    BY <1>3, <1>5, <1>8, <1>12, <1>31
  <2>4. StateAt(q) = "END"
    BY <1>3, <1>5, <1>13, <2>3
  <2>5. rx_in_progress' = F
    <3>1. rx_in_progress = SubSeq(F, 1, L + 4)
      BY <1>3, <1>17, <1>31, <2>1
    <3>2. p.i + 1 = L + 5 /\ N = L + 6
      BY <1>3, <1>5, <1>31
    <3>3. rx_in_progress' = SubSeq(F, 1, L + 4) \o <<F[L + 5], F[L + 6]>>
      BY <1>6, <2>2, <3>1, <3>2
    <3>4. L + 4 \in Nat /\ Len(F) = (L + 4) + 2 /\ (L + 4) + 1 = L + 5 /\ (L + 4) + 2 = L + 6
      BY <1>5
    <3>5. SubSeq(F, 1, L + 4) \o <<F[(L + 4) + 1], F[(L + 4) + 2]>> = F
      BY <3>4, LastTwo
    <3> QED BY <3>3, <3>4, <3>5
  <2>6. At(q)'
    <3>1. q.i > 0 /\ rxState' = StateAt(q)'
      BY <1>3, <1>10, <2>2, <2>3, <2>4
    <3>2. FrameOf(q.n)' = F
      BY <1>9, <2>3
    <3> QED BY <2>2, <2>5, <3>1, <3>2 DEF At
  <2> QED BY <2>2, <2>3, <2>6
<1>32. CASE p.i = L + 5
  <2>1. rxState = "END" /\ ByteAt(p) = F[p.i + 1]
    BY <1>3, <1>8, <1>16, <1>19, <1>20, <1>32
  <2>2. p.i + 1 = N
    BY <1>5, <1>32
  <2>3. ByteAt(p) = 126
    BY <1>6, <2>1, <2>2
  <2>4. rx_in_progress = F
    BY <1>3, <1>4, <1>32, <2>1 DEF At
  <2>5. (validateRx(F) <=> L >= MinPacket) /\ Packet(F) = m
    BY <1>2, <1>3, <1>4, FrameAccepted
  <2>6. q = StartOf(p.n + 1)
    BY <1>3, <1>4, <1>5, <1>8, <1>32 DEF After
  <2>7. rxState' = "WAITING_FOR_SYNC"
    BY <2>1, <1>21 DEF End
  <2>8. pipe' = IF validateRx(F) /\ Len(m) >= MinPacket /\ Len(pipe) < PipeCap
                THEN Append(pipe, m) ELSE pipe
    BY <2>1, <2>3, <2>4, <2>5, <1>21 DEF End, Enqueue, FRAME_CHAR
  <2>9. At(q)'
    BY <2>6, <2>7 DEF At, StartOf
  <2> QED BY <1>2, <1>3, <2>5, <2>6, <2>8, <2>9
<1>33. \/ p.i = 0 \/ p.i = 1 \/ p.i = 2 \/ p.i \in 3..(L + 2)
       \/ p.i = L + 3 \/ p.i = L + 4 \/ p.i = L + 5
  <2>1. L \in Nat /\ p.i \in Nat /\ p.i <= L + 5
    BY <1>3, <1>7
  <2> QED BY <2>1, Regions, Zenon
<1> QED BY <1>1, <1>33, <1>22, <1>24, <1>25, <1>27, <1>28, <1>29, <1>30, <1>31, <1>32

-----------------------------------------------------------------------------
(* The invariant, action by action.                                        *)

\* The receiver is at a position for as long as neither it nor the frame changes.
LEMMA AtStays ==
    ASSUME NEW p, At(p), UNCHANGED rxVars,
           p.i = 0 \/ (FrameOf(p.n)' = FrameOf(p.n) /\ sent'[p.n] = sent[p.n])
    PROVE  At(p)'
<1>1. CASE p.i = 0
  BY <1>1 DEF At, rxVars
<1>2. CASE FrameOf(p.n)' = FrameOf(p.n) /\ sent'[p.n] = sent[p.n]
  <2>1. StateAt(p)' = StateAt(p)
    BY <1>2 DEF StateAt
  <2> QED BY <1>2, <2>1 DEF At, rxVars
<1> QED BY <1>1, <1>2

\* What the type invariant says of the line.
LEMMA LineTypes ==
    ASSUME LinkTypes
    PROVE  /\ sent \in Seq(Messages) /\ Len(sent) \in Nat /\ faults \in Nat /\ tx \in Position
           /\ wire \in Seq([pos : Position, b : Byte]) /\ Len(wire) \in Nat
           /\ rcvd \in Seq(Seq(Byte))
BY DEF LinkTypes

LEMMA LinkInitInv == ASSUME LinkInit PROVE LinkInv
<1>1. RxInv /\ RxTypeOK
  BY RxInitInv DEF LinkInit, RxInv
<1>2. sent = <<>> /\ tx = StartOf(1) /\ wire = <<>> /\ rcvd = <<>> /\ faults = 0
  BY DEF LinkInit
<1>3. StartOf(1) \in Position /\ StartOf(1).i = 0
  BY DEF StartOf, Position
<1>4. LinkTypes
  BY <1>1, <1>2, <1>3 DEF LinkTypes
<1>5. TxInv /\ WireInv /\ Chained
  BY <1>2 DEF TxInv, WireInv, Chained
<1>6. InStep
  BY <1>2, <1>3 DEF InStep, RxPos, At, LinkInit, RxInit
<1> QED BY <1>1, <1>4, <1>5, <1>6 DEF LinkInv

LEMMA SendInv == ASSUME LinkInv, NEW m \in Messages, send(m) PROVE LinkInv'
<1>1. /\ sent' = Append(sent, m) /\ UNCHANGED <<rxVars, pipe, tx, wire, rcvd, faults>>
      /\ tx.n # Len(sent)
  BY DEF send, Sending
<1>2. /\ sent \in Seq(Messages) /\ Len(sent) \in Nat /\ faults \in Nat
      /\ wire \in Seq([pos : Position, b : Byte]) /\ Len(wire) \in Nat
  BY LineTypes DEF LinkInv
<1>3. /\ sent' \in Seq(Messages) /\ Len(sent') = Len(sent) + 1
      /\ \A k \in 1..Len(sent) : sent'[k] = sent[k]
  BY <1>1, <1>2
<1>4. RxInv' /\ LinkTypes'
  BY <1>1, <1>3 DEF LinkInv, LinkTypes, RxInv, RxTypeOK, FrameLength, PacketsBounded, Declared, rxVars
<1>5. tx = StartOf(Len(sent) + 1)
  BY <1>1 DEF LinkInv, TxInv
<1>6. TxInv'
  <2>1. PICK n \in 1..Len(sent') : n = Len(sent') /\ tx' = StartOf(n)
    BY <1>1, <1>2, <1>3, <1>5
  <2>2. sent'[n] \in Seq(Byte)
    <3>1. sent'[n] \in Messages
      BY <1>3, <2>1
    <3> QED BY <3>1, MessagesAssumption
  <2>3. Len(FrameOf(n)') = Len(sent'[n]) + 6
    BY <2>2, FrameShape DEF FrameOf
  <2>4. tx'.n = n /\ tx'.i = 0 /\ tx'.h = 0 /\ tx' \in Position
    BY <1>2, <1>3, <2>1 DEF StartOf, Position
  <2>5. tx'.i < Len(FrameOf(tx.n)')
    BY <2>2, <2>3, <2>4 DEF FrameOf
  <2>6. Valid(tx)'
    BY <2>1, <2>4, <2>5 DEF Valid
  <2> QED BY <2>1, <2>4, <2>6 DEF TxInv
<1>7. ASSUME NEW k \in 1..Len(wire)
      PROVE  /\ Valid(wire[k].pos) /\ wire[k].b = ByteAt(wire[k].pos)
             /\ Valid(wire[k].pos)' /\ ByteAt(wire[k].pos)' = ByteAt(wire[k].pos)
             /\ After(wire[k].pos)' = After(wire[k].pos)
  <2>1. Valid(wire[k].pos) /\ wire[k].b = ByteAt(wire[k].pos)
    BY DEF LinkInv, WireInv
  <2>2. PICK p : p = wire[k].pos
    OBVIOUS
  <2>3. Valid(p)' /\ ByteAt(p)' = ByteAt(p) /\ After(p)' = After(p)
    BY <1>1, <1>2, <2>1, <2>2, FramesStay
  <2>4. p = wire'[k].pos
    BY <1>1, <2>2
  <2> QED BY <1>1, <2>1, <2>2, <2>3, <2>4
<1>8. WireInv' /\ Chained'
  BY <1>1, <1>7 DEF LinkInv, WireInv, Chained
<1>9. InStep'
  <2>1. ASSUME Intact' PROVE At(RxPos)'
    <3>1. Intact
      BY <1>1, <1>2, <1>3, <2>1 DEF Intact
    <3>2. PICK p : p = RxPos /\ p = RxPos' /\ At(p)
      BY <1>1, <3>1 DEF LinkInv, InStep, RxPos
    <3>3. CASE wire = <<>>
      <4>1. p.i = 0
        BY <1>5, <3>2, <3>3 DEF RxPos, StartOf
      <4> QED BY <1>1, <3>2, <4>1, AtStays
    <3>4. CASE wire # <<>>
      <4>1. p = wire[1].pos /\ 1 \in 1..Len(wire)
        BY <1>2, <3>2, <3>4 DEF RxPos
      <4>2. p.n \in 1..Len(sent)
        BY <1>7, <4>1 DEF Valid
      <4>3. sent'[p.n] = sent[p.n] /\ FrameOf(p.n)' = FrameOf(p.n)
        BY <1>3, <4>2 DEF FrameOf
      <4> QED BY <1>1, <3>2, <4>3, AtStays
    <3> QED BY <3>3, <3>4
  <2> QED BY <2>1 DEF InStep
<1> QED BY <1>4, <1>6, <1>8, <1>9 DEF LinkInv

LEMMA WriteByteInv == ASSUME LinkInv, WriteByte PROVE LinkInv' /\ RxPos' = RxPos
<1>1. /\ wire' = Append(wire, [pos |-> tx, b |-> ByteAt(tx)]) /\ tx' = After(tx)
      /\ UNCHANGED <<rxVars, pipe, sent, rcvd, faults>> /\ tx.n = Len(sent)
  BY DEF WriteByte, Sending
<1>2. /\ sent \in Seq(Messages) /\ Len(sent) \in Nat /\ faults \in Nat /\ tx \in Position
      /\ wire \in Seq([pos : Position, b : Byte]) /\ Len(wire) \in Nat
  BY LineTypes DEF LinkInv
<1>3. Valid(tx)
  <2>1. StartOf(Len(sent) + 1).n # Len(sent)
    BY <1>2 DEF StartOf
  <2> QED BY <1>1, <2>1 DEF LinkInv, TxInv
<1>4. ByteAt(tx) \in Byte
  BY <1>2, <1>3, ByteAtType
<1>5. After(tx) \in Position
      /\ ((Valid(After(tx)) /\ After(tx).n = Len(sent)) \/ After(tx) = StartOf(Len(sent) + 1))
  BY <1>1, <1>2, <1>3, AfterValid
<1>6. PICK r \in [pos : Position, b : Byte] :
         r.pos = tx /\ r.b = ByteAt(tx) /\ wire' = Append(wire, r)
  BY <1>1, <1>2, <1>4
<1>7. /\ wire' \in Seq([pos : Position, b : Byte]) /\ Len(wire') = Len(wire) + 1
      /\ wire'[Len(wire) + 1] = r /\ \A k \in 1..Len(wire) : wire'[k] = wire[k]
  BY <1>2, <1>6
<1>8. RxInv' /\ LinkTypes'
  BY <1>1, <1>5, <1>7
     DEF LinkInv, LinkTypes, RxInv, RxTypeOK, FrameLength, PacketsBounded, Declared, rxVars
<1>9. /\ \A p : Valid(p)' <=> Valid(p)
      /\ \A p : ByteAt(p)' = ByteAt(p) /\ After(p)' = After(p)
  BY <1>1 DEF Valid, ByteAt, After, Escaped, FrameOf
<1>10. TxInv'
  BY <1>1, <1>5, <1>9 DEF TxInv
<1>11. \A k \in 1..Len(wire') : k \in 1..Len(wire) \/ k = Len(wire) + 1
  BY <1>2, <1>7
<1>12. WireInv'
  <2>1. ASSUME NEW k \in 1..Len(wire') PROVE Valid(wire'[k].pos) /\ wire'[k].b = ByteAt(wire'[k].pos)
    <3>1. CASE k \in 1..Len(wire)
      BY <1>7, <3>1 DEF LinkInv, WireInv
    <3>2. CASE k = Len(wire) + 1
      BY <1>3, <1>6, <1>7, <3>2
    <3> QED BY <1>11, <3>1, <3>2
  <2> QED BY <1>9, <2>1 DEF WireInv
<1>13. Chained'
  <2>1. ASSUME faults = 0, NEW k \in 1..Len(wire')
        PROVE  After(wire'[k].pos) = IF k = Len(wire') THEN tx' ELSE wire'[k + 1].pos
    <3>1. CASE k = Len(wire) + 1
      BY <1>1, <1>6, <1>7, <3>1
    <3>2. CASE k \in 1..Len(wire) /\ k # Len(wire)
      <4>1. After(wire[k].pos) = wire[k + 1].pos
        BY <2>1, <3>2 DEF LinkInv, Chained
      <4>2. k + 1 \in 1..Len(wire) /\ k # Len(wire')
        BY <1>2, <1>7, <3>2
      <4> QED BY <1>7, <3>2, <4>1, <4>2
    <3>3. CASE k \in 1..Len(wire) /\ k = Len(wire)
      <4>1. After(wire[k].pos) = tx
        BY <2>1, <3>3 DEF LinkInv, Chained
      <4>2. k # Len(wire') /\ k + 1 = Len(wire) + 1
        BY <1>2, <1>7, <3>3
      <4> QED BY <1>6, <1>7, <3>3, <4>1, <4>2
    <3> QED BY <1>11, <3>1, <3>2, <3>3
  <2> QED BY <1>1, <1>9, <2>1 DEF Chained
<1>14. RxPos' = RxPos
  <2>1. CASE wire = <<>>
    BY <1>6, <1>7, <2>1 DEF RxPos
  <2>2. CASE wire # <<>>
    BY <1>2, <1>7, <2>2 DEF RxPos
  <2> QED BY <2>1, <2>2
<1>15. InStep'
  <2>1. ASSUME Intact' PROVE At(RxPos)'
    <3>1. Intact
      BY <1>1, <2>1 DEF Intact
    <3>2. PICK p : p = RxPos /\ p = RxPos' /\ At(p)
      BY <1>14, <3>1 DEF LinkInv, InStep
    <3>3. FrameOf(p.n)' = FrameOf(p.n) /\ sent'[p.n] = sent[p.n]
      BY <1>1 DEF FrameOf
    <3> QED BY <1>1, <3>2, <3>3, AtStays
  <2> QED BY <2>1 DEF InStep
<1> QED BY <1>8, <1>10, <1>12, <1>13, <1>14, <1>15 DEF LinkInv

\* A fault leaves nothing to show about the order of the bytes.
LEMMA WriteFailsInv == ASSUME LinkInv, WriteFails PROVE LinkInv' /\ ~Intact'
<1>1. /\ tx' = StartOf(tx.n + 1) /\ faults' = faults + 1 /\ tx.n = Len(sent)
      /\ UNCHANGED <<rxVars, pipe, sent, wire, rcvd>>
  BY DEF WriteFails, Sending
<1>2. faults \in Nat /\ Len(sent) \in Nat
  BY LineTypes DEF LinkInv
<1>3. tx' \in Position /\ tx' = StartOf(Len(sent) + 1)
  BY <1>1, <1>2 DEF StartOf, Position
<1>4. RxInv' /\ LinkTypes'
  BY <1>1, <1>2, <1>3
     DEF LinkInv, LinkTypes, RxInv, RxTypeOK, FrameLength, PacketsBounded, Declared, rxVars
<1>5. TxInv'
  BY <1>1, <1>3 DEF TxInv
<1>6. WireInv'
  BY <1>1 DEF LinkInv, WireInv, Valid, ByteAt, Escaped, FrameOf
<1>7. Chained' /\ InStep' /\ ~Intact'
  BY <1>1, <1>2 DEF Chained, InStep, Intact
<1> QED BY <1>4, <1>5, <1>6, <1>7 DEF LinkInv

\* What is left of the line when its first byte is gone.
LEMMA FirstGone ==
    ASSUME LinkInv, wire # <<>>, wire' = Tail(wire), UNCHANGED sent
    PROVE  /\ wire' \in Seq([pos : Position, b : Byte]) /\ Len(wire') = Len(wire) - 1
           /\ \A k \in 1..Len(wire') : k + 1 \in 1..Len(wire) /\ wire'[k] = wire[k + 1]
           /\ WireInv'
<1>1. wire \in Seq([pos : Position, b : Byte]) /\ Len(wire) \in Nat
  BY LineTypes DEF LinkInv
<1>2. /\ wire' \in Seq([pos : Position, b : Byte]) /\ Len(wire') = Len(wire) - 1
      /\ \A k \in 1..Len(wire') : k + 1 \in 1..Len(wire) /\ wire'[k] = wire[k + 1]
  BY <1>1
<1>3. \A k \in 1..Len(wire) : Valid(wire[k].pos) /\ wire[k].b = ByteAt(wire[k].pos)
  BY DEF LinkInv, WireInv
<1>4. (\A p : Valid(p)' <=> Valid(p)) /\ (\A p : ByteAt(p)' = ByteAt(p))
  BY DEF Valid, ByteAt, Escaped, FrameOf
<1>5. WireInv'
  BY <1>2, <1>3, <1>4 DEF WireInv
<1> QED BY <1>2, <1>5

LEMMA LoseByteInv == ASSUME LinkInv, LoseByte PROVE LinkInv' /\ ~Intact'
<1>1. /\ wire # <<>> /\ wire' = Tail(wire) /\ faults' = faults + 1
      /\ UNCHANGED <<rxVars, pipe, sent, tx, rcvd>>
  BY DEF LoseByte
<1>2. faults \in Nat
  BY LineTypes DEF LinkInv
<1>3. wire' \in Seq([pos : Position, b : Byte]) /\ WireInv'
  BY <1>1, FirstGone
<1>4. RxInv' /\ LinkTypes'
  BY <1>1, <1>2, <1>3
     DEF LinkInv, LinkTypes, RxInv, RxTypeOK, FrameLength, PacketsBounded, Declared, rxVars
<1>5. TxInv'
  BY <1>1 DEF LinkInv, TxInv, Valid, Escaped, FrameOf
<1>6. Chained' /\ InStep' /\ ~Intact'
  BY <1>1, <1>2 DEF Chained, InStep, Intact
<1> QED BY <1>3, <1>4, <1>5, <1>6 DEF LinkInv

\* The receiver takes the next byte of an intact line: it moves on by one position.
LEMMA ReadMovesOn ==
    ASSUME LinkInv, Intact, ReadByte
    PROVE  /\ RxPos.n \in 1..Len(sent) /\ At(RxPos)'
           /\ \/ RxPos'.n = RxPos.n /\ pipe' = pipe
              \/ /\ RxPos' = StartOf(RxPos.n + 1)
                 /\ pipe' = IF Len(sent[RxPos.n]) >= MinPacket /\ Len(pipe) < PipeCap
                            THEN Append(pipe, sent[RxPos.n]) ELSE pipe
<1>1. /\ wire # <<>> /\ wire' = Tail(wire) /\ updateRxFSM(Head(wire).b)
      /\ UNCHANGED <<sent, tx, rcvd, faults>>
  BY DEF ReadByte
<1>2. /\ sent \in Seq(Messages) /\ Len(sent) \in Nat
      /\ wire \in Seq([pos : Position, b : Byte]) /\ Len(wire) \in Nat
  BY LineTypes DEF LinkInv
<1>3. 1 \in 1..Len(wire) /\ Head(wire) = wire[1]
  BY <1>1, <1>2
<1>4. PICK p : p = wire[1].pos
  OBVIOUS
<1>5. p = RxPos /\ Valid(p) /\ updateRxFSM(ByteAt(p)) /\ At(p)
  BY <1>1, <1>3, <1>4 DEF LinkInv, WireInv, InStep, RxPos
<1>6. p.n \in 1..Len(sent) /\ Tellable(sent[p.n])
  BY <1>5 DEF Valid, Intact
<1>7. PICK q : q = After(p)
  OBVIOUS
<1>8. RxPos' = q
  <2>1. After(wire[1].pos) = IF 1 = Len(wire) THEN tx ELSE wire[1 + 1].pos
    BY <1>3 DEF LinkInv, Chained, Intact
  <2>2. /\ wire' \in Seq([pos : Position, b : Byte]) /\ Len(wire') = Len(wire) - 1
        /\ \A k \in 1..Len(wire') : k + 1 \in 1..Len(wire) /\ wire'[k] = wire[k + 1]
    BY <1>1, FirstGone
  <2>3. CASE Len(wire) = 1
    <3>1. wire' = <<>>
      BY <2>2, <2>3
    <3> QED BY <1>1, <1>4, <1>7, <2>1, <2>3, <3>1 DEF RxPos
  <2>4. CASE Len(wire) # 1
    <3>1. Len(wire') >= 1 /\ 1 \in 1..Len(wire') /\ wire' # <<>>
      BY <1>2, <1>3, <2>2, <2>4
    <3>2. Head(wire') = wire'[1] /\ wire'[1] = wire[1 + 1]
      BY <2>2, <3>1
    <3> QED BY <1>4, <1>7, <2>1, <2>4, <3>1, <3>2 DEF RxPos
  <2> QED BY <2>3, <2>4
<1>9. /\ At(q)'
      /\ \/ q.n = p.n /\ pipe' = pipe
         \/ /\ q = StartOf(p.n + 1)
            /\ pipe' = IF Len(sent[p.n]) >= MinPacket /\ Len(pipe) < PipeCap
                       THEN Append(pipe, sent[p.n]) ELSE pipe
  BY <1>1, <1>2, <1>5, <1>6, <1>7, ReadMoves
<1> QED BY <1>5, <1>6, <1>8, <1>9

LEMMA ReadByteInv == ASSUME LinkInv, ReadByte PROVE LinkInv'
<1>1. /\ wire # <<>> /\ wire' = Tail(wire) /\ updateRxFSM(Head(wire).b)
      /\ UNCHANGED <<sent, tx, rcvd, faults>>
  BY DEF ReadByte
<1>2. /\ sent \in Seq(Messages)
      /\ wire \in Seq([pos : Position, b : Byte]) /\ Len(wire) \in Nat
  BY LineTypes DEF LinkInv
<1>3. /\ wire' \in Seq([pos : Position, b : Byte]) /\ Len(wire') = Len(wire) - 1
      /\ \A k \in 1..Len(wire') : k + 1 \in 1..Len(wire) /\ wire'[k] = wire[k + 1]
      /\ WireInv'
  BY <1>1, FirstGone
<1>4. RxInv'
  <2>1. Head(wire) \in [pos : Position, b : Byte]
    BY <1>1, <1>2, HeadTailProperties
  <2>2. Head(wire).b \in Byte
    BY <2>1
  <2> QED BY <1>1, <2>2, UpdateRxInv DEF LinkInv
<1>5. LinkTypes'
  BY <1>1, <1>3, <1>4 DEF LinkInv, LinkTypes, RxInv
<1>6. TxInv'
  BY <1>1 DEF LinkInv, TxInv, Valid, Escaped, FrameOf
<1>7. Chained'
  <2>1. ASSUME faults = 0, NEW k \in 1..Len(wire')
        PROVE  After(wire'[k].pos) = IF k = Len(wire') THEN tx ELSE wire'[k + 1].pos
    <3>1. k + 1 \in 1..Len(wire) /\ wire'[k] = wire[k + 1]
      BY <1>3
    <3>2. After(wire[k + 1].pos) = IF k + 1 = Len(wire) THEN tx ELSE wire[(k + 1) + 1].pos
      BY <2>1, <3>1 DEF LinkInv, Chained
    <3>3. k + 1 = Len(wire) <=> k = Len(wire')
      BY <1>2, <1>3
    <3>4. ASSUME k # Len(wire') PROVE wire'[k + 1] = wire[(k + 1) + 1]
      <4>1. k + 1 \in 1..Len(wire')
        BY <1>2, <1>3, <3>4
      <4> QED BY <1>3, <4>1
    <3> QED BY <3>1, <3>2, <3>3, <3>4
  <2>2. \A p : After(p)' = After(p)
    BY <1>1 DEF After, Escaped, FrameOf
  <2> QED BY <1>1, <2>1, <2>2 DEF Chained
<1>8. InStep'
  <2>1. Intact' => Intact
    BY <1>1 DEF Intact
  <2> QED BY <2>1, ReadMovesOn DEF InStep
<1> QED BY <1>3, <1>4, <1>5, <1>6, <1>7, <1>8 DEF LinkInv

LEMMA ReceivePacketInv == ASSUME LinkInv, ReceivePacket PROVE LinkInv' /\ RxPos' = RxPos
<1>1. /\ receive /\ rcvd' = Append(rcvd, Head(pipe)) /\ UNCHANGED rxVars
      /\ UNCHANGED <<sent, tx, wire, faults>> /\ pipe # <<>>
  BY DEF ReceivePacket, receive
<1>2. RxInv'
  BY <1>1, ReceiveInv DEF LinkInv
<1>3. Head(pipe) \in Seq(Byte) /\ rcvd \in Seq(Seq(Byte))
  BY <1>1 DEF LinkInv, LinkTypes, RxTypeOK
<1>4. LinkTypes'
  BY <1>1, <1>2, <1>3 DEF LinkInv, LinkTypes, RxInv
<1>5. TxInv' /\ WireInv' /\ Chained'
  BY <1>1 DEF LinkInv, TxInv, WireInv, Chained, Valid, ByteAt, After, Escaped, FrameOf
<1>6. RxPos' = RxPos
  BY <1>1 DEF RxPos
<1>7. InStep'
  <2>1. ASSUME Intact' PROVE At(RxPos)'
    <3>1. Intact
      BY <1>1, <2>1 DEF Intact
    <3>2. PICK p : p = RxPos /\ p = RxPos' /\ At(p)
      BY <1>6, <3>1 DEF LinkInv, InStep
    <3>3. FrameOf(p.n)' = FrameOf(p.n) /\ sent'[p.n] = sent[p.n]
      BY <1>1 DEF FrameOf
    <3> QED BY <1>1, <3>2, <3>3, AtStays
  <2> QED BY <2>1 DEF InStep
<1> QED BY <1>2, <1>4, <1>5, <1>6, <1>7 DEF LinkInv

LEMMA StutterInv == ASSUME LinkInv, UNCHANGED linkVars PROVE LinkInv' /\ RxPos' = RxPos
<1>1. UNCHANGED <<rxState, rx_in_progress, byte_count, pipe, sent, tx, wire, rcvd, faults>>
  BY DEF linkVars, rxVars
<1>2. RxPos' = RxPos
  BY <1>1 DEF RxPos
<1>3. LinkTypes' /\ RxInv'
  BY <1>1 DEF LinkInv, LinkTypes, RxInv, RxTypeOK, FrameLength, PacketsBounded, Declared
<1>4. TxInv' /\ WireInv' /\ Chained'
  BY <1>1 DEF LinkInv, TxInv, WireInv, Chained, Valid, ByteAt, After, Escaped, FrameOf
<1>5. InStep'
  <2>1. ASSUME Intact' PROVE At(RxPos)'
    <3>1. Intact
      BY <1>1, <2>1 DEF Intact
    <3>2. PICK p : p = RxPos /\ p = RxPos' /\ At(p)
      BY <1>2, <3>1 DEF LinkInv, InStep
    <3>3. FrameOf(p.n)' = FrameOf(p.n) /\ sent'[p.n] = sent[p.n]
      BY <1>1 DEF FrameOf
    <3> QED BY <1>1, <3>2, <3>3, AtStays DEF rxVars
  <2> QED BY <2>1 DEF InStep
<1> QED BY <1>2, <1>3, <1>4, <1>5 DEF LinkInv

-----------------------------------------------------------------------------
(* The theorems.                                                           *)

\* The invariant holds in every reachable state of the link.
THEOREM LinkInvariant == Spec => []LinkInv
<1>1. LinkInit => LinkInv
  BY LinkInitInv
<1>2. LinkInv /\ [Next]_linkVars => LinkInv'
  BY SendInv, WriteByteInv, WriteFailsInv, LoseByteInv, ReadByteInv, ReceivePacketInv, StutterInv
     DEF Next
<1> QED BY <1>1, <1>2, PTL DEF Spec

\* Every variable of the two framers and of the line between them keeps its type,
\* and transmitFrame() stays inside the frame, also when writes fail and bytes are
\* lost.
THEOREM LinkTypeCorrect == Spec => []LinkTypeOK
<1>1. ASSUME LinkInv PROVE LinkTypeOK
  <2>1. \A k \in 1..Len(wire) : InFrame(wire[k].pos)
    BY <1>1 DEF LinkInv, WireInv, Valid, InFrame
  <2>2. ASSUME Sending PROVE InFrame(tx)
    <3>1. Len(sent) \in Nat
      BY <1>1, LenProperties DEF LinkInv, LinkTypes
    <3>2. StartOf(Len(sent) + 1).n = Len(sent) + 1
      BY DEF StartOf
    <3>3. tx # StartOf(Len(sent) + 1)
      BY <2>2, <3>1, <3>2 DEF Sending
    <3> QED BY <1>1, <3>3 DEF LinkInv, TxInv, Valid, InFrame
  <2> QED BY <1>1, <2>1, <2>2 DEF LinkTypeOK, LinkInv
<1> QED BY <1>1, LinkInvariant, PTL

\* On an intact line the state machine of updateRxFSM() is never off by a byte from
\* what transmitFrame() has written, for every payload and every checksum.
THEOREM LinkInStep == Spec => []InStep
<1>1. LinkInv => InStep
  BY DEF LinkInv
<1> QED BY <1>1, LinkInvariant, PTL

-----------------------------------------------------------------------------
(* The refinement.                                                         *)

LEMMA Slice ==
    ASSUME NEW S, NEW s \in Seq(S), NEW a \in 1..(Len(s) + 1), NEW b \in (a - 1)..Len(s)
    PROVE  /\ SubSeq(s, a, b) \in Seq(S) /\ Len(SubSeq(s, a, b)) = b - a + 1
           /\ \A k \in 1..(b - a + 1) : SubSeq(s, a, b)[k] = s[a + k - 1]
BY SubSeqProperties

\* Slices of the history: what is in flight after one more message, and after one
\* message less.
LEMMA HistorySlices ==
    ASSUME NEW s \in Seq(Messages), NEW n \in 1..(Len(s) + 1)
    PROVE  /\ \A m \in Messages :
                 SubSeq(Append(s, m), n, Len(Append(s, m))) = Append(SubSeq(s, n, Len(s)), m)
           /\ n \in 1..Len(s) => /\ SubSeq(s, n, Len(s)) # <<>>
                                 /\ Head(SubSeq(s, n, Len(s))) = s[n]
                                 /\ Tail(SubSeq(s, n, Len(s))) = SubSeq(s, n + 1, Len(s))
<1>1. PICK L \in Nat : L = Len(s)
  OBVIOUS
<1>2. PICK t : t = SubSeq(s, n, L)
  OBVIOUS
<1>3. /\ t \in Seq(Messages) /\ Len(t) = L - n + 1
      /\ \A k \in 1..(L - n + 1) : t[k] = s[n + k - 1]
  BY <1>1, <1>2, Slice
<1>4. ASSUME NEW m \in Messages
      PROVE  SubSeq(Append(s, m), n, Len(Append(s, m))) = Append(t, m)
  <2>1. PICK a : a = Append(s, m)
    OBVIOUS
  <2>2. a \in Seq(Messages) /\ Len(a) = L + 1 /\ a[L + 1] = m /\ \A k \in 1..L : a[k] = s[k]
    BY <1>1, <2>1, AppendProperties
  <2>3. PICK u : u = SubSeq(a, n, L + 1)
    OBVIOUS
  <2>4. /\ u \in Seq(Messages) /\ Len(u) = (L + 1) - n + 1
        /\ \A k \in 1..((L + 1) - n + 1) : u[k] = a[n + k - 1]
    <3>1. n \in 1..(Len(a) + 1) /\ L + 1 \in (n - 1)..Len(a)
      BY <1>1, <2>2
    <3> QED BY <2>2, <2>3, <3>1, Slice
  <2>5. PICK v : v = Append(t, m)
    OBVIOUS
  <2>6. /\ v \in Seq(Messages) /\ Len(v) = (L - n + 1) + 1 /\ v[(L - n + 1) + 1] = m
        /\ \A k \in 1..(L - n + 1) : v[k] = t[k]
    BY <1>3, <2>5, AppendProperties
  <2>7. Len(u) = Len(v)
    BY <1>1, <2>4, <2>6
  <2>8. ASSUME NEW k \in 1..Len(u) PROVE u[k] = v[k]
    <3>1. k \in 1..((L + 1) - n + 1) /\ (k \in 1..(L - n + 1) \/ k = (L - n + 1) + 1)
      BY <1>1, <2>4
    <3>2. CASE k \in 1..(L - n + 1)
      <4>1. n + k - 1 \in 1..L
        BY <1>1, <3>2
      <4> QED BY <1>3, <2>2, <2>4, <2>6, <3>1, <3>2, <4>1
    <3>3. CASE k = (L - n + 1) + 1
      <4>1. n + k - 1 = L + 1
        BY <1>1, <3>3
      <4> QED BY <2>2, <2>4, <2>6, <3>1, <3>3, <4>1
    <3> QED BY <3>1, <3>2, <3>3
  <2>9. u = v
    BY <2>4, <2>6, <2>7, <2>8, SeqEqual
  <2> QED BY <2>1, <2>2, <2>3, <2>5, <2>9
<1>5. ASSUME n \in 1..L
      PROVE  t # <<>> /\ Head(t) = s[n] /\ Tail(t) = SubSeq(s, n + 1, L)
  <2>1. Len(t) >= 1 /\ t # <<>> /\ Head(t) = t[1] /\ t[1] = s[n]
    <3>1. Len(t) >= 1 /\ 1 \in 1..(L - n + 1) /\ n + 1 - 1 = n
      BY <1>1, <1>3, <1>5
    <3>2. t[1] = s[n + 1 - 1]
      BY <1>3, <3>1
    <3> QED BY <1>3, <3>1, <3>2
  <2>2. PICK u : u = Tail(t)
    OBVIOUS
  <2>3. /\ u \in Seq(Messages) /\ Len(u) = Len(t) - 1 /\ \A k \in 1..Len(u) : u[k] = t[k + 1]
    BY <1>3, <2>1, <2>2, HeadTailProperties
  <2>4. PICK v : v = SubSeq(s, n + 1, L)
    OBVIOUS
  <2>5. /\ v \in Seq(Messages) /\ Len(v) = L - (n + 1) + 1
        /\ \A k \in 1..(L - (n + 1) + 1) : v[k] = s[(n + 1) + k - 1]
    <3>1. n + 1 \in 1..(Len(s) + 1) /\ L \in ((n + 1) - 1)..Len(s)
      BY <1>1, <1>5
    <3> QED BY <2>4, <3>1, Slice
  <2>6. Len(u) = Len(v)
    BY <1>1, <1>3, <2>3, <2>5
  <2>7. ASSUME NEW k \in 1..Len(u) PROVE u[k] = v[k]
    <3>1. /\ k + 1 \in 1..(L - n + 1) /\ n + (k + 1) - 1 = (n + 1) + k - 1
          /\ k \in 1..(L - (n + 1) + 1)
      BY <1>1, <1>3, <2>3
    <3> QED BY <1>3, <2>3, <2>5, <3>1
  <2> QED BY <2>1, <2>2, <2>3, <2>4, <2>5, <2>6, <2>7, SeqEqual
<1> QED BY <1>1, <1>2, <1>4, <1>5

\* The receiver is at a frame that was sent, or at the next one.
LEMMA RxFrame == ASSUME LinkInv PROVE RxPos.n \in 1..(Len(sent) + 1)
<1>1. /\ Len(sent) \in Nat /\ wire \in Seq([pos : Position, b : Byte]) /\ Len(wire) \in Nat
  BY LineTypes DEF LinkInv
<1>2. CASE wire = <<>>
  BY <1>1, <1>2 DEF RxPos, LinkInv, TxInv, Valid, StartOf
<1>3. CASE wire # <<>>
  <2>1. 1 \in 1..Len(wire) /\ RxPos = wire[1].pos
    BY <1>1, <1>3 DEF RxPos
  <2>2. wire[1].pos.n \in 1..Len(sent)
    BY <2>1 DEF LinkInv, WireInv, Valid
  <2> QED BY <1>1, <2>1, <2>2
<1> QED BY <1>2, <1>3

\* As long as the line is intact, two MctpFramer objects implement a FIFO channel of
\* packets that discards one only when it is too short or finds the pipe full: each
\* step of a sender, of the line or of a receiver is a step of PacketChannel or none.
THEOREM LinkIsChannel == Spec => Channel!Spec
<1> DEFINE inflight == SubSeq(sent, RxPos.n, Len(sent))
<1>1. LinkInit => Channel!Init
  <2> SUFFICES ASSUME LinkInit PROVE Channel!Init
    OBVIOUS
  <2>1. sent = <<>> /\ tx = StartOf(1) /\ wire = <<>> /\ rcvd = <<>> /\ faults = 0 /\ pipe = <<>>
    BY DEF LinkInit, RxInit
  <2>2. inflight = <<>>
    <3>1. RxPos.n = 1 /\ Len(sent) = 0
      BY <2>1 DEF RxPos, StartOf
    <3> QED BY <2>1, <3>1
  <2>3. Intact = TRUE
    BY <2>1 DEF Intact
  <2> QED BY <2>1, <2>2, <2>3 DEF Channel!Init
<1>2. ASSUME LinkInv, [Next]_linkVars PROVE [Channel!Next]_Channel!chanVars
  <2>1. /\ sent \in Seq(Messages) /\ Len(sent) \in Nat /\ RxPos.n \in 1..(Len(sent) + 1)
    BY <1>2, LineTypes, RxFrame DEF LinkInv
  <2>2. CASE ~Intact'
    <3>1. Intact' = FALSE
      BY <2>2 DEF Intact
    <3> QED BY <3>1 DEF Channel!Next, Channel!Damage
  <2>3. ASSUME Intact', UNCHANGED <<sent, faults>> PROVE Intact /\ Intact' = Intact
    BY <2>3 DEF Intact
  <2>4. ASSUME Intact', NEW m \in Messages, send(m) PROVE [Channel!Next]_Channel!chanVars
    <3>1. /\ sent' = Append(sent, m) /\ pipe' = pipe /\ rcvd' = rcvd /\ RxPos' = RxPos
          /\ faults' = faults
      BY <2>4 DEF send, RxPos
    <3>2. inflight' = Append(inflight, m)
      BY <2>1, <3>1, HistorySlices
    <3>3. Intact = TRUE /\ Intact' = TRUE
      <4>1. \A k \in 1..Len(sent) : k \in 1..Len(sent') /\ sent'[k] = sent[k]
        BY <2>1, <3>1
      <4> QED BY <2>4, <3>1, <4>1 DEF Intact
    <3> QED BY <3>1, <3>2, <3>3 DEF Channel!Next, Channel!Kept, Channel!Send
  <2>5. ASSUME Intact', WriteByte PROVE UNCHANGED Channel!chanVars
    <3>1. UNCHANGED <<pipe, sent, rcvd, faults>> /\ RxPos' = RxPos
      BY <1>2, <2>5, WriteByteInv DEF WriteByte
    <3> QED BY <2>3, <2>5, <3>1 DEF Channel!chanVars
  <2>6. ASSUME Intact', ReadByte PROVE [Channel!Next]_Channel!chanVars
    <3>1. UNCHANGED <<sent, rcvd, faults>>
      BY <2>6 DEF ReadByte
    <3>2. Intact = TRUE /\ Intact' = TRUE
      BY <2>6, <3>1 DEF Intact
    <3>3. /\ RxPos.n \in 1..Len(sent)
          /\ \/ RxPos'.n = RxPos.n /\ pipe' = pipe
             \/ /\ RxPos' = StartOf(RxPos.n + 1)
                /\ pipe' = IF Len(sent[RxPos.n]) >= MinPacket /\ Len(pipe) < PipeCap
                           THEN Append(pipe, sent[RxPos.n]) ELSE pipe
      BY <1>2, <2>6, <3>2, ReadMovesOn
    <3>4. CASE RxPos'.n = RxPos.n /\ pipe' = pipe
      BY <3>1, <3>2, <3>4 DEF Channel!chanVars
    <3>5. CASE /\ RxPos' = StartOf(RxPos.n + 1)
               /\ pipe' = IF Len(sent[RxPos.n]) >= MinPacket /\ Len(pipe) < PipeCap
                          THEN Append(pipe, sent[RxPos.n]) ELSE pipe
      <4>1. inflight # <<>> /\ Head(inflight) = sent[RxPos.n]
            /\ Tail(inflight) = SubSeq(sent, RxPos.n + 1, Len(sent))
        BY <2>1, <3>3, HistorySlices
      <4>2. inflight' = Tail(inflight)
        BY <3>1, <3>5, <4>1 DEF StartOf
      <4> HIDE DEF inflight
      <4>3. Channel!Arrive \/ Channel!Discard
        BY <3>1, <3>5, <4>1, <4>2 DEF Channel!Arrive, Channel!Discard, Channel!Accepts, inflight
      <4> QED BY <3>2, <4>3 DEF Channel!Next, Channel!Kept
    <3> QED BY <3>3, <3>4, <3>5
  <2>7. ASSUME Intact', ReceivePacket PROVE [Channel!Next]_Channel!chanVars
    <3>1. /\ pipe # <<>> /\ pipe' = Tail(pipe) /\ rcvd' = Append(rcvd, Head(pipe))
          /\ UNCHANGED <<sent, faults>> /\ RxPos' = RxPos
      BY <1>2, <2>7, ReceivePacketInv DEF ReceivePacket, receive
    <3>2. Intact = TRUE /\ Intact' = TRUE
      BY <2>7, <3>1 DEF Intact
    <3> QED BY <3>1, <3>2 DEF Channel!Next, Channel!Kept, Channel!Receive
  <2>8. ASSUME UNCHANGED linkVars PROVE UNCHANGED Channel!chanVars
    <3>1. UNCHANGED <<pipe, sent, rcvd, faults>> /\ RxPos' = RxPos
      BY <1>2, <2>8, StutterInv DEF linkVars
    <3> QED BY <3>1 DEF Channel!chanVars, Intact
  <2> QED BY <1>2, <2>2, <2>4, <2>5, <2>6, <2>7, <2>8, WriteFailsInv, LoseByteInv DEF Next
<1> QED BY <1>1, <1>2, LinkInvariant, PTL DEF Spec, Channel!Spec

-----------------------------------------------------------------------------
(* What comes out is what went in, in order.                               *)

\* s is obtained from the first n elements of t by leaving out some of them.
Within(s, t, n) ==
    \E f \in [1..Len(s) -> 1..n] :
       /\ \A j, k \in 1..Len(s) : j < k => f[j] < f[k]
       /\ \A k \in 1..Len(s) : s[k] = t[f[k]]

\* The receiver has delivered none but messages of frames that lie behind it.
DeliveredInv == Intact => Within(rcvd \o pipe, sent, RxPos.n - 1)

LEMMA WithinGrows ==
    ASSUME NEW s, NEW t, NEW u, NEW n \in Nat, NEW m \in Nat, n <= m,
           \A k \in 1..n : u[k] = t[k], Within(s, t, n)
    PROVE  Within(s, u, m)
<1>1. PICK f \in [1..Len(s) -> 1..n] :
         /\ \A j, k \in 1..Len(s) : j < k => f[j] < f[k]
         /\ \A k \in 1..Len(s) : s[k] = t[f[k]]
  BY DEF Within
<1>2. f \in [1..Len(s) -> 1..m]
  <2>1. \A k \in 1..n : k \in 1..m
    OBVIOUS
  <2> QED BY <1>1, <2>1
<1>3. \A k \in 1..Len(s) : s[k] = u[f[k]]
  BY <1>1
<1> QED BY <1>1, <1>2, <1>3 DEF Within

LEMMA WithinAppend ==
    ASSUME NEW S, NEW s \in Seq(S), NEW t, NEW n \in Nat, t[n + 1] \in S, Within(s, t, n)
    PROVE  Within(Append(s, t[n + 1]), t, n + 1)
<1>1. PICK f \in [1..Len(s) -> 1..n] :
         /\ \A j, k \in 1..Len(s) : j < k => f[j] < f[k]
         /\ \A k \in 1..Len(s) : s[k] = t[f[k]]
  BY DEF Within
<1>2. PICK L \in Nat : L = Len(s)
  OBVIOUS
<1>3. PICK a : a = Append(s, t[n + 1])
  OBVIOUS
<1>4. Len(a) = L + 1 /\ a[L + 1] = t[n + 1] /\ \A k \in 1..L : a[k] = s[k]
  BY <1>2, <1>3, AppendProperties
<1>5. PICK g : g = [k \in 1..(L + 1) |-> IF k = L + 1 THEN n + 1 ELSE f[k]]
  OBVIOUS
<1>6. g[L + 1] = n + 1 /\ \A k \in 1..L : g[k] = f[k] /\ f[k] \in 1..n
  BY <1>1, <1>2, <1>5
<1>7. \A k \in 1..(L + 1) : k \in 1..L \/ k = L + 1
  BY <1>2
<1>8. g \in [1..(L + 1) -> 1..(n + 1)]
  <2>1. \A k \in 1..(L + 1) : g[k] \in 1..(n + 1)
    BY <1>6, <1>7
  <2> QED BY <1>5, <2>1
<1>9. ASSUME NEW j \in 1..(L + 1), NEW k \in 1..(L + 1), j < k PROVE g[j] < g[k]
  <2>1. j \in 1..L
    BY <1>2, <1>9
  <2>2. CASE k \in 1..L
    BY <1>1, <1>2, <1>6, <1>9, <2>1, <2>2
  <2>3. CASE k = L + 1
    BY <1>6, <2>1, <2>3
  <2> QED BY <1>7, <2>2, <2>3
<1>10. ASSUME NEW k \in 1..(L + 1) PROVE a[k] = t[g[k]]
  <2>1. CASE k \in 1..L
    BY <1>1, <1>2, <1>4, <1>6, <2>1
  <2>2. CASE k = L + 1
    BY <1>4, <1>6, <2>2
  <2> QED BY <1>7, <2>1, <2>2
<1>11. Within(a, t, n + 1)
  BY <1>4, <1>8, <1>9, <1>10 DEF Within
<1> QED BY <1>3, <1>11

LEMMA PacketTypes ==
    ASSUME LinkInv
    PROVE  /\ rcvd \in Seq(Seq(Byte)) /\ pipe \in Seq(Seq(Byte))
           /\ Len(rcvd) \in Nat /\ Len(pipe) \in Nat
           /\ rcvd \o pipe \in Seq(Seq(Byte)) /\ Len(rcvd \o pipe) = Len(rcvd) + Len(pipe)
<1>1. rcvd \in Seq(Seq(Byte)) /\ pipe \in Seq(Seq(Byte))
  BY DEF LinkInv, LinkTypes, RxTypeOK
<1> QED BY <1>1, ConcatProperties, LenProperties

\* A packet that is fetched moves from the one to the other.
LEMMA FetchedStays ==
    ASSUME NEW S, NEW r \in Seq(S), NEW q \in Seq(S), q # <<>>
    PROVE  Append(r, Head(q)) \o Tail(q) = r \o q
<1>1. Head(q) \in S /\ Tail(q) \in Seq(S) /\ Len(q) \in Nat /\ Len(r) \in Nat
  BY HeadTailProperties, LenProperties
<1>2. <<Head(q)>> \in Seq(S) /\ <<Head(q)>> \o Tail(q) = q
  BY <1>1, ConcatSimplifications, HeadTailProperties
<1>3. Append(r, Head(q)) = r \o <<Head(q)>>
  BY <1>1, AppendIsConcat
<1>4. (r \o <<Head(q)>>) \o Tail(q) = r \o (<<Head(q)>> \o Tail(q))
  BY <1>1, <1>2, ConcatAssociative, SMTT(30)
<1> QED BY <1>2, <1>3, <1>4

LEMMA ArrivedLast ==
    ASSUME NEW S, NEW r \in Seq(S), NEW q \in Seq(S), NEW e \in S
    PROVE  r \o Append(q, e) = Append(r \o q, e)
<1>1. Append(q, e) = q \o <<e>> /\ <<e>> \in Seq(S) /\ r \o q \in Seq(S)
  BY AppendIsConcat, ConcatProperties
<1>2. Append(r \o q, e) = (r \o q) \o <<e>>
  BY <1>1, AppendIsConcat
<1>3. (r \o q) \o <<e>> = r \o (q \o <<e>>)
  BY <1>1, ConcatAssociative, SMTT(30)
<1> QED BY <1>1, <1>2, <1>3

LEMMA DeliveredStep ==
    ASSUME LinkInv, DeliveredInv, [Next]_linkVars, Intact'
    PROVE  Within(rcvd \o pipe, sent, RxPos.n - 1)'
<1>1. /\ sent \in Seq(Messages) /\ Len(sent) \in Nat /\ RxPos.n \in 1..(Len(sent) + 1)
  BY LineTypes, RxFrame DEF LinkInv
<1>2. PICK n \in Nat : n = RxPos.n - 1 /\ n <= Len(sent)
  BY <1>1
<1>3. ASSUME UNCHANGED <<sent, faults>> PROVE Intact /\ Within(rcvd \o pipe, sent, n)
  BY <1>2, <1>3 DEF Intact, DeliveredInv
<1>4. ASSUME UNCHANGED <<sent, faults, rcvd, pipe>>, RxPos' = RxPos
      PROVE  Within(rcvd \o pipe, sent, RxPos.n - 1)'
  BY <1>2, <1>3, <1>4
<1>5. ASSUME NEW m \in Messages, send(m) PROVE Within(rcvd \o pipe, sent, RxPos.n - 1)'
  <2>1. sent' = Append(sent, m) /\ pipe' = pipe /\ rcvd' = rcvd /\ RxPos' = RxPos /\ faults' = faults
    BY <1>5 DEF send, RxPos
  <2>2. Len(sent') = Len(sent) + 1 /\ \A k \in 1..Len(sent) : sent'[k] = sent[k]
    BY <1>1, <2>1, AppendProperties
  <2>3. Intact
    BY <1>1, <2>1, <2>2 DEF Intact
  <2>4. Within(rcvd \o pipe, sent, n) /\ \A k \in 1..n : sent'[k] = sent[k]
    BY <1>1, <1>2, <2>2, <2>3 DEF DeliveredInv
  <2>5. Within(rcvd \o pipe, sent', n)
    BY <2>4, WithinGrows
  <2> QED BY <1>2, <2>1, <2>5
<1>6. CASE WriteByte
  BY <1>4, <1>6, WriteByteInv DEF WriteByte
<1>7. CASE ReadByte
  <2>1. UNCHANGED <<sent, rcvd, faults>>
    BY <1>7 DEF ReadByte
  <2>2. /\ RxPos.n \in 1..Len(sent)
        /\ \/ RxPos'.n = RxPos.n /\ pipe' = pipe
           \/ /\ RxPos' = StartOf(RxPos.n + 1)
              /\ pipe' = IF Len(sent[RxPos.n]) >= MinPacket /\ Len(pipe) < PipeCap
                         THEN Append(pipe, sent[RxPos.n]) ELSE pipe
    BY <1>3, <1>7, <2>1, ReadMovesOn
  <2>3. n + 1 = RxPos.n /\ sent[n + 1] \in Messages
    BY <1>1, <1>2, <2>2
  <2>4. Within(rcvd \o pipe, sent, n)
    BY <1>3, <2>1
  <2>5. CASE RxPos'.n = RxPos.n /\ pipe' = pipe
    BY <1>2, <2>1, <2>4, <2>5
  <2>6. ASSUME RxPos' = StartOf(RxPos.n + 1) PROVE RxPos'.n - 1 = n + 1
    BY <2>3, <2>6 DEF StartOf
  <2>7. CASE RxPos' = StartOf(RxPos.n + 1) /\ pipe' = pipe
    <3>1. Within(rcvd \o pipe, sent, n + 1)
      BY <2>4, WithinGrows
    <3> QED BY <2>1, <2>6, <2>7, <3>1
  <2>8. CASE RxPos' = StartOf(RxPos.n + 1) /\ pipe' = Append(pipe, sent[n + 1])
    <3>1. /\ rcvd \in Seq(Seq(Byte)) /\ pipe \in Seq(Seq(Byte)) /\ rcvd \o pipe \in Seq(Seq(Byte))
          /\ sent[n + 1] \in Seq(Byte)
      BY <2>3, PacketTypes, MessagesAssumption
    <3>2. Within(Append(rcvd \o pipe, sent[n + 1]), sent, n + 1)
      BY <2>4, <3>1, WithinAppend
    <3>3. rcvd' \o pipe' = Append(rcvd \o pipe, sent[n + 1])
      BY <2>1, <2>8, <3>1, ArrivedLast
    <3> QED BY <2>1, <2>6, <2>8, <3>2, <3>3
  <2> QED BY <2>2, <2>3, <2>5, <2>7, <2>8
<1>8. CASE ReceivePacket
  <2>1. /\ pipe # <<>> /\ pipe' = Tail(pipe) /\ rcvd' = Append(rcvd, Head(pipe))
        /\ UNCHANGED <<sent, faults>> /\ RxPos' = RxPos
    BY <1>8, ReceivePacketInv DEF ReceivePacket, receive
  <2>2. rcvd' \o pipe' = rcvd \o pipe
    BY <2>1, PacketTypes, FetchedStays
  <2> QED BY <1>2, <1>3, <2>1, <2>2
<1>9. CASE UNCHANGED linkVars
  BY <1>4, <1>9, StutterInv DEF linkVars
<1> QED BY <1>5, <1>6, <1>7, <1>8, <1>9, WriteFailsInv, LoseByteInv DEF Next

\* As long as every byte has arrived and the length byte can tell the payloads, what
\* receive() has returned and what waits in the pipe are messages given to send(),
\* unchanged, in order and none twice: for every checksum and all contents, flags and
\* escapes among them.
THEOREM LinkNothingForged == Spec => [](Intact => NothingForged)
<1>1. LinkInit => DeliveredInv
  <2> SUFFICES ASSUME LinkInit PROVE DeliveredInv
    OBVIOUS
  <2>1. sent = <<>> /\ rcvd = <<>> /\ pipe = <<>> /\ RxPos.n = 1
    BY DEF LinkInit, RxInit, RxPos, StartOf
  <2>2. rcvd \o pipe = <<>> /\ Len(rcvd \o pipe) = 0
    BY <2>1
  <2>3. PICK f : f = [k \in 1..0 |-> 0]
    OBVIOUS
  <2>4. f \in [1..Len(rcvd \o pipe) -> 1..(RxPos.n - 1)] /\ \A k \in 1..Len(rcvd \o pipe) : FALSE
    BY <2>1, <2>2, <2>3
  <2>5. Within(rcvd \o pipe, sent, RxPos.n - 1)
    BY <2>4, Zenon DEF Within
  <2> QED BY <2>5 DEF DeliveredInv
<1>2. LinkInv /\ DeliveredInv /\ [Next]_linkVars => DeliveredInv'
  BY DeliveredStep DEF DeliveredInv
<1>3. LinkInv /\ DeliveredInv => (Intact => NothingForged)
  <2> SUFFICES ASSUME LinkInv, DeliveredInv, Intact PROVE NothingForged
    OBVIOUS
  <2>1. PICK n \in Nat : n = RxPos.n - 1 /\ n <= Len(sent) /\ Len(sent) \in Nat
    BY LineTypes, RxFrame DEF LinkInv
  <2>2. Within(rcvd \o pipe, sent, n)
    BY <2>1 DEF DeliveredInv
  <2>3. Within(rcvd \o pipe, sent, Len(sent))
    BY <2>1, <2>2, WithinGrows
  <2> QED BY <2>3 DEF Within, NothingForged, InOrder
<1> QED BY <1>1, <1>2, <1>3, LinkInvariant, PTL DEF Spec

-----------------------------------------------------------------------------
(* The bytes buildWire() predicts.                                         *)

\* Induction up to N, for a set.
LEMMA SetInduction ==
    ASSUME NEW N \in Nat, NEW T, 0 \in T, \A k \in 0..(N - 1) : k \in T => k + 1 \in T
    PROVE  \A k \in 0..N : k \in T
<1> SUFFICES ASSUME NEW j \in 0..N, j \notin T PROVE FALSE
  OBVIOUS
<1>1. PICK U : U = {k \in Nat : k <= N /\ k \notin T}
  OBVIOUS
<1>2. U \subseteq Nat /\ j \in U
  BY <1>1
<1>3. PICK n \in U : \A m \in U : <<m, n>> \notin OpToRel(<, Nat)
  BY <1>2, WFMin, NatLessThanWellFounded
<1>4. n \in Nat /\ n <= N /\ n \notin T /\ n # 0
  BY <1>1, <1>3
<1>5. PICK m \in Nat : n = m + 1 /\ m \in 0..(N - 1)
  <2>1. n - 1 \in Nat /\ n = (n - 1) + 1 /\ n - 1 \in 0..(N - 1)
    BY <1>4
  <2> QED BY <2>1
<1>6. <<m, n>> \in OpToRel(<, Nat)
  BY <1>4, <1>5 DEF OpToRel
<1>7. m \notin U
  BY <1>3, <1>6, Zenon
<1>8. m \in T
  BY <1>1, <1>5, <1>7
<1> QED BY <1>4, <1>5, <1>8

\* r tells what the loop has pushed after each of its first n rounds.
Recorded(full, r, n) ==
    r = [k \in 0..n |-> IF k = 0 THEN <<>> ELSE r[k - 1] \o Pushed(full, k)]

\* There is such a record, so the recursive definition means it.
LEMMA RoundsRecorded ==
    ASSUME NEW full, Len(full) \in Nat
    PROVE  Recorded(full, Rounds(full), Len(full))
<1>1. PICK N \in Nat : N = Len(full)
  OBVIOUS
<1>2. PICK T : T = {n \in Nat : \E r : Recorded(full, r, n)}
  OBVIOUS
<1>3. 0 \in T
  <2>1. PICK r : r = [k \in 0..0 |-> <<>>]
    OBVIOUS
  <2>2. \A k \in 0..0 : <<>> = IF k = 0 THEN <<>> ELSE r[k - 1] \o Pushed(full, k)
    OBVIOUS
  <2>3. Recorded(full, r, 0)
    BY <2>1, <2>2 DEF Recorded
  <2> QED BY <1>2, <2>3
<1>4. ASSUME NEW n \in 0..(N - 1), n \in T PROVE n + 1 \in T
  <2>1. PICK r : Recorded(full, r, n)
    BY <1>2, <1>4
  <2>2. n \in Nat /\ n + 1 \in Nat
    OBVIOUS
  <2>3. r = [k \in 0..n |-> IF k = 0 THEN <<>> ELSE r[k - 1] \o Pushed(full, k)]
    BY <2>1 DEF Recorded
  <2>4. r[0] = <<>> /\ \A k \in 1..n : r[k] = r[k - 1] \o Pushed(full, k)
    <3>1. \A k \in 0..n : r[k] = IF k = 0 THEN <<>> ELSE r[k - 1] \o Pushed(full, k)
      BY <2>3, Zenon
    <3>2. 0 \in 0..n /\ \A k \in 1..n : k \in 0..n /\ k # 0
      BY <2>2
    <3> QED BY <3>1, <3>2, Zenon
  <2>5. PICK x : x = r[n] \o Pushed(full, n + 1)
    OBVIOUS
  <2>6. PICK q : q = [k \in 0..(n + 1) |-> IF k = n + 1 THEN x ELSE r[k]]
    OBVIOUS
  <2>7. q[n + 1] = x /\ \A k \in 0..n : q[k] = r[k]
    BY <2>2, <2>6
  <2>8. ASSUME NEW k \in 0..(n + 1)
        PROVE  q[k] = IF k = 0 THEN <<>> ELSE q[k - 1] \o Pushed(full, k)
    <3>1. CASE k = 0
      BY <3>1, <2>2, <2>4, <2>7
    <3>2. CASE k \in 1..n
      <4>1. k \in 0..n /\ k - 1 \in 0..n /\ k # 0
        BY <3>2, <2>2
      <4>2. q[k] = r[k] /\ q[k - 1] = r[k - 1]
        BY <4>1, <2>7
      <4> QED BY <3>2, <4>1, <4>2, <2>4
    <3>3. CASE k = n + 1
      <4>1. k - 1 = n /\ n \in 0..n /\ k # 0
        BY <3>3, <2>2
      <4>2. q[k - 1] = r[n]
        BY <4>1, <2>7
      <4> QED BY <3>3, <4>1, <4>2, <2>5, <2>7, Zenon
    <3> QED BY <3>1, <3>2, <3>3, <2>2
  <2>9. Recorded(full, q, n + 1)
    <3>1. q = [k \in 0..(n + 1) |-> q[k]]
      BY <2>6
    <3>2. [k \in 0..(n + 1) |-> q[k]]
            = [k \in 0..(n + 1) |-> IF k = 0 THEN <<>> ELSE q[k - 1] \o Pushed(full, k)]
      BY <2>8, Zenon
    <3> QED BY <3>1, <3>2, Zenon DEF Recorded
  <2> QED BY <1>2, <2>2, <2>9
<1>5. \A k \in 0..N : k \in T
  BY <1>3, <1>4, SetInduction
<1>6. PICK r : Recorded(full, r, N)
  BY <1>2, <1>5, N \in 0..N
<1>7. Rounds(full) = CHOOSE f : Recorded(full, f, Len(full))
  BY DEF Rounds, Recorded
<1>8. Recorded(full, CHOOSE f : Recorded(full, f, Len(full)), Len(full))
  BY <1>1, <1>6, Zenon
<1> QED BY <1>7, <1>8, Zenon

\* One more byte is one more escape, or none.
LEMMA OneMoreEscape ==
    ASSUME NEW n, NEW i \in Nat
    PROVE  /\ EscapesBefore(n, i) \in Nat
           /\ EscapesBefore(n, i + 1) = EscapesBefore(n, i) + (IF Escaped(n, i) THEN 1 ELSE 0)
<1>1. PICK S : S = {j \in 0..(i - 1) : Escaped(n, j)}
  OBVIOUS
<1>2. PICK D : D = 0..(i - 1)
  OBVIOUS
<1>3. IsFiniteSet(D)
  <2>1. 0 \in Int /\ i - 1 \in Int
    OBVIOUS
  <2> QED BY <1>2, <2>1, FS_Interval
<1>4. IsFiniteSet(S)
  <2>1. S \in SUBSET D
    BY <1>1, <1>2
  <2> QED BY <2>1, <1>3, FS_Subset
<1>5. Cardinality(S) \in Nat
  BY <1>4, FS_CardinalityType
<1>6. EscapesBefore(n, i) = Cardinality(S)
  BY <1>1 DEF EscapesBefore
<1>7. PICK R : R = {j \in 0..(i + 1 - 1) : Escaped(n, j)}
  OBVIOUS
<1>8. EscapesBefore(n, i + 1) = Cardinality(R)
  BY <1>7 DEF EscapesBefore
<1>9. 0..(i + 1 - 1) = (0..(i - 1)) \cup {i} /\ i \notin 0..(i - 1)
  OBVIOUS
<1>10. CASE Escaped(n, i)
  <2>1. R = S \cup {i} /\ i \notin S
    BY <1>1, <1>7, <1>9, <1>10, Zenon
  <2>2. Cardinality(R) = Cardinality(S) + 1
    BY <2>1, <1>4, FS_AddElement
  <2> QED BY <1>5, <1>6, <1>8, <1>10, <2>2
<1>11. CASE ~Escaped(n, i)
  <2>1. R = S
    BY <1>1, <1>7, <1>9, <1>11, Zenon
  <2> QED BY <1>5, <1>6, <1>8, <1>11, <2>1
<1> QED BY <1>10, <1>11

LEMMA NoEscapeYet == ASSUME NEW n PROVE EscapesBefore(n, 0) = 0
<1>1. {j \in 0..(0 - 1) : Escaped(n, j)} = {}
  OBVIOUS
<1> QED BY <1>1, FS_EmptySet DEF EscapesBefore

\* A round of buildWire() pushes what transmitFrame() writes for the byte.
LEMMA PushedBytes ==
    ASSUME sent \in Seq(Messages), NEW n \in 1..Len(sent), NEW i \in Nat, i < Len(FrameOf(n))
    PROVE  /\ Pushed(FrameOf(n), i + 1) \in Seq(Byte)
           /\ Len(Pushed(FrameOf(n), i + 1)) = 1 + (IF Escaped(n, i) THEN 1 ELSE 0)
           /\ Pushed(FrameOf(n), i + 1)[1] = ByteAt([n |-> n, i |-> i, h |-> 0])
           /\ Escaped(n, i) => Pushed(FrameOf(n), i + 1)[2] = ByteAt([n |-> n, i |-> i, h |-> 1])
<1>1. PICK F : F = FrameOf(n)
  OBVIOUS
<1>2. F \in Seq(Byte) /\ Len(F) \in Nat
  <2>1. F \in Seq(Byte)
    BY <1>1, SentMessage, Zenon
  <2> QED BY <2>1
<1>3. F[i + 1] \in Byte
  BY <1>1, <1>2, ByteOfSeq
<1>4. Escaped(n, i) <=> i + 1 \in 4..(Len(F) - 3) /\ F[i + 1] \in {FRAME_CHAR, ESCAPE_CHAR}
  <2>1. i \in 3..(Len(F) - 4) <=> i + 1 \in 4..(Len(F) - 3)
    BY <1>2
  <2> QED BY <2>1, <1>1, Zenon DEF Escaped
<1>5. CASE Escaped(n, i)
  <2>1. Pushed(F, i + 1) = <<ESCAPE_CHAR, F[i + 1] - EscapeShift>>
    BY <1>4, <1>5, Zenon DEF Pushed
  <2>2. ESCAPE_CHAR \in Byte /\ F[i + 1] - EscapeShift \in Byte
    BY <1>4, <1>5 DEF FRAME_CHAR, ESCAPE_CHAR, EscapeShift, Byte
  <2>3. /\ ByteAt([n |-> n, i |-> i, h |-> 0]) = ESCAPE_CHAR
        /\ ByteAt([n |-> n, i |-> i, h |-> 1]) = F[i + 1] - EscapeShift
    BY <1>1, <1>5 DEF ByteAt
  <2>4. PICK P, x : P = <<ESCAPE_CHAR, x>> /\ P = Pushed(F, i + 1) /\ x = F[i + 1] - EscapeShift
    BY <2>1
  <2>5. P \in Seq(Byte) /\ Len(P) = 1 + 1 /\ P[1] = ESCAPE_CHAR /\ P[2] = x
    BY <2>2, <2>4
  <2> QED BY <1>1, <1>5, <2>3, <2>4, <2>5, Zenon
<1>6. CASE ~Escaped(n, i)
  <2>1. Pushed(F, i + 1) = <<F[i + 1]>>
    BY <1>4, <1>6, Zenon DEF Pushed
  <2>2. ByteAt([n |-> n, i |-> i, h |-> 0]) = F[i + 1]
    BY <1>1, <1>6 DEF ByteAt
  <2>3. PICK P, x : P = <<x>> /\ P = Pushed(F, i + 1) /\ x = F[i + 1]
    BY <2>1
  <2>4. P \in Seq(Byte) /\ Len(P) = 1 + 0 /\ P[1] = x
    BY <1>3, <2>3
  <2> QED BY <1>1, <1>6, <2>2, <2>3, <2>4, Zenon
<1> QED BY <1>5, <1>6

\* Where buildWire() has put the byte of a position, counted from 1.
Place(n, i, h) == i + 1 + EscapesBefore(n, i) + h

\* s holds the bytes of the first k positions of a frame, each at its place.
Holds(n, s, k) ==
    /\ s \in Seq(Byte) /\ Len(s) = k + EscapesBefore(n, k)
    /\ \A i \in 0..(k - 1), h \in {0, 1} :
          (h = 1 => Escaped(n, i)) =>
             Place(n, i, h) \in 1..Len(s) /\ s[Place(n, i, h)] = ByteAt([n |-> n, i |-> i, h |-> h])

\* A round adds the bytes of the next position.
LEMMA RoundHolds ==
    ASSUME sent \in Seq(Messages), NEW n \in 1..Len(sent), NEW k \in Nat, k < Len(FrameOf(n)),
           NEW s, Holds(n, s, k)
    PROVE  Holds(n, s \o Pushed(FrameOf(n), k + 1), k + 1)
<1>1. PICK P : P = Pushed(FrameOf(n), k + 1)
  OBVIOUS
<1>2. PICK e \in {0, 1} : e = IF Escaped(n, k) THEN 1 ELSE 0
  OBVIOUS
<1>3. /\ P \in Seq(Byte) /\ Len(P) = 1 + e
      /\ P[1] = ByteAt([n |-> n, i |-> k, h |-> 0])
      /\ Escaped(n, k) => P[2] = ByteAt([n |-> n, i |-> k, h |-> 1])
  BY <1>1, <1>2, PushedBytes
<1>4. PICK E \in Nat : E = EscapesBefore(n, k) /\ EscapesBefore(n, k + 1) = E + e
  BY <1>2, OneMoreEscape
<1>5. PICK t : t = s \o P
  OBVIOUS
<1>6. s \in Seq(Byte) /\ Len(s) = k + E
  BY <1>4 DEF Holds
<1>7. /\ t \in Seq(Byte) /\ Len(t) = Len(s) + Len(P)
      /\ \A j \in 1..Len(s) : t[j] = s[j]
      /\ \A j \in 1..Len(P) : t[j + Len(s)] = P[j]
  BY <1>3, <1>5, <1>6, Parts
<1>8. Len(t) = k + 1 + EscapesBefore(n, k + 1)
  <2>1. PICK x : x = EscapesBefore(n, k + 1)
    OBVIOUS
  <2>2. x = E + e /\ Len(t) = k + E + (1 + e) /\ e \in Nat
    BY <2>1, <1>3, <1>4, <1>6, <1>7
  <2>3. Len(t) = k + 1 + x
    BY <2>2
  <2> QED BY <2>1, <2>3, Zenon
<1>9. ASSUME NEW i \in 0..k, NEW h \in {0, 1}, h = 1 => Escaped(n, i)
      PROVE  Place(n, i, h) \in 1..Len(t) /\ t[Place(n, i, h)] = ByteAt([n |-> n, i |-> i, h |-> h])
  <2>1. CASE i \in 0..(k - 1)
    <3>1. Place(n, i, h) \in 1..Len(s) /\ s[Place(n, i, h)] = ByteAt([n |-> n, i |-> i, h |-> h])
      BY <1>9, <2>1, Zenon DEF Holds
    <3>2. Place(n, i, h) \in 1..Len(t)
      BY <3>1, <1>3, <1>6, <1>7
    <3> QED BY <3>1, <3>2, <1>7
  <2>2. CASE i = k
    <3>1. Place(n, i, h) = (1 + h) + Len(s)
      BY <2>2, <1>4, <1>6 DEF Place
    <3>2. 1 + h \in 1..Len(P)
      BY <1>9, <2>2, <1>2, <1>3
    <3>3. t[Place(n, i, h)] = P[1 + h]
      BY <3>1, <3>2, <1>7
    <3>4. P[1 + h] = ByteAt([n |-> n, i |-> i, h |-> h])
      <4>1. CASE h = 0
        <5>1. P[1 + h] = P[1]
          BY <4>1
        <5> QED BY <5>1, <4>1, <2>2, <1>3, Zenon
      <4>2. CASE h = 1
        <5>1. P[1 + h] = P[2]
          BY <4>2
        <5> QED BY <5>1, <4>2, <2>2, <1>3, <1>9, Zenon
      <4> QED BY <4>1, <4>2
    <3>5. Place(n, i, h) \in 1..Len(t)
      BY <3>1, <3>2, <1>3, <1>6, <1>7
    <3> QED BY <3>3, <3>4, <3>5
  <2> QED BY <2>1, <2>2
<1>10. PICK l : l = k + 1 /\ l - 1 = k
  OBVIOUS
<1>11. Holds(n, t, l)
  <2>1. \A i \in 0..(l - 1), h \in {0, 1} :
           (h = 1 => Escaped(n, i)) =>
              Place(n, i, h) \in 1..Len(t) /\ t[Place(n, i, h)] = ByteAt([n |-> n, i |-> i, h |-> h])
    BY <1>9, <1>10, Zenon
  <2> QED BY <1>7, <1>8, <1>10, <2>1, Zenon DEF Holds
<1> QED BY <1>1, <1>5, <1>10, <1>11, Zenon

\* buildWire() has every byte of the frame at its place.
LEMMA PredictedByte ==
    ASSUME sent \in Seq(Messages), NEW p, Valid(p)
    PROVE  buildWire(sent[p.n])[Place(p.n, p.i, p.h)] = ByteAt(p)
<1>1. PICK n \in 1..Len(sent), i \in Nat, h \in {0, 1} : p = [n |-> n, i |-> i, h |-> h]
  BY DEF Valid, Position
<1>2. i < Len(FrameOf(n)) /\ (h = 1 => Escaped(n, i))
  BY <1>1 DEF Valid
<1>3. PICK F : F = FrameOf(n)
  OBVIOUS
<1>4. PICK N \in Nat : N = Len(F)
  <2>1. F \in Seq(Byte)
    BY <1>3, SentMessage, Zenon
  <2> QED BY <2>1
<1>5. PICK r : r = Rounds(F)
  OBVIOUS
<1>6. buildWire(sent[n]) = r[N]
  <2>1. PICK m : m = sent[n]
    OBVIOUS
  <2>2. buildWire(m) = Rounds(FullMsg(m))[Len(FullMsg(m))]
    BY Zenon DEF buildWire, FullMsg
  <2> QED BY <2>1, <2>2, <1>3, <1>4, <1>5, Zenon DEF FrameOf
<1>7. r = [k \in 0..N |-> IF k = 0 THEN <<>> ELSE r[k - 1] \o Pushed(F, k)]
  BY <1>4, <1>5, RoundsRecorded DEF Recorded
<1>8. \A k \in 0..N : r[k] = IF k = 0 THEN <<>> ELSE r[k - 1] \o Pushed(F, k)
  BY <1>7, Zenon
<1>9. PICK T : T = {k \in 0..N : Holds(n, r[k], k)}
  OBVIOUS
<1>10. 0 \in T
  <2>1. 0 \in 0..N
    OBVIOUS
  <2>2. r[0] = <<>>
    BY <1>8, <2>1, Zenon
  <2>3. Holds(n, <<>>, 0)
    BY NoEscapeYet DEF Holds
  <2> QED BY <1>9, <2>1, <2>2, <2>3
<1>11. ASSUME NEW k \in 0..(N - 1), k \in T PROVE k + 1 \in T
  <2>1. k \in Nat /\ k < Len(FrameOf(n)) /\ k + 1 \in 0..N /\ k + 1 # 0 /\ k + 1 - 1 = k
    BY <1>3, <1>4
  <2>2. r[k + 1] = r[k] \o Pushed(F, k + 1)
    <3>1. PICK l \in 0..N : l = k + 1 /\ l # 0 /\ l - 1 = k
      BY <2>1
    <3>2. r[l] = r[l - 1] \o Pushed(F, l)
      BY <1>8, <3>1, Zenon
    <3> QED BY <3>1, <3>2, Zenon
  <2>3. PICK s : s = r[k]
    OBVIOUS
  <2>4. Holds(n, s, k)
    BY <1>9, <1>11, <2>3
  <2>5. Holds(n, s \o Pushed(FrameOf(n), k + 1), k + 1)
    BY <2>1, <2>4, RoundHolds
  <2>6. Holds(n, r[k + 1], k + 1)
    BY <1>3, <2>2, <2>3, <2>5, Zenon
  <2> QED BY <1>9, <2>1, <2>6
<1>12. \A k \in 0..N : k \in T
  BY <1>10, <1>11, SetInduction
<1>13. Holds(n, r[N], N)
  BY <1>9, <1>12, N \in 0..N
<1>14. i \in 0..(N - 1)
  BY <1>2, <1>3, <1>4
<1>15. r[N][Place(n, i, h)] = ByteAt([n |-> n, i |-> i, h |-> h])
  BY <1>2, <1>13, <1>14, Zenon DEF Holds
<1>16. p.n = n /\ p.i = i /\ p.h = h
  BY <1>1
<1> QED BY <1>1, <1>6, <1>15, <1>16, Zenon

\* Whatever fails on the line, the bytes transmitFrame() writes are those that
\* buildWire() predicts for the payload, one by one: the two escaping loops agree on
\* every payload and every checksum, flags and escapes in either included.
THEOREM LinkWireIsBuildWire == Spec => []WireIsBuildWire
<1>1. LinkInv => WireIsBuildWire
  <2> SUFFICES ASSUME LinkInv, NEW k \in 1..Len(wire), NEW p, p = wire[k].pos
               PROVE  wire[k].b = buildWire(sent[p.n])[p.i + 1 + EscapesBefore(p.n, p.i) + p.h]
    BY Zenon DEF WireIsBuildWire
  <2>1. Valid(p) /\ wire[k].b = ByteAt(p)
    BY DEF LinkInv, WireInv
  <2>2. sent \in Seq(Messages)
    BY DEF LinkInv, LinkTypes
  <2> QED BY <2>1, <2>2, PredictedByte, Zenon DEF Place
<1> QED BY <1>1, LinkInvariant, PTL
=============================================================================
