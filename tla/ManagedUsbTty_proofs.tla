------------------------ MODULE ManagedUsbTty_proofs ------------------------
(***************************************************************************)
(* The forwarder keeps its types, forwards in order in both directions and *)
(* loses a descriptor only to a repeated announcement, for buffers of any  *)
(* size and any number of devices, faults and bytes.                       *)
(***************************************************************************)
EXTENDS ManagedUsbTty, SequenceTheorems, TLAPS

-----------------------------------------------------------------------------
(* The inductive invariant.                                                *)

\* The types that UsbTypeOK leaves out.
Streams ==
    /\ framerGot \in Seq(Nat) /\ toFramer \in Seq(Nat) /\ devTx \in Seq(Nat)
    /\ devGot \in Seq(Nat) /\ devRx \in Seq(Nat) /\ toMaster \in Seq(Nat)
    /\ buf \in Seq(Nat) /\ udevQ \in Seq({"add", "remove"})
    /\ devSent \in Nat /\ framerSent \in Nat /\ retriggers \in Nat
    /\ plugs \in Nat /\ plugs <= MaxPlugs
    /\ plugged \in Nat /\ plugged <= plugs

\* Bytes in the order they were numbered, n being the last number given.
Numbered(s, n) == Ordered(s) /\ \A k \in 1..Len(s) : s[k] <= n

\* What buf holds on its way to one side.
Carried(w) == IF worker = w THEN buf ELSE <<>>

\* One direction: the bytes its reader got, those in the first buffer, those the
\* worker carries and those in the second buffer.
Line(got, near, held, far) == got \o near \o held \o far

FlowInv ==
    /\ Numbered(Line(framerGot, toFramer, Carried("toPty"), devTx), devSent)
    /\ Numbered(Line(devGot, devRx, Carried("toPhys"), toMaster), framerSent)

\* The descriptors are open only between open() and the end of close(), that of the
\* device only while there is a monitor; a device that is gone and is still open
\* has its removal queued, behind every announcement.
LifeInv ==
    /\ caller = "idle" /\ ~running => worker = "none" /\ ~master
    /\ worker \in {"none", "start"} => ~udev_mon
    /\ ~udev_mon => phys_fd = 0 /\ udevQ = <<>>
    /\ plugged = 0 /\ udevQ = <<>> => phys_fd = 0
    /\ plugged = 0 /\ udevQ # <<>> => udevQ[Len(udevQ)] = "remove"

\* Handling the k-th event of a queue may overwrite an open descriptor: it is an
\* announcement right after another one, or the next event while fd is open.
Overwrites(q, fd, k) == q[k] = "add" /\ IF k = 1 THEN fd # 0 ELSE q[k - 1] = "add"

\* c[k] is the number of repetitions there had been when the k-th event was queued:
\* it grows at each one that may overwrite, and begins no lower than the l leaks.
Covered(q, fd, l, r) ==
    \E c \in [1..Len(q) -> 0..r] :
        \A k \in 1..Len(q) :
            (IF k = 1 THEN l ELSE c[k - 1]) + (IF Overwrites(q, fd, k) THEN 1 ELSE 0) <= c[k]

LeakInv == leaked <= retriggers /\ Covered(udevQ, phys_fd, leaked, retriggers)

UsbInv == UsbTypeOK /\ Streams /\ FlowInv /\ LifeInv /\ LeakInv

-----------------------------------------------------------------------------
(* Types.                                                                  *)

\* The booleans one by one, and the two ranges: as the provers use them.
LEMMA UsbTypeFacts ==
    UsbTypeOK <=>
    /\ running \in BOOLEAN /\ master \in BOOLEAN /\ udev_mon \in BOOLEAN
    /\ phys_fd \in Nat /\ phys_fd <= MaxPlugs /\ leaked \in Nat
    /\ caller \in {"idle", "joining"} /\ worker \in Workers
    /\ events \subseteq {"udev", "pty", "phys"}
    /\ slave \in {"closed", "held", "framer"}
    /\ Len(toFramer) <= PtyCap /\ Len(devRx) <= DevCap
    /\ worker \in {"toPhys", "toPty"} <=> buf # <<>>
    /\ worker \in {"toPhys", "toPty"} => phys_fd # 0
  BY UsbAssumption DEF UsbTypeOK, UsbAssumption

LEMMA TypeInit == ASSUME Init PROVE UsbTypeOK /\ Streams
<1>1. Streams
  BY UsbAssumption DEF Init, Streams, UsbAssumption
<1>2. UsbTypeOK
  <2>1. Len(toFramer) <= PtyCap /\ Len(devRx) <= DevCap /\ 0 <= MaxPlugs
    BY UsbAssumption DEF Init, UsbAssumption
  <2> QED BY <2>1, UsbTypeFacts DEF Init, Workers
<1> QED BY <1>1, <1>2

LEMMA NoBytes == <<>> \in Seq(Nat)
  BY EmptySeq

\* Taking the first element off a nonempty stream.
LEMMA TakeFirst ==
    ASSUME NEW S, NEW s \in Seq(S), s # <<>>
    PROVE  Head(s) \in S /\ Tail(s) \in Seq(S) /\ Len(s) > 0 /\ Len(Tail(s)) = Len(s) - 1
  BY HeadTailProperties, EmptySeq

\* The bytes, the events and the counters keep their types, whoever moves.
LEMMA StreamsStep ==
    ASSUME UsbTypeOK, Streams, [Next]_vars
    PROVE  Streams'
<1> USE DEF object, thread, monitor, pty, device, history
<1>1. CASE Open
  BY <1>1 DEF Open, Streams
<1>2. CASE OpenFails
  BY <1>2 DEF OpenFails, Streams, vars
<1>3. CASE CloseBegin
  BY <1>3 DEF CloseBegin, Streams
<1>4. CASE CloseEnd
  BY <1>4 DEF CloseEnd, Streams
<1>5. CASE Start \/ Top \/ PollNothing \/ Poll
  BY <1>5 DEF Start, Top, PollNothing, Poll, Streams
<1>6. CASE HandleRemove \/ HandleAdd
  <2>1. udevQ' \in Seq({"add", "remove"})
    BY <1>6, TakeFirst DEF HandleRemove, HandleAdd, Streams
  <2> QED BY <1>6, <2>1 DEF HandleRemove, HandleAdd, Streams
<1>7. CASE HandlePty
  BY <1>7 DEF HandlePty, Streams
<1>8. CASE HandlePhys
  <2>1. buf' \in Seq(Nat) /\ devTx' \in Seq(Nat)
    BY <1>8, NoBytes DEF HandlePhys, Streams
  <2> QED BY <1>8, <2>1 DEF HandlePhys, Streams
<1>9. CASE WritePhys
  <2>1. buf # <<>>
    BY <1>9 DEF WritePhys, UsbTypeOK
  <2>2. Head(buf) \in Nat /\ Tail(buf) \in Seq(Nat)
    BY <2>1, TakeFirst DEF Streams
  <2> QED BY <1>9, <2>2 DEF WritePhys, Streams
<1>10. CASE WritePhysFails \/ WritePtyFails
  <2>1. buf' \in Seq(Nat)
    BY <1>10, NoBytes DEF WritePhysFails, WritePtyFails
  <2> QED BY <1>10, <2>1 DEF WritePhysFails, WritePtyFails, Streams
<1>11. CASE WritePty
  <2>1. buf # <<>>
    BY <1>11 DEF WritePty, UsbTypeOK
  <2>2. Head(buf) \in Nat /\ Tail(buf) \in Seq(Nat)
    BY <2>1, TakeFirst DEF Streams
  <2> QED BY <1>11, <2>2 DEF WritePty, Streams
<1>12. ASSUME NEW s \in {"framer", "held", "closed"}, SlaveTo(s) PROVE Streams'
  <2>1. toFramer' \in Seq(Nat) /\ toMaster' \in Seq(Nat)
    BY <1>12, NoBytes DEF SlaveTo, Streams
  <2> QED BY <1>12, <2>1 DEF SlaveTo, Streams
<1>13. CASE FramerReads
  <2>1. Head(toFramer) \in Nat /\ Tail(toFramer) \in Seq(Nat)
    BY <1>13, TakeFirst DEF FramerReads, Streams
  <2> QED BY <1>13, <2>1 DEF FramerReads, Streams
<1>14. CASE FramerWrites
  BY <1>14 DEF FramerWrites, Streams
<1>15. CASE DeviceSends
  BY <1>15 DEF DeviceSends, Streams
<1>16. CASE DeviceReads
  <2>1. Head(devRx) \in Nat /\ Tail(devRx) \in Seq(Nat)
    BY <1>16, TakeFirst DEF DeviceReads, Streams
  <2> QED BY <1>16, <2>1 DEF DeviceReads, Streams
<1>17. CASE Unplug
  <2>1. udevQ' \in Seq({"add", "remove"})
    BY <1>17 DEF Unplug, Announce, Streams
  <2>2. devTx' \in Seq(Nat) /\ devRx' \in Seq(Nat)
    BY <1>17 DEF Unplug
  <2> QED BY <1>17, <2>1, <2>2 DEF Unplug, Streams
<1>18. CASE Plug
  <2>1. udevQ' \in Seq({"add", "remove"})
    BY <1>18 DEF Plug, Announce, Streams
  <2>2. plugs' \in Nat /\ plugs' <= MaxPlugs /\ plugged' \in Nat /\ plugged' <= plugs'
    BY <1>18, UsbAssumption DEF Plug, Streams, UsbAssumption
  <2> QED BY <1>18, <2>1, <2>2 DEF Plug, Streams
<1>19. CASE Retrigger
  <2>1. udevQ' \in Seq({"add", "remove"})
    BY <1>19 DEF Retrigger, Announce, Streams
  <2> QED BY <1>19, <2>1 DEF Retrigger, Streams
<1>20. CASE UNCHANGED vars
  BY <1>20 DEF vars, Streams
<1> QED
  BY <1>1, <1>2, <1>3, <1>4, <1>5, <1>6, <1>7, <1>8, <1>9, <1>10, <1>11, <1>12,
     <1>13, <1>14, <1>15, <1>16, <1>17, <1>18, <1>19, <1>20
  DEF Next, Worker, Handle, Write

\* The worker's place and its buffer agree, and no buffer overflows.
LEMMA TypeStep ==
    ASSUME UsbTypeOK, Streams, [Next]_vars
    PROVE  UsbTypeOK'
<1> DEFINE
      T == /\ running \in BOOLEAN /\ master \in BOOLEAN /\ udev_mon \in BOOLEAN
           /\ phys_fd \in Nat /\ phys_fd <= MaxPlugs /\ leaked \in Nat
           /\ caller \in {"idle", "joining"} /\ worker \in Workers
           /\ events \subseteq {"udev", "pty", "phys"}
           /\ slave \in {"closed", "held", "framer"}
           /\ Len(toFramer) <= PtyCap /\ Len(devRx) <= DevCap
           /\ worker \in {"toPhys", "toPty"} <=> buf # <<>>
           /\ worker \in {"toPhys", "toPty"} => phys_fd # 0
<1>1. T
  BY UsbTypeFacts
<1> SUFFICES T'
  BY UsbAssumption DEF UsbTypeOK, UsbAssumption
<1> USE DEF object, thread, monitor, pty, device, history
<1>2. CASE Open \/ CloseBegin \/ CloseEnd
  <2>1. CASE Open
    BY <1>1, <2>1, UsbAssumption DEF Open, Workers, UsbAssumption
  <2>2. CASE CloseBegin
    BY <1>1, <2>2 DEF CloseBegin, Workers
  <2>3. CASE CloseEnd
    <3>1. phys_fd' \in Nat /\ phys_fd' <= MaxPlugs
      BY <2>3, UsbAssumption DEF CloseEnd, UsbAssumption
    <3> QED BY <1>1, <2>3, <3>1 DEF CloseEnd, Workers
  <2> QED BY <1>2, <2>1, <2>2, <2>3
<1>3. CASE OpenFails
  BY <1>1, <1>3 DEF OpenFails, vars, Workers
<1>4. CASE Start \/ Top \/ PollNothing
  BY <1>1, <1>4 DEF Start, Top, PollNothing, Workers
<1>5. CASE Poll
  BY <1>1, <1>5 DEF Poll, Ready, Workers
<1>6. CASE HandleRemove \/ HandleAdd
  <2>1. phys_fd' \in Nat /\ phys_fd' <= MaxPlugs /\ leaked' \in Nat
    <3>1. CASE HandleRemove
      BY <1>1, <3>1, UsbAssumption DEF HandleRemove, UsbAssumption
    <3>2. CASE HandleAdd
      <4>1. phys_fd' \in {phys_fd, plugged} /\ leaked' \in {leaked, leaked + 1}
        BY <3>2 DEF HandleAdd
      <4> QED BY <1>1, <4>1, UsbAssumption DEF Streams, UsbAssumption
    <3> QED BY <1>6, <3>1, <3>2
  <2> QED BY <1>1, <1>6, <2>1 DEF HandleRemove, HandleAdd, Handling, Handled, Workers
<1>7. CASE HandlePty
  BY <1>1, <1>7 DEF HandlePty, Handling, Handled, Workers
<1>8. CASE HandlePhys
  <2>1. phys_fd' \in Nat /\ phys_fd' <= MaxPlugs
    <3>1. phys_fd' \in {phys_fd, 0}
      BY <1>8 DEF HandlePhys
    <3> QED BY <1>1, <3>1, UsbAssumption DEF UsbAssumption
  <2> QED BY <1>1, <1>8, <2>1 DEF HandlePhys, Handling, Handled, Workers
<1>9. CASE WritePhys
  <2>1. buf # <<>>
    BY <1>1, <1>9 DEF WritePhys
  <2>2. Head(buf) \in Nat /\ Tail(buf) \in Seq(Nat)
    BY <2>1, TakeFirst DEF Streams
  <2>3. Len(devRx') <= DevCap
    BY <1>9, <2>2, UsbAssumption DEF WritePhys, Streams, UsbAssumption
  <2> QED BY <1>1, <1>9, <2>3 DEF WritePhys, LoopEnds, Workers
<1>10. CASE WritePhysFails \/ WritePtyFails
  <2>1. phys_fd' \in Nat /\ phys_fd' <= MaxPlugs
    BY <1>10, UsbAssumption DEF WritePhysFails, WritePtyFails, UsbAssumption
  <2> QED BY <1>1, <1>10, <2>1 DEF WritePhysFails, WritePtyFails, LoopEnds, Workers
<1>11. CASE WritePty
  <2>1. buf # <<>>
    BY <1>1, <1>11 DEF WritePty
  <2>2. Head(buf) \in Nat /\ Tail(buf) \in Seq(Nat)
    BY <2>1, TakeFirst DEF Streams
  <2>3. Len(toFramer') <= PtyCap
    BY <1>11, <2>2, UsbAssumption DEF WritePty, Streams, UsbAssumption
  <2> QED BY <1>1, <1>11, <2>3 DEF WritePty, LoopEnds, Workers
<1>12. ASSUME NEW s \in {"framer", "held", "closed"}, SlaveTo(s) PROVE T'
  BY <1>1, <1>12, UsbAssumption DEF SlaveTo, Workers, UsbAssumption
<1>13. CASE FramerReads
  <2>1. Len(toFramer') <= PtyCap
    BY <1>1, <1>13, TakeFirst, UsbAssumption DEF FramerReads, Streams, UsbAssumption
  <2> QED BY <1>1, <1>13, <2>1 DEF FramerReads, Workers
<1>14. CASE FramerWrites \/ DeviceSends
  <2>1. CASE FramerWrites
    BY <1>1, <2>1 DEF FramerWrites, Workers
  <2>2. CASE DeviceSends
    BY <1>1, <2>2 DEF DeviceSends, Workers
  <2> QED BY <1>14, <2>1, <2>2
<1>15. CASE DeviceReads
  <2>1. Len(devRx') <= DevCap
    BY <1>1, <1>15, TakeFirst, UsbAssumption DEF DeviceReads, Streams, UsbAssumption
  <2> QED BY <1>1, <1>15, <2>1 DEF DeviceReads, Workers
<1>16. CASE Unplug \/ Plug \/ Retrigger
  <2>1. Len(devRx') <= DevCap
    BY <1>1, <1>16, UsbAssumption DEF Unplug, Plug, Retrigger, UsbAssumption
  <2>2. CASE Unplug
    BY <1>1, <2>1, <2>2 DEF Unplug, Workers
  <2>3. CASE Plug
    BY <1>1, <2>1, <2>3 DEF Plug, Workers
  <2>4. CASE Retrigger
    BY <1>1, <2>1, <2>4 DEF Retrigger, Workers
  <2> QED BY <1>16, <2>2, <2>3, <2>4
<1>17. CASE UNCHANGED vars
  BY <1>1, <1>17 DEF vars, Workers
<1> QED
  BY <1>2, <1>3, <1>4, <1>5, <1>6, <1>7, <1>8, <1>9, <1>10, <1>11, <1>12,
     <1>13, <1>14, <1>15, <1>16, <1>17
  DEF Next, Worker, Handle, Write

-----------------------------------------------------------------------------
(* Order.                                                                  *)

\* What a part of a line is made of.
LEMMA Parts ==
    ASSUME NEW s \in Seq(Nat), NEW t \in Seq(Nat)
    PROVE  /\ s \o t \in Seq(Nat) /\ Len(s \o t) = Len(s) + Len(t)
           /\ Len(s) \in Nat /\ Len(t) \in Nat
           /\ \A k \in 1..Len(s) : (s \o t)[k] = s[k]
           /\ \A k \in 1..Len(t) : (s \o t)[Len(s) + k] = t[k]
  BY ConcatProperties, LenProperties

Regroups(s, t, u) == (s \o t) \o u = s \o (t \o u)

LEMMA Concat3 == \A s, t, u \in Seq(Nat) : Regroups(s, t, u)
<1> TAKE s, t, u \in Seq(Nat)
<1>1. (s \o t) \o u = s \o (t \o u)
  BY ConcatAssociative, SMTT(30)
<1> QED BY <1>1, Zenon DEF Regroups

LEMMA ConcatNothing ==
    ASSUME NEW s \in Seq(Nat)
    PROVE  s \o <<>> = s /\ <<>> \o s = s
  BY ConcatEmptySeq

\* The first element of the second part becomes the last of the first.
LEMMA MoveFirst ==
    ASSUME NEW s \in Seq(Nat), NEW t \in Seq(Nat), t # <<>>
    PROVE  Append(s, Head(t)) \o Tail(t) = s \o t
<1>1. Head(t) = t[1] /\ Tail(t) \in Seq(Nat) /\ Len(t) > 0 /\ Len(Tail(t)) = Len(t) - 1
  BY HeadTailProperties, EmptySeq
<1>2. \A k \in 1..Len(Tail(t)) : Tail(t)[k] = t[k + 1]
  BY HeadTailProperties
<1>3. /\ Append(s, t[1]) \in Seq(Nat) /\ Len(Append(s, t[1])) = Len(s) + 1
      /\ \A k \in 1..Len(s) : Append(s, t[1])[k] = s[k]
      /\ Append(s, t[1])[Len(s) + 1] = t[1]
  <2>1. t[1] \in Nat
    BY <1>1, ElementOfSeq
  <2> QED BY <2>1, AppendProperties
<1> DEFINE x == Append(s, t[1])
           y == Tail(t)
<1>4. x \in Seq(Nat) /\ y \in Seq(Nat)
  BY <1>1, <1>3
<1> HIDE DEF x, y
<1>5. /\ x \o y \in Seq(Nat) /\ Len(x \o y) = Len(x) + Len(y)
      /\ \A k \in 1..Len(x) : (x \o y)[k] = x[k]
      /\ \A k \in 1..Len(y) : (x \o y)[Len(x) + k] = y[k]
  BY <1>4, Parts
<1>6. /\ s \o t \in Seq(Nat) /\ Len(s \o t) = Len(s) + Len(t)
      /\ Len(s) \in Nat /\ Len(t) \in Nat
      /\ \A k \in 1..Len(s) : (s \o t)[k] = s[k]
      /\ \A k \in 1..Len(t) : (s \o t)[Len(s) + k] = t[k]
  BY Parts
<1>7. Len(x) = Len(s) + 1 /\ Len(y) = Len(t) - 1
  BY <1>1, <1>3 DEF x, y
<1>8. Len(x \o y) = Len(s \o t)
  BY <1>5, <1>6, <1>7
<1>9. ASSUME NEW k \in 1..Len(s \o t) PROVE (x \o y)[k] = (s \o t)[k]
  <2>1. CASE k <= Len(s)
    BY <1>3, <1>5, <1>6, <1>7, <2>1 DEF x
  <2>2. CASE k = Len(s) + 1
    <3>1. (x \o y)[k] = t[1]
      BY <1>3, <1>5, <1>6, <1>7, <2>2 DEF x
    <3>2. (s \o t)[k] = t[1]
      BY <1>1, <1>6, <2>2
    <3> QED BY <3>1, <3>2
  <2>3. CASE k > Len(s) + 1
    <3>1. PICK i \in 1..Len(y) : k = Len(x) + i
      <4>1. k - Len(x) \in 1..Len(y) /\ k = Len(x) + (k - Len(x))
        BY <1>6, <1>7, <1>8, <2>3
      <4> QED BY <4>1
    <3>2. (x \o y)[k] = t[i + 1]
      BY <1>2, <1>5, <3>1 DEF y
    <3>3. (s \o t)[k] = t[i + 1]
      <4>1. i + 1 \in 1..Len(t) /\ k = Len(s) + (i + 1)
        BY <1>6, <1>7, <3>1
      <4> QED BY <1>6, <4>1
    <3> QED BY <3>2, <3>3
  <2>4. k \in Nat
    BY <1>6
  <2>5. k <= Len(s) \/ k = Len(s) + 1 \/ k > Len(s) + 1
    BY <1>6, <2>4
  <2> QED BY <2>1, <2>2, <2>3, <2>5
<1>10. x \o y = s \o t
  BY <1>5, <1>6, <1>8, <1>9, SeqEqual
<1> QED BY <1>1, <1>10 DEF x, y

\* A line without one of its parts is still in order: dropped bytes leave a gap.
LEMMA DropMiddle ==
    ASSUME NEW s \in Seq(Nat), NEW t \in Seq(Nat), NEW u \in Seq(Nat), NEW n,
           Numbered(s \o t \o u, n)
    PROVE  Numbered(s \o u, n)
<1>1. /\ s \o t \in Seq(Nat) /\ Len(s \o t) = Len(s) + Len(t)
      /\ Len(s) \in Nat /\ Len(t) \in Nat
      /\ \A k \in 1..Len(s) : (s \o t)[k] = s[k]
  BY Parts
<1>2. PICK st \in Seq(Nat) : st = s \o t
  BY <1>1
<1>3. PICK a \in Seq(Nat) : a = st \o u
  BY Parts
<1>4. PICK b \in Seq(Nat) : b = s \o u
  BY Parts
<1>5. /\ Len(a) = Len(st) + Len(u) /\ Len(u) \in Nat
      /\ \A k \in 1..Len(st) : a[k] = st[k]
      /\ \A k \in 1..Len(u) : a[Len(st) + k] = u[k]
  BY <1>3, Parts
<1>6. /\ Len(b) = Len(s) + Len(u)
      /\ \A k \in 1..Len(s) : b[k] = s[k]
      /\ \A k \in 1..Len(u) : b[Len(s) + k] = u[k]
  BY <1>4, Parts
<1>7. Len(st) = Len(s) + Len(t) /\ \A k \in 1..Len(s) : st[k] = s[k]
  BY <1>1, <1>2
<1> DEFINE m(k) == IF k <= Len(s) THEN k ELSE k + Len(t)
<1>8. ASSUME NEW k \in 1..Len(b) PROVE m(k) \in 1..Len(a) /\ b[k] = a[m(k)]
  <2>1. CASE k <= Len(s)
    BY <1>1, <1>5, <1>6, <1>7, <2>1
  <2>2. CASE k > Len(s)
    <3>1. PICK i \in 1..Len(u) : k = Len(s) + i
      <4>1. k - Len(s) \in 1..Len(u) /\ k = Len(s) + (k - Len(s))
        <5>1. Len(b) = Len(s) + Len(u) /\ Len(s) \in Nat /\ Len(u) \in Nat
          BY <1>1, <1>5, <1>6
        <5> QED BY <2>2, <5>1
      <4> QED BY <4>1
    <3>2. m(k) = Len(st) + i
      BY <1>1, <1>7, <2>2, <3>1
    <3>3. b[k] = u[i] /\ a[Len(st) + i] = u[i]
      BY <1>5, <1>6, <3>1
    <3>4. Len(st) + i \in 1..Len(a)
      BY <1>1, <1>5, <1>7, <3>1
    <3> QED BY <3>2, <3>3, <3>4
  <2> QED BY <1>1, <2>1, <2>2
<1>9. \A j, k \in 1..Len(b) : j < k => m(j) < m(k)
  BY <1>1
<1>10. Numbered(a, n)
  BY <1>2, <1>3
<1> HIDE DEF m
<1>11. Ordered(b)
  BY <1>8, <1>9, <1>10 DEF Numbered, Ordered
<1>12. \A k \in 1..Len(b) : b[k] <= n
  BY <1>8, <1>10 DEF Numbered
<1> QED BY <1>4, <1>11, <1>12 DEF Numbered

\* The next number goes to the end of a line.
LEMMA AppendNext ==
    ASSUME NEW s \in Seq(Nat), NEW n \in Nat, Numbered(s, n)
    PROVE  Numbered(Append(s, n + 1), n + 1)
<1>1. PICK x \in Seq(Nat) : x = Append(s, n + 1)
  <2>1. n + 1 \in Nat
    OBVIOUS
  <2>2. Append(s, n + 1) \in Seq(Nat)
    BY <2>1, AppendProperties
  <2> QED BY <2>2
<1>2. /\ Len(x) = Len(s) + 1 /\ Len(s) \in Nat /\ x[Len(s) + 1] = n + 1
      /\ \A k \in 1..Len(s) : x[k] = s[k]
  BY <1>1, AppendProperties, LenProperties
<1>3. \A k \in 1..Len(s) : s[k] \in Nat
  BY ElementOfSeq
<1>4. \A k \in 1..Len(x) : k \in 1..Len(s) \/ k = Len(s) + 1
  BY <1>2
<1>5. Ordered(x)
  <2> SUFFICES ASSUME NEW j \in 1..Len(x), NEW k \in 1..Len(x), j < k PROVE x[j] < x[k]
    BY DEF Ordered
  <2>1. j \in 1..Len(s)
    BY <1>2
  <2>2. CASE k \in 1..Len(s)
    BY <1>2, <2>1, <2>2 DEF Numbered, Ordered
  <2>3. CASE k = Len(s) + 1
    <3>1. x[j] = s[j] /\ s[j] \in Nat /\ s[j] <= n /\ x[k] = n + 1
      BY <1>2, <1>3, <2>1, <2>3 DEF Numbered
    <3> QED BY <3>1
  <2> QED BY <1>4, <2>2, <2>3
<1>6. ASSUME NEW k \in 1..Len(x) PROVE x[k] <= n + 1
  <2>1. CASE k \in 1..Len(s)
    <3>1. x[k] = s[k] /\ s[k] \in Nat /\ s[k] <= n
      BY <1>2, <1>3, <2>1 DEF Numbered
    <3> QED BY <3>1
  <2>2. CASE k = Len(s) + 1
    BY <1>2, <2>2
  <2> QED BY <1>4, <2>1, <2>2
<1> QED BY <1>1, <1>5, <1>6 DEF Numbered

\* The moves of a line: its reader reads, the worker writes, the worker picks up.
LEMMA LineMoves ==
    ASSUME NEW got \in Seq(Nat), NEW near \in Seq(Nat), NEW held \in Seq(Nat), NEW far \in Seq(Nat)
    PROVE  /\ near # <<>> =>
                Line(Append(got, Head(near)), Tail(near), held, far) = Line(got, near, held, far)
           /\ held # <<>> =>
                Line(got, Append(near, Head(held)), Tail(held), far) = Line(got, near, held, far)
           /\ Line(got, near, far, <<>>) = Line(got, near, <<>>, far)
<1>1. ASSUME near # <<>>
      PROVE  Line(Append(got, Head(near)), Tail(near), held, far) = Line(got, near, held, far)
  BY <1>1, MoveFirst DEF Line
<1>2. ASSUME held # <<>>
      PROVE  Line(got, Append(near, Head(held)), Tail(held), far) = Line(got, near, held, far)
  <2>1. PICK e \in Nat, r \in Seq(Nat) : e = Head(held) /\ r = Tail(held)
    BY <1>2, TakeFirst
  <2>2. PICK x \in Seq(Nat) : x = Append(near, e)
    BY AppendProperties
  <2>3. x \o r = near \o held
    BY <1>2, <2>1, <2>2, MoveFirst
  <2>4. (got \o x) \o r = (got \o near) \o held
    <3>1. Regroups(got, x, r) /\ Regroups(got, near, held)
      BY Concat3
    <3> QED BY <2>3, <3>1, Zenon DEF Regroups
  <2> QED BY <2>1, <2>2, <2>4 DEF Line
<1>3. Line(got, near, far, <<>>) = Line(got, near, <<>>, far)
  <2>1. PICK x \in Seq(Nat) : x = got \o near
    BY Parts
  <2>2. PICK y \in Seq(Nat) : y = x \o far
    BY Parts
  <2>3. x \o <<>> = x /\ y \o <<>> = y
    BY ConcatNothing
  <2> QED BY <2>1, <2>2, <2>3 DEF Line
<1> QED BY <1>1, <1>2, <1>3

\* A line loses what a buffer of it held, and gains the next number at its end.
LEMMA LineChanges ==
    ASSUME NEW got \in Seq(Nat), NEW near \in Seq(Nat), NEW held \in Seq(Nat), NEW far \in Seq(Nat),
           NEW n \in Nat, Numbered(Line(got, near, held, far), n)
    PROVE  /\ Numbered(Line(got, <<>>, held, far), n)
           /\ Numbered(Line(got, near, <<>>, far), n)
           /\ Numbered(Line(got, near, held, <<>>), n)
           /\ Numbered(Line(got, near, held, Append(far, n + 1)), n + 1)
<1>1. PICK gn \in Seq(Nat) : gn = got \o near
  BY Parts
<1>2. PICK hf \in Seq(Nat) : hf = held \o far
  BY Parts
<1>3. PICK gnh \in Seq(Nat) : gnh = gn \o held
  BY Parts
<1>4. PICK gh \in Seq(Nat) : gh = got \o held
  BY Parts
<1>5. PICK line \in Seq(Nat) : line = gnh \o far
  BY Parts
<1>6. Numbered(line, n)
  BY <1>1, <1>3, <1>5 DEF Line
<1>7. Numbered(Line(got, <<>>, held, far), n)
  <2>1. line = gn \o hf
    <3>1. Regroups(gn, held, far)
      BY Concat3
    <3> QED BY <1>2, <1>3, <1>5, <3>1, Zenon DEF Regroups
  <2>2. Numbered(got \o near \o hf, n)
    BY <1>1, <1>6, <2>1
  <2>3. Numbered(got \o hf, n)
    BY <2>2, DropMiddle
  <2>4. got \o hf = gh \o far
    <3>1. Regroups(got, held, far)
      BY Concat3
    <3> QED BY <1>2, <1>4, <3>1, Zenon DEF Regroups
  <2>5. got \o <<>> = got
    BY ConcatNothing
  <2> QED BY <1>4, <2>3, <2>4, <2>5 DEF Line
<1>8. Numbered(Line(got, near, <<>>, far), n)
  <2>1. Numbered(gn \o held \o far, n)
    BY <1>3, <1>5, <1>6
  <2>2. Numbered(gn \o far, n)
    BY <2>1, DropMiddle
  <2>3. gn \o <<>> = gn
    BY ConcatNothing
  <2> QED BY <1>1, <2>2, <2>3 DEF Line
<1>9. Numbered(Line(got, near, held, <<>>), n)
  <2>1. line \o <<>> = line
    BY ConcatNothing
  <2>2. Numbered(gnh \o far \o <<>>, n)
    BY <1>5, <1>6, <2>1
  <2>3. Numbered(gnh \o <<>>, n)
    BY <2>2, NoBytes, DropMiddle
  <2> QED BY <1>1, <1>3, <2>3 DEF Line
<1>10. Numbered(Line(got, near, held, Append(far, n + 1)), n + 1)
  <2>1. Numbered(Append(line, n + 1), n + 1)
    BY <1>6, AppendNext
  <2>2. Append(line, n + 1) = gnh \o Append(far, n + 1)
    <3>1. PICK e \in Nat : e = n + 1
      OBVIOUS
    <3>2. Append(gnh \o far, e) = gnh \o Append(far, e)
      <4>1. <<e>> \in Seq(Nat)
        OBVIOUS
      <4>2. Append(far, e) = far \o <<e>>
        BY AppendIsConcat
      <4>3. gnh \o far \in Seq(Nat)
        BY Parts
      <4>4. Append(gnh \o far, e) = (gnh \o far) \o <<e>>
        BY <4>3, AppendIsConcat
      <4>5. Regroups(gnh, far, <<e>>)
        BY <4>1, Concat3
      <4> QED BY <4>2, <4>4, <4>5, Zenon DEF Regroups
    <3> QED BY <1>5, <3>1, <3>2
  <2> QED BY <1>1, <1>3, <2>1, <2>2 DEF Line
<1> QED BY <1>7, <1>8, <1>9, <1>10

LEMMA FlowInit == ASSUME Init PROVE FlowInv
<1>1. <<>> \o <<>> = <<>>
  BY NoBytes, ConcatNothing
<1>2. Numbered(<<>>, 0)
  BY DEF Numbered, Ordered
<1> QED BY <1>1, <1>2 DEF Init, FlowInv, Carried, Line

LEMMA CarriedType == ASSUME Streams, NEW w PROVE Carried(w) \in Seq(Nat)
  BY NoBytes DEF Streams, Carried

\* Neither end gets a byte out of order, whatever is lost on the way.
LEMMA FlowStep ==
    ASSUME UsbTypeOK, Streams, FlowInv, [Next]_vars
    PROVE  FlowInv'
<1> DEFINE In == Numbered(Line(framerGot, toFramer, Carried("toPty"), devTx), devSent)
           Out == Numbered(Line(devGot, devRx, Carried("toPhys"), toMaster), framerSent)
<1> SUFFICES In' /\ Out'
  BY DEF FlowInv
<1> USE DEF object, thread, monitor, pty, device, history
<1>1. In /\ Out
  BY DEF FlowInv
<1>2. /\ framerGot \in Seq(Nat) /\ toFramer \in Seq(Nat) /\ devTx \in Seq(Nat)
      /\ devGot \in Seq(Nat) /\ devRx \in Seq(Nat) /\ toMaster \in Seq(Nat)
      /\ devSent \in Nat /\ framerSent \in Nat
      /\ Carried("toPty") \in Seq(Nat) /\ Carried("toPhys") \in Seq(Nat)
  BY CarriedType DEF Streams
<1>3. worker \notin {"toPhys", "toPty"} <=> buf = <<>>
  BY DEF UsbTypeOK
\* What the line in and the line out become when a buffer of theirs is emptied.
<1>4. /\ Numbered(Line(framerGot, <<>>, Carried("toPty"), devTx), devSent)
      /\ Numbered(Line(framerGot, toFramer, <<>>, devTx), devSent)
      /\ Numbered(Line(framerGot, toFramer, Carried("toPty"), <<>>), devSent)
      /\ Numbered(Line(framerGot, toFramer, Carried("toPty"), Append(devTx, devSent + 1)), devSent + 1)
  BY <1>1, <1>2, LineChanges
<1>5. /\ Numbered(Line(devGot, <<>>, Carried("toPhys"), toMaster), framerSent)
      /\ Numbered(Line(devGot, devRx, <<>>, toMaster), framerSent)
      /\ Numbered(Line(devGot, devRx, Carried("toPhys"), <<>>), framerSent)
      /\ Numbered(Line(devGot, devRx, Carried("toPhys"), Append(toMaster, framerSent + 1)), framerSent + 1)
  BY <1>1, <1>2, LineChanges
<1>6. ASSUME UNCHANGED <<framerGot, toFramer, devTx, devSent, devGot, devRx, toMaster, framerSent, buf>>,
             buf = <<>> \/ worker' = worker
      PROVE  In' /\ Out'
  <2>1. Carried("toPty")' = Carried("toPty") /\ Carried("toPhys")' = Carried("toPhys")
    BY <1>6 DEF Carried
  <2> QED BY <1>1, <1>6, <2>1
<1>7. CASE Open
  <2>1. Carried("toPty")' = <<>> /\ Carried("toPhys")' = <<>>
    BY <1>7 DEF Open, Carried
  <2>2. Numbered(Line(framerGot, <<>>, <<>>, devTx), devSent)
    <3>1. Carried("toPty") = <<>>
      BY <1>7 DEF Open, Carried
    <3> QED BY <1>4, <3>1
  <2>3. Numbered(Line(devGot, devRx, <<>>, <<>>), framerSent)
    <3>1. Carried("toPhys") = <<>>
      BY <1>7 DEF Open, Carried
    <3> QED BY <1>5, <3>1
  <2> QED BY <1>7, <2>1, <2>2, <2>3 DEF Open
<1>8. CASE OpenFails \/ CloseBegin \/ UNCHANGED vars
  BY <1>6, <1>8 DEF OpenFails, CloseBegin, vars
<1>9. CASE CloseEnd
  BY <1>3, <1>6, <1>9 DEF CloseEnd
<1>10. CASE Start \/ Top \/ PollNothing \/ Poll
  BY <1>3, <1>6, <1>10 DEF Start, Top, PollNothing, Poll
<1>11. CASE HandleRemove \/ HandleAdd
  BY <1>3, <1>6, <1>11 DEF HandleRemove, HandleAdd, Handling
<1>12. CASE HandlePty
  <2>1. worker = "events" /\ buf = <<>> /\ Carried("toPty") = <<>> /\ Carried("toPhys") = <<>>
    BY <1>3, <1>12 DEF HandlePty, Handling, Carried
  <2>2. /\ Carried("toPty")' = <<>>
        /\ Carried("toPhys")' = toMaster \/ Carried("toPhys")' = <<>>
    BY <1>12, <2>1 DEF HandlePty, Handled, Carried
  <2>3. In'
    BY <1>1, <1>12, <2>1, <2>2 DEF HandlePty
  <2>4. Numbered(Line(devGot, devRx, toMaster, <<>>), framerSent)
    <3>1. Line(devGot, devRx, toMaster, <<>>) = Line(devGot, devRx, <<>>, toMaster)
      BY <1>2, LineMoves
    <3> QED BY <1>1, <2>1, <3>1
  <2>5. Numbered(Line(devGot, devRx, <<>>, <<>>), framerSent)
    BY <1>5, <2>1
  <2> QED BY <1>12, <2>2, <2>3, <2>4, <2>5 DEF HandlePty
<1>13. CASE HandlePhys
  <2>1. worker = "events" /\ buf = <<>> /\ Carried("toPty") = <<>> /\ Carried("toPhys") = <<>>
    BY <1>3, <1>13 DEF HandlePhys, Handling, Carried
  <2>2. /\ Carried("toPhys")' = <<>>
        /\ \/ Carried("toPty")' = devTx /\ devTx' = <<>>
           \/ Carried("toPty")' = <<>> /\ devTx' = devTx
    BY <1>13, <2>1 DEF HandlePhys, Handled, Carried
  <2>3. Out'
    BY <1>1, <1>13, <2>1, <2>2 DEF HandlePhys
  <2>4. Numbered(Line(framerGot, toFramer, devTx, <<>>), devSent)
    <3>1. Line(framerGot, toFramer, devTx, <<>>) = Line(framerGot, toFramer, <<>>, devTx)
      BY <1>2, LineMoves
    <3> QED BY <1>1, <2>1, <3>1
  <2> QED BY <1>1, <1>13, <2>1, <2>2, <2>3, <2>4 DEF HandlePhys
<1>14. CASE WritePhys
  <2>1. worker = "toPhys" /\ buf # <<>> /\ Carried("toPhys") = buf /\ Carried("toPty") = <<>>
    BY <1>3, <1>14 DEF WritePhys, Carried
  <2>2. Carried("toPhys")' = Tail(buf) /\ Carried("toPty")' = <<>>
    BY <1>14, <2>1 DEF WritePhys, LoopEnds, Carried
  <2>3. Line(devGot, Append(devRx, Head(buf)), Tail(buf), toMaster) = Line(devGot, devRx, buf, toMaster)
    BY <1>2, <2>1, LineMoves
  <2> QED BY <1>1, <1>14, <2>1, <2>2, <2>3 DEF WritePhys
<1>15. CASE WritePhysFails \/ WritePtyFails
  <2>1. buf' = <<>> /\ UNCHANGED <<framerGot, toFramer, devTx, devSent, devGot, devRx, toMaster, framerSent>>
    BY <1>15 DEF WritePhysFails, WritePtyFails
  <2>2. Carried("toPty")' = <<>> /\ Carried("toPhys")' = <<>>
    BY <2>1 DEF Carried
  <2> QED BY <1>4, <1>5, <2>1, <2>2
<1>16. CASE WritePty
  <2>1. worker = "toPty" /\ buf # <<>> /\ Carried("toPty") = buf /\ Carried("toPhys") = <<>>
    BY <1>3, <1>16 DEF WritePty, Carried
  <2>2. Carried("toPty")' = Tail(buf) /\ Carried("toPhys")' = <<>>
    BY <1>16, <2>1 DEF WritePty, LoopEnds, Carried
  <2>3. Line(framerGot, Append(toFramer, Head(buf)), Tail(buf), devTx) = Line(framerGot, toFramer, buf, devTx)
    BY <1>2, <2>1, LineMoves
  <2> QED BY <1>1, <1>16, <2>1, <2>2, <2>3 DEF WritePty
\* Outside the worker, what it carries stays.
<1>17. ASSUME UNCHANGED <<worker, buf>>
       PROVE  Carried("toPty")' = Carried("toPty") /\ Carried("toPhys")' = Carried("toPhys")
  BY <1>17 DEF Carried
<1>18. ASSUME NEW s \in {"framer", "held", "closed"}, SlaveTo(s) PROVE In' /\ Out'
  <2>1. /\ Carried("toPty")' = Carried("toPty") /\ Carried("toPhys")' = Carried("toPhys")
        /\ UNCHANGED <<framerGot, devTx, devSent, devGot, devRx, framerSent>>
    BY <1>17, <1>18 DEF SlaveTo
  <2>2. CASE toFramer' = <<>> /\ toMaster' = <<>>
    BY <1>4, <1>5, <2>1, <2>2
  <2>3. CASE UNCHANGED <<toFramer, toMaster>>
    BY <1>1, <2>1, <2>3
  <2> QED BY <1>18, <2>2, <2>3 DEF SlaveTo
<1>19. CASE FramerReads
  <2>1. Line(Append(framerGot, Head(toFramer)), Tail(toFramer), Carried("toPty"), devTx)
            = Line(framerGot, toFramer, Carried("toPty"), devTx)
    BY <1>2, <1>19, LineMoves DEF FramerReads
  <2> QED BY <1>1, <1>17, <1>19, <2>1 DEF FramerReads
<1>20. CASE FramerWrites
  BY <1>1, <1>5, <1>17, <1>20 DEF FramerWrites
<1>21. CASE DeviceSends
  BY <1>1, <1>4, <1>17, <1>21 DEF DeviceSends
<1>22. CASE DeviceReads
  <2>1. Line(Append(devGot, Head(devRx)), Tail(devRx), Carried("toPhys"), toMaster)
            = Line(devGot, devRx, Carried("toPhys"), toMaster)
    BY <1>2, <1>22, LineMoves DEF DeviceReads
  <2> QED BY <1>1, <1>17, <1>22, <2>1 DEF DeviceReads
<1>23. CASE Unplug
  BY <1>4, <1>5, <1>17, <1>23 DEF Unplug
<1>24. CASE Plug \/ Retrigger
  BY <1>6, <1>24 DEF Plug, Retrigger
<1> HIDE DEF In, Out
<1> QED
  BY <1>7, <1>8, <1>9, <1>10, <1>11, <1>12, <1>13, <1>14, <1>15, <1>16, <1>18,
     <1>19, <1>20, <1>21, <1>22, <1>23, <1>24
  DEF Next, Worker, Handle, Write

-----------------------------------------------------------------------------
(* Descriptors.                                                            *)

LEMMA LifeInit == ASSUME Init PROVE LifeInv
  BY DEF Init, LifeInv

\* What an announcement does to the queue.
LEMMA AnnounceQueue ==
    ASSUME Streams, NEW a \in {"add", "remove"}, Announce(a)
    PROVE  /\ ~udev_mon => udevQ' = udevQ
           /\ udev_mon => udevQ' = Append(udevQ, a) /\ udevQ' # <<>> /\ udevQ'[Len(udevQ')] = a
<1>1. Append(udevQ, a) # <<>> /\ Append(udevQ, a)[Len(Append(udevQ, a))] = a
  <2>1. PICK t \in Seq({"add", "remove"}) :
            t = Append(udevQ, a) /\ Len(t) = Len(udevQ) + 1 /\ t[Len(udevQ) + 1] = a
    <3>1. udevQ \in Seq({"add", "remove"})
      BY DEF Streams
    <3>2. /\ Append(udevQ, a) \in Seq({"add", "remove"}) /\ Len(Append(udevQ, a)) = Len(udevQ) + 1
          /\ Append(udevQ, a)[Len(udevQ) + 1] = a
      BY <3>1, AppendProperties, Zenon
    <3> QED BY <3>2, Zenon
  <2>2. Len(udevQ) \in Nat
    BY LenProperties DEF Streams
  <2>3. t # <<>>
    BY <2>1, <2>2, EmptySeq
  <2> QED BY <2>1, <2>3
<1> QED BY <1>1 DEF Announce

\* Taking an event off the queue leaves the last one, unless it was the only one.
LEMMA TakeEvent ==
    ASSUME Streams, udevQ # <<>>
    PROVE  /\ Tail(udevQ) \in Seq({"add", "remove"}) /\ Head(udevQ) = udevQ[1]
           /\ Len(udevQ) \in Nat /\ Len(udevQ) > 0 /\ Len(Tail(udevQ)) = Len(udevQ) - 1
           /\ Tail(udevQ) # <<>> => Tail(udevQ)[Len(Tail(udevQ))] = udevQ[Len(udevQ)]
           /\ Tail(udevQ) = <<>> => Head(udevQ) = udevQ[Len(udevQ)]
<1>1. PICK t \in Seq({"add", "remove"}) :
          /\ t = Tail(udevQ) /\ Len(t) = Len(udevQ) - 1
          /\ \A k \in 1..Len(t) : t[k] = udevQ[k + 1]
  BY HeadTailProperties DEF Streams
<1>2. Len(udevQ) \in Nat /\ Len(udevQ) > 0 /\ Head(udevQ) = udevQ[1]
  BY HeadTailProperties, EmptySeq, LenProperties DEF Streams
<1>3. ASSUME t # <<>> PROVE t[Len(t)] = udevQ[Len(udevQ)]
  <2>1. Len(t) \in 1..Len(t) /\ Len(t) + 1 = Len(udevQ)
    BY <1>1, <1>2, <1>3, EmptySeq
  <2> QED BY <1>1, <2>1
<1>4. ASSUME t = <<>> PROVE Head(udevQ) = udevQ[Len(udevQ)]
  <2>1. Len(t) = 0
    BY <1>4
  <2>2. Len(udevQ) = 1
    BY <1>1, <1>2, <2>1
  <2> QED BY <1>2, <2>2
<1> QED BY <1>1, <1>2, <1>3, <1>4

\* Who may hold a descriptor, and that a removal is always on its way.
LEMMA LifeStep ==
    ASSUME UsbTypeOK, Streams, LifeInv, [Next]_vars
    PROVE  LifeInv'
<1> USE DEF object, thread, monitor, pty, device, history
<1>1. CASE Open
  BY <1>1 DEF Open, LifeInv
<1>2. CASE OpenFails \/ UNCHANGED vars
  BY <1>2 DEF OpenFails, vars, LifeInv
<1>3. CASE CloseBegin
  BY <1>3 DEF CloseBegin, LifeInv
<1>4. CASE CloseEnd
  BY <1>4 DEF CloseEnd, LifeInv
<1>5. CASE Start
  BY <1>5 DEF Start, LifeInv
<1>6. CASE Top \/ PollNothing \/ Poll
  BY <1>6 DEF Top, PollNothing, Poll, LifeInv
<1>7. CASE HandleRemove
  <2>1. worker = "events" /\ worker' \in {"top", "events"} /\ udevQ # <<>>
    BY <1>7 DEF HandleRemove, Handling, Handled
  <2> QED BY <1>7, <2>1, TakeEvent DEF HandleRemove, LifeInv
<1>8. CASE HandleAdd
  <2>1. worker = "events" /\ worker' \in {"top", "events"} /\ udevQ # <<>> /\ Head(udevQ) = "add"
    BY <1>8 DEF HandleAdd, Handling, Handled
  <2>2. udev_mon /\ udev_mon' = udev_mon /\ plugged' = plugged /\ caller' = caller /\ running' = running
    BY <1>8, <2>1 DEF HandleAdd, LifeInv
  <2>3. udevQ' = Tail(udevQ)
    BY <1>8 DEF HandleAdd
  <2>4. ASSUME plugged = 0 PROVE udevQ' # <<>> /\ udevQ'[Len(udevQ')] = "remove"
    BY <2>1, <2>3, <2>4, TakeEvent DEF LifeInv
  <2> QED BY <2>1, <2>2, <2>4 DEF LifeInv
<1>9. CASE HandlePty
  <2>1. worker = "events" /\ worker' \in {"top", "events", "toPhys"}
    BY <1>9 DEF HandlePty, Handling, Handled
  <2> QED BY <1>9, <2>1 DEF HandlePty, LifeInv
<1>10. CASE HandlePhys
  <2>1. worker = "events" /\ worker' \in {"top", "events", "toPty"} /\ phys_fd' \in {0, phys_fd}
    BY <1>10 DEF HandlePhys, Handling, Handled
  <2> QED BY <1>10, <2>1 DEF HandlePhys, LifeInv
<1>11. CASE Write
  <2>1. /\ worker \in {"toPhys", "toPty"} /\ worker' \in {"toPhys", "toPty", "top", "events"}
        /\ phys_fd' \in {0, phys_fd}
    BY <1>11 DEF Write, WritePhys, WritePhysFails, WritePty, WritePtyFails, LoopEnds
  <2>2. UNCHANGED <<running, master, caller, udev_mon, udevQ, plugged>>
    BY <1>11 DEF Write, WritePhys, WritePhysFails, WritePty, WritePtyFails
  <2> QED BY <2>1, <2>2 DEF LifeInv
<1>12. ASSUME NEW s \in {"framer", "held", "closed"}, SlaveTo(s) PROVE LifeInv'
  BY <1>12 DEF SlaveTo, LifeInv
<1>13. CASE FramerReads \/ FramerWrites \/ DeviceSends \/ DeviceReads
  BY <1>13 DEF FramerReads, FramerWrites, DeviceSends, DeviceReads, LifeInv
<1>14. CASE Unplug
  <2>1. /\ ~udev_mon => udevQ' = udevQ
        /\ udev_mon => udevQ' # <<>> /\ udevQ'[Len(udevQ')] = "remove"
    BY <1>14, AnnounceQueue DEF Unplug
  <2> QED BY <1>14, <2>1 DEF Unplug, LifeInv
<1>15. CASE Plug
  <2>1. (~udev_mon => udevQ' = udevQ) /\ plugged' # 0
    BY <1>15, AnnounceQueue DEF Plug, Streams
  <2> QED BY <1>15, <2>1 DEF Plug, LifeInv
<1>16. CASE Retrigger
  BY <1>16 DEF Retrigger, LifeInv
<1> QED
  BY <1>1, <1>2, <1>3, <1>4, <1>5, <1>6, <1>7, <1>8, <1>9, <1>10, <1>11, <1>12,
     <1>13, <1>14, <1>15, <1>16
  DEF Next, Worker, Handle

\* An empty queue asks for nothing, and a closed descriptor for no more than an open one.
LEMMA CoveredEmpty ==
    ASSUME NEW fd, NEW l \in Nat, NEW r \in Nat
    PROVE  Covered(<<>>, fd, l, r)
<1>1. [k \in 1..Len(<<>>) |-> 0] \in [1..Len(<<>>) -> 0..r]
  OBVIOUS
<1>2. \A k \in 1..Len(<<>>) : FALSE
  OBVIOUS
<1> QED BY <1>1, <1>2 DEF Covered

LEMMA CoveredClosed ==
    ASSUME NEW q, NEW fd, NEW l \in Nat, NEW r \in Nat, Covered(q, fd, l, r), Len(q) \in Nat
    PROVE  Covered(q, 0, l, r)
<1>1. PICK c \in [1..Len(q) -> 0..r] :
          \A k \in 1..Len(q) :
            (IF k = 1 THEN l ELSE c[k - 1]) + (IF Overwrites(q, fd, k) THEN 1 ELSE 0) <= c[k]
  BY DEF Covered
<1>2. ASSUME NEW k \in 1..Len(q)
      PROVE  (IF k = 1 THEN l ELSE c[k - 1]) + (IF Overwrites(q, 0, k) THEN 1 ELSE 0) <= c[k]
  <2>1. Overwrites(q, 0, k) => Overwrites(q, fd, k)
    BY DEF Overwrites
  <2>2. c[k] \in Nat /\ (k # 1 => c[k - 1] \in Nat)
    BY <1>1
  <2> QED BY <1>1, <2>1, <2>2
<1> QED BY <1>2 DEF Covered

\* The first event is handled: it costs at most what it was charged with, and it
\* leaves a descriptor open only if it is an announcement.
LEMMA CoveredTail ==
    ASSUME NEW q \in Seq({"add", "remove"}), q # <<>>,
           NEW fd, NEW l \in Nat, NEW r \in Nat, Covered(q, fd, l, r),
           NEW fd2, fd2 # 0 => q[1] = "add",
           NEW l2 \in Nat, l2 <= l + (IF q[1] = "add" /\ fd # 0 THEN 1 ELSE 0)
    PROVE  Covered(Tail(q), fd2, l2, r) /\ l2 <= r
<1>1. PICK c \in [1..Len(q) -> 0..r] :
          \A k \in 1..Len(q) :
            (IF k = 1 THEN l ELSE c[k - 1]) + (IF Overwrites(q, fd, k) THEN 1 ELSE 0) <= c[k]
  BY DEF Covered
<1>2. PICK t \in Seq({"add", "remove"}) :
          /\ t = Tail(q) /\ Len(t) = Len(q) - 1
          /\ \A k \in 1..Len(t) : t[k] = q[k + 1]
  <2>1. /\ Tail(q) \in Seq({"add", "remove"}) /\ Len(Tail(q)) = Len(q) - 1
        /\ \A k \in 1..Len(Tail(q)) : Tail(q)[k] = q[k + 1]
    BY HeadTailProperties, Zenon
  <2> QED BY <2>1, Zenon
<1>3. Len(q) \in Nat /\ Len(q) > 0 /\ Len(t) \in Nat
  BY <1>2, EmptySeq, LenProperties
<1>4. l2 <= c[1] /\ c[1] \in 0..r
  <2>1. 1 \in 1..Len(q)
    BY <1>3
  <2>2. l + (IF Overwrites(q, fd, 1) THEN 1 ELSE 0) <= c[1] /\ c[1] \in 0..r
    BY <1>1, <2>1
  <2>3. Overwrites(q, fd, 1) <=> q[1] = "add" /\ fd # 0
    BY DEF Overwrites
  <2> QED BY <2>2, <2>3
<1>5. PICK d : d = [k \in 1..Len(t) |-> c[k + 1]]
  OBVIOUS
<1>6. d \in [1..Len(t) -> 0..r]
  <2>1. ASSUME NEW k \in 1..Len(t) PROVE c[k + 1] \in 0..r
    <3>1. k + 1 \in 1..Len(q)
      BY <1>2, <1>3
    <3> QED BY <1>1, <3>1
  <2> QED BY <1>5, <2>1
<1>7. ASSUME NEW k \in 1..Len(t)
      PROVE  (IF k = 1 THEN l2 ELSE d[k - 1]) + (IF Overwrites(t, fd2, k) THEN 1 ELSE 0) <= d[k]
  <2>1. k + 1 \in 1..Len(q) /\ k \in 1..Len(q) /\ k + 1 # 1 /\ k + 1 - 1 = k /\ k \in Nat
    BY <1>2, <1>3
  <2>2. c[k] + (IF Overwrites(q, fd, k + 1) THEN 1 ELSE 0) <= c[k + 1]
    BY <1>1, <2>1
  <2>3. c[k] \in 0..r /\ c[k + 1] \in 0..r
    BY <1>1, <2>1
  <2>4. Overwrites(t, fd2, k) => Overwrites(q, fd, k + 1)
    <3>1. Overwrites(q, fd, k + 1) <=> q[k + 1] = "add" /\ q[k] = "add"
      BY <2>1 DEF Overwrites
    <3>2. t[k] = q[k + 1]
      BY <1>2
    <3>3. CASE k = 1
      BY <3>1, <3>2, <3>3 DEF Overwrites
    <3>4. CASE k # 1
      <4>1. k - 1 \in 1..Len(t) /\ k - 1 + 1 = k
        BY <1>3, <2>1, <3>4
      <4>2. t[k - 1] = q[k]
        BY <1>2, <4>1
      <4> QED BY <3>1, <3>2, <3>4, <4>2 DEF Overwrites
    <3> QED BY <3>3, <3>4
  <2>5. d[k] = c[k + 1]
    BY <1>5
  <2>6. CASE k = 1
    BY <1>4, <2>2, <2>3, <2>4, <2>5, <2>6
  <2>7. CASE k # 1
    <3>1. k - 1 \in 1..Len(t) /\ k - 1 + 1 = k
      BY <1>3, <2>1, <2>7
    <3>2. d[k - 1] = c[k]
      BY <1>5, <3>1
    <3> QED BY <2>2, <2>3, <2>4, <2>5, <2>7, <3>2
  <2> QED BY <2>6, <2>7
<1>8. Covered(t, fd2, l2, r)
  BY <1>6, <1>7 DEF Covered
<1> QED BY <1>2, <1>4, <1>8

\* An event is queued after r2 repetitions, one more than before if it may overwrite.
LEMMA CoveredAppend ==
    ASSUME NEW q \in Seq({"add", "remove"}), NEW a \in {"add", "remove"},
           NEW fd, NEW l \in Nat, NEW r \in Nat, l <= r, Covered(q, fd, l, r),
           NEW r2 \in Nat, r <= r2,
           r2 = r => \/ a = "remove"
                     \/ q = <<>> /\ fd = 0
                     \/ q # <<>> /\ q[Len(q)] = "remove"
    PROVE  Covered(Append(q, a), fd, l, r2)
<1>1. PICK c \in [1..Len(q) -> 0..r] :
          \A k \in 1..Len(q) :
            (IF k = 1 THEN l ELSE c[k - 1]) + (IF Overwrites(q, fd, k) THEN 1 ELSE 0) <= c[k]
  BY DEF Covered
<1>2. PICK t \in Seq({"add", "remove"}) :
          /\ t = Append(q, a) /\ Len(t) = Len(q) + 1 /\ t[Len(q) + 1] = a
          /\ \A k \in 1..Len(q) : t[k] = q[k]
  <2>1. /\ Append(q, a) \in Seq({"add", "remove"})
        /\ Len(Append(q, a)) = Len(q) + 1 /\ Append(q, a)[Len(q) + 1] = a
        /\ \A k \in 1..Len(q) : Append(q, a)[k] = q[k]
    BY AppendProperties
  <2> QED BY <2>1
<1>3. Len(q) \in Nat /\ (q = <<>> <=> Len(q) = 0)
  BY EmptySeq, LenProperties
<1>4. PICK d : d = [k \in 1..Len(t) |-> IF k = Len(t) THEN r2 ELSE c[k]]
  OBVIOUS
<1>5. \A k \in 1..Len(q) : c[k] \in 0..r /\ d[k] = c[k] /\ k \in 1..Len(t)
  BY <1>1, <1>2, <1>3, <1>4
<1>6. d[Len(t)] = r2 /\ Len(t) \in 1..Len(t)
  BY <1>2, <1>3, <1>4
<1>7. \A k \in 1..Len(t) : k \in 1..Len(q) \/ k = Len(t)
  BY <1>2, <1>3
<1>8. d \in [1..Len(t) -> 0..r2]
  <2>1. \A k \in 1..Len(t) : d[k] \in 0..r2
    BY <1>5, <1>6, <1>7
  <2> QED BY <1>4, <2>1
<1>9. ASSUME NEW k \in 1..Len(t)
      PROVE  (IF k = 1 THEN l ELSE d[k - 1]) + (IF Overwrites(t, fd, k) THEN 1 ELSE 0) <= d[k]
  <2>1. ASSUME k # 1 PROVE k - 1 \in 1..Len(q)
    BY <1>2, <1>3, <2>1
  <2>2. CASE k \in 1..Len(q)
    <3>1. Overwrites(t, fd, k) <=> Overwrites(q, fd, k)
      BY <1>2, <2>1, <2>2 DEF Overwrites
    <3>2. k # 1 => d[k - 1] = c[k - 1]
      BY <1>5, <2>1
    <3>3. (IF k = 1 THEN l ELSE c[k - 1]) + (IF Overwrites(q, fd, k) THEN 1 ELSE 0) <= c[k]
      BY <1>1, <2>2
    <3>4. d[k] = c[k]
      BY <1>5, <2>2
    <3> QED BY <3>1, <3>2, <3>3, <3>4
  <2>3. CASE k = Len(t)
    <3>1. PICK p : p = IF k = 1 THEN l ELSE d[k - 1]
      OBVIOUS
    <3>2. p \in Nat /\ p <= r
      BY <1>5, <2>1, <3>1
    <3>3. ASSUME r2 = r PROVE ~Overwrites(t, fd, k)
      <4>1. t[k] = a
        BY <1>2, <2>3
      <4>2. CASE a = "remove"
        BY <4>1, <4>2 DEF Overwrites
      <4>3. CASE q = <<>> /\ fd = 0
        BY <1>2, <1>3, <2>3, <4>3 DEF Overwrites
      <4>4. CASE q # <<>> /\ q[Len(q)] = "remove"
        <5>1. k # 1 /\ k - 1 = Len(q) /\ Len(q) \in 1..Len(q)
          BY <1>2, <1>3, <2>3, <4>4
        <5>2. t[k - 1] = "remove"
          BY <1>2, <4>4, <5>1
        <5> QED BY <5>1, <5>2 DEF Overwrites
      <4> QED BY <3>3, <4>2, <4>3, <4>4
    <3>4. d[k] = r2
      BY <1>6, <2>3
    <3>5. p + (IF Overwrites(t, fd, k) THEN 1 ELSE 0) <= r2
      BY <3>2, <3>3
    <3> QED BY <3>1, <3>4, <3>5
  <2> QED BY <1>7, <2>2, <2>3
<1>10. Covered(t, fd, l, r2)
  BY <1>8, <1>9 DEF Covered
<1> QED BY <1>2, <1>10

\* Every descriptor that is lost is paid for by a repetition.
LEMMA LeakStep ==
    ASSUME UsbTypeOK, Streams, LifeInv, LeakInv, [Next]_vars
    PROVE  LeakInv'
<1> USE DEF object, thread, monitor, pty, device, history
<1>1. leaked \in Nat /\ retriggers \in Nat /\ Len(udevQ) \in Nat /\ udevQ \in Seq({"add", "remove"})
  BY LenProperties DEF UsbTypeOK, Streams
<1>2. leaked <= retriggers /\ Covered(udevQ, phys_fd, leaked, retriggers)
  BY DEF LeakInv
<1>3. ASSUME UNCHANGED <<udevQ, leaked, retriggers>>, phys_fd' \in {phys_fd, 0}
      PROVE  LeakInv'
  <2>1. Covered(udevQ, 0, leaked, retriggers)
    BY <1>1, <1>2, CoveredClosed
  <2> QED BY <1>2, <1>3, <2>1 DEF LeakInv
<1>4. CASE CloseEnd
  <2>1. udevQ' = <<>> /\ leaked' = leaked /\ retriggers' = retriggers
    BY <1>4 DEF CloseEnd
  <2>2. Covered(<<>>, phys_fd', leaked, retriggers)
    BY <1>1, CoveredEmpty
  <2> QED BY <1>2, <2>1, <2>2 DEF LeakInv
<1>5. ASSUME udevQ # <<>>, udevQ' = Tail(udevQ), retriggers' = retriggers,
             phys_fd' # 0 => Head(udevQ) = "add", leaked' \in Nat,
             leaked' <= leaked + (IF Head(udevQ) = "add" /\ phys_fd # 0 THEN 1 ELSE 0)
      PROVE  LeakInv'
  <2>1. Head(udevQ) = udevQ[1]
    BY <1>5, TakeEvent
  <2>2. PICK fd2, l2 : fd2 = phys_fd' /\ l2 = leaked'
    OBVIOUS
  <2>3. /\ fd2 # 0 => udevQ[1] = "add"
        /\ l2 \in Nat /\ l2 <= leaked + (IF udevQ[1] = "add" /\ phys_fd # 0 THEN 1 ELSE 0)
    BY <1>5, <2>1, <2>2
  <2>4. Covered(Tail(udevQ), fd2, l2, retriggers) /\ l2 <= retriggers
    BY <1>1, <1>2, <1>5, <2>3, CoveredTail
  <2> QED BY <1>5, <2>2, <2>4 DEF LeakInv
<1>6. CASE HandleRemove
  BY <1>1, <1>5, <1>6 DEF HandleRemove
<1>7. CASE HandleAdd
  BY <1>1, <1>5, <1>7 DEF HandleAdd
<1>8. CASE Handle /\ ~HandleRemove /\ ~HandleAdd
  BY <1>3, <1>8 DEF Handle, HandlePty, HandlePhys
<1>9. CASE Write
  BY <1>3, <1>9 DEF Write, WritePhys, WritePhysFails, WritePty, WritePtyFails
<1>10. CASE Start \/ Top \/ PollNothing \/ Poll
  BY <1>3, <1>10 DEF Start, Top, PollNothing, Poll
<1>11. CASE Open \/ OpenFails \/ CloseBegin \/ UNCHANGED vars
  BY <1>3, <1>11 DEF Open, OpenFails, CloseBegin, vars
<1>12. ASSUME NEW s \in {"framer", "held", "closed"}, SlaveTo(s) PROVE LeakInv'
  BY <1>3, <1>12 DEF SlaveTo
<1>13. CASE FramerReads \/ FramerWrites \/ DeviceSends \/ DeviceReads
  BY <1>3, <1>13 DEF FramerReads, FramerWrites, DeviceSends, DeviceReads
<1>14. CASE Unplug
  <2>1. UNCHANGED <<phys_fd, leaked, retriggers>> /\ Announce("remove")
    BY <1>14 DEF Unplug
  <2>2. Covered(Append(udevQ, "remove"), phys_fd, leaked, retriggers)
    BY <1>1, <1>2, CoveredAppend
  <2>3. udevQ' = udevQ \/ udevQ' = Append(udevQ, "remove")
    BY <2>1 DEF Announce
  <2> QED BY <1>2, <2>1, <2>2, <2>3 DEF LeakInv
<1>15. CASE Plug
  <2>1. UNCHANGED <<phys_fd, leaked, retriggers>> /\ Announce("add") /\ plugged = 0
    BY <1>15 DEF Plug
  <2>2. \/ udevQ = <<>> /\ phys_fd = 0
        \/ udevQ # <<>> /\ udevQ[Len(udevQ)] = "remove"
    BY <2>1 DEF LifeInv
  <2>3. Covered(Append(udevQ, "add"), phys_fd, leaked, retriggers)
    BY <1>1, <1>2, <2>2, CoveredAppend
  <2>4. udevQ' = udevQ \/ udevQ' = Append(udevQ, "add")
    BY <2>1 DEF Announce
  <2> QED BY <1>2, <2>1, <2>3, <2>4 DEF LeakInv
<1>16. CASE Retrigger
  <2>1. /\ UNCHANGED <<phys_fd, leaked>> /\ udevQ' = Append(udevQ, "add")
        /\ retriggers' = retriggers + 1
    BY <1>16 DEF Retrigger, Announce
  <2>2. PICK r2 \in Nat : r2 = retriggers + 1 /\ retriggers <= r2 /\ r2 # retriggers /\ leaked <= r2
    BY <1>1, <1>2
  <2>3. Covered(Append(udevQ, "add"), phys_fd, leaked, r2)
    BY <1>1, <1>2, <2>2, CoveredAppend
  <2> QED BY <2>1, <2>2, <2>3 DEF LeakInv
<1> QED
  BY <1>4, <1>6, <1>7, <1>8, <1>9, <1>10, <1>11, <1>12, <1>13, <1>14, <1>15, <1>16
  DEF Next, Worker

-----------------------------------------------------------------------------
(* The theorems.                                                           *)

\* The inductive invariant, for every interleaving of close(), the worker, udev, the
\* device and the framer.
THEOREM UsbInvariant == Spec => []UsbInv
<1>1. Init => UsbInv
  <2> SUFFICES ASSUME Init PROVE UsbInv
    OBVIOUS
  <2>1. LeakInv
    <3>1. leaked = 0 /\ retriggers = 0 /\ udevQ = <<>>
      BY DEF Init
    <3>2. Covered(<<>>, phys_fd, 0, 0)
      BY CoveredEmpty
    <3> QED BY <3>1, <3>2 DEF LeakInv
  <2> QED BY <2>1, TypeInit, FlowInit, LifeInit DEF UsbInv
<1>2. UsbInv /\ [Next]_vars => UsbInv'
  BY StreamsStep, TypeStep, FlowStep, LifeStep, LeakStep DEF UsbInv
<1> QED BY <1>1, <1>2, PTL DEF Spec

\* Types, and that buf is in use exactly in the write loops and no buffer is written
\* beyond its capacity.
THEOREM UsbTypeCorrect == Spec => []UsbTypeOK
<1>1. UsbInv => UsbTypeOK
  BY DEF UsbInv
<1> QED BY <1>1, UsbInvariant, PTL

\* Either end gets the bytes in the order the other sent them, across partial
\* writes, unplugged devices, failed writes and a closed slave.
THEOREM UsbInOrder == Spec => []InOrderBothWays
<1>1. UsbInv => InOrderBothWays
  BY DEF UsbInv, FlowInv, Numbered, Line, Carried, InOrderBothWays
<1> QED BY <1>1, UsbInvariant, PTL

\* After close() nothing is open, and threadMain() has overwritten at most one
\* descriptor for each repeated announcement.
THEOREM UsbLeaks == Spec => []LeaksOnlyRepeated
<1>1. UsbInv => LeaksOnlyRepeated
  BY DEF UsbInv, LifeInv, LeakInv, LeaksOnlyRepeated
<1> QED BY <1>1, UsbInvariant, PTL
=============================================================================
