----------------------------- MODULE UsbReplug -----------------------------
(***************************************************************************)
(* A USB serial device that is pulled out and put back while it sends, as  *)
(* the receiving framer of the bridge sees it.  ManagedUsbTty keeps the    *)
(* pseudo-terminal between itself and the framer open all the while: the   *)
(* framer is neither closed nor told, it just sees the bytes of a frame    *)
(* stop somewhere and, later, the first bytes of a new one.                *)
(*                                                                         *)
(* The device sends for ever, so no history is kept: `sent' is the message *)
(* it is sending, rcvd the last packet received since the device came      *)
(* back.                                                                   *)
(***************************************************************************)
EXTENDS MctpSerialLink

VARIABLE plug    \* "in", "out", "back"

replugVars == <<linkVars, plug>>

ReplugInit == LinkInit /\ plug = "in"

DeviceSends(m) ==
    /\ plug # "out" /\ ~Sending
    /\ sent' = <<m>> /\ tx' = StartOf(1)
    /\ UNCHANGED <<rxVars, pipe, wire, rcvd, faults, plug>>

DeviceWrites == plug # "out" /\ WriteByte /\ UNCHANGED plug

\* What had reached the pseudo-terminal is still read, the rest is lost, and so is
\* the rest of the frame the device was sending.
Unplug ==
    /\ plug = "in" /\ plug' = "out"
    /\ \E k \in 0..Len(wire) : wire' = SubSeq(wire, 1, k)
    /\ tx' = StartOf(Len(sent) + 1)
    /\ UNCHANGED <<rxVars, pipe, sent, rcvd, faults>>

Replug ==
    /\ plug = "out" /\ plug' = "back"
    /\ UNCHANGED linkVars

FramerReads == ReadByte /\ UNCHANGED plug

BridgeReceives ==
    /\ receive
    /\ rcvd' = IF plug = "back" THEN <<Head(pipe)>> ELSE rcvd
    /\ UNCHANGED <<sent, tx, wire, faults, plug>>

ReplugNext ==
    \/ \E m \in Messages : DeviceSends(m)
    \/ DeviceWrites
    \/ Unplug
    \/ Replug
    \/ FramerReads
    \/ BridgeReceives

\* The device keeps sending while it is plugged in, both framer threads run, and a
\* device that is pulled out is put back; it need not be pulled out.
ReplugSpec ==
    /\ ReplugInit /\ [][ReplugNext]_replugVars
    /\ WF_replugVars(\E m \in Messages : DeviceSends(m))
    /\ WF_replugVars(DeviceWrites)
    /\ WF_replugVars(FramerReads)
    /\ WF_replugVars(BridgeReceives)
    /\ WF_replugVars(Replug)

-----------------------------------------------------------------------------
(* Properties.                                                             *)

\* "ability to recover when a ttyUSB device is removed and reinserted"
\* (mctp-bridge/README.md:27): a device that is back and keeps sending is heard.
Recovers == plug = "back" ~> rcvd # <<>>
=============================================================================
