---------------------------- MODULE MCUsbReplug ----------------------------
(***************************************************************************)
(* UsbReplug for TLC, with the real FCS.  Neither message has a flag among *)
(* its FCS bytes.                                                          *)
(***************************************************************************)
EXTENDS UsbReplug, MctpCodec

Stuffed == <<1, 126, 125, 8, 94>>
Plain == <<1, 9, 8, 200, 1, 5>>

MCMessages == {Stuffed, Plain}

\* FrameFcs, with the values for the messages worked out once.
Heads == {<<1, Len(m)>> \o m : m \in MCMessages}
FcsOfHead == [s \in Heads |-> FrameFcs(s)]
MCFcs(s) == IF s \in Heads THEN FcsOfHead[s] ELSE FrameFcs(s)
=============================================================================
