-------------------------- MODULE MCMctpSerialLink --------------------------
(***************************************************************************)
(* MctpSerialLink for TLC, with the real FCS.  The payloads hold a flag,   *)
(* an escape and the two bytes an escape turns them into; one has a flag   *)
(* as a byte of its FCS, one is shorter than the receiver accepts, one is  *)
(* empty.                                                                  *)
(***************************************************************************)
EXTENDS MctpSerialLink, MctpCodec

Stuffed == <<1, 126, 125, 8, 94>>
FlagInFcs == <<1, 255, 8, 200, 99>>
Short == <<125, 93, 126, 94>>

\* FrameFcs, with the values for these messages worked out once.
Heads == {<<1, Len(m)>> \o m : m \in {Stuffed, FlagInFcs, Short, <<>>}}
FcsOfHead == [s \in Heads |-> FrameFcs(s)]
MCFcs(s) == IF s \in Heads THEN FcsOfHead[s] ELSE FrameFcs(s)

MCMessages == {Stuffed, FlagInFcs, Short, <<>>}

\* The FCS is the CRC it is meant to be: from every register value, a step of
\* calcFcs() with its table does what eight shifts of the polynomial do.  A byte only
\* enters into the register by exclusive or, so 0 stands for every byte.  This is about
\* the table and not about the line: it is evaluated once, before anything is sent.
FcsIsCrc == sent = <<>> => \A v \in 0..65535 : FcsStep(v, 0) = RefStep(v, 0)

\* One wrong byte, wherever it is in a frame of any length, changes the FCS that
\* validateRx() compares: no two register values have the same successor, so two
\* that differ after the wrong byte still differ at the end.  Evaluated once, too.
WrongByteDetected == sent = <<>> => Cardinality({FcsStep(v, 0) : v \in 0..65535}) = 65536
=============================================================================
