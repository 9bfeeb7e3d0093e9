--------------------------- MODULE PacketChannel ---------------------------
(***************************************************************************)
(* What a pair of framers promises for as long as the serial line between  *)
(* them is intact: packets arrive in the order they were sent, each at     *)
(* most once and unchanged, and a packet is discarded for one of two       *)
(* reasons only: it is shorter than the framer accepts, or the receiver's  *)
(* pipe is full when it arrives.  Once the line has been damaged nothing   *)
(* is promised here.  MctpSerialLink implements this specification.        *)
(***************************************************************************)
EXTENDS Integers, Sequences

CONSTANTS Packets, MinLen, Cap

VARIABLES
    inflight,   \* sent, not yet arrived
    queue,      \* arrived, not yet received
    got,        \* everything received
    intact      \* whether every byte sent so far has arrived

chanVars == <<inflight, queue, got, intact>>

Init == inflight = <<>> /\ queue = <<>> /\ got = <<>> /\ intact = TRUE

Send(m) ==
    /\ inflight' = Append(inflight, m)
    /\ UNCHANGED <<queue, got>>

Accepts(m) == Len(m) >= MinLen /\ Len(queue) < Cap

Arrive ==
    /\ inflight # <<>>
    /\ Accepts(Head(inflight))
    /\ inflight' = Tail(inflight)
    /\ queue' = Append(queue, Head(inflight))
    /\ UNCHANGED got

Discard ==
    /\ inflight # <<>>
    /\ ~Accepts(Head(inflight))
    /\ inflight' = Tail(inflight)
    /\ UNCHANGED <<queue, got>>

Receive ==
    /\ queue # <<>>
    /\ queue' = Tail(queue)
    /\ got' = Append(got, Head(queue))
    /\ UNCHANGED inflight

Kept == intact /\ intact' = TRUE

Damage == intact' = FALSE

Next ==
    \/ Kept /\ ((\E m \in Packets : Send(m)) \/ Arrive \/ Discard \/ Receive)
    \/ Damage

Spec == Init /\ [][Next]_chanVars

\* While the line is intact what is in flight arrives, and what waits is fetched.
FairSpec ==
    /\ Spec
    /\ WF_chanVars(Kept /\ (Arrive \/ Discard))
    /\ WF_chanVars(Kept /\ Receive)
=============================================================================
