--------------------------- MODULE MCMessengerApi ---------------------------
(* MessengerApi for TLC.                                                   *)
EXTENDS MessengerApi

MCFds == 3..5
MCClientMsgs == {[dest |-> "bcast"], [dest |-> "empty"]}
MCServerMsgs == {[dest |-> "bcast"]}
=============================================================================
