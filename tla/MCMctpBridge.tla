---------------------------- MODULE MCMctpBridge ----------------------------
(* MctpBridge for TLC.                                                     *)
EXTENDS MctpBridge

MCFds == 3..4
MCClientMsgs == {"bcast", "uni", "one", "empty"}
=============================================================================
