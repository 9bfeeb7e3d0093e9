-------------------------- MODULE MCBridgeProcess --------------------------
(* BridgeProcess for TLC.                                                  *)
EXTENDS BridgeProcess

CONSTANT Faulty   \* the processes for which any call may fail

SomeFaults == Faulty \X {"pty", "ldisc", "framer", "socket", "device"}

NoPeer == <<>>
=============================================================================
