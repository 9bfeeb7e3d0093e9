--------------------------- MODULE MCManagedUsbTty ---------------------------
(* ManagedUsbTty for TLC.  The open of a device node that is there succeeds: *)
(* threadMain() does not try it again.                                       *)
EXTENDS ManagedUsbTty

SomeFaults == {"pty", "udev", "epoll"}
=============================================================================
