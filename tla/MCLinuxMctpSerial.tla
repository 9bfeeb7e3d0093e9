------------------------- MODULE MCLinuxMctpSerial -------------------------
(* LinuxMctpSerial for TLC.                                                *)
EXTENDS LinuxMctpSerial, TLC

AllFaults == Procs \X {"pty", "ldisc", "rename", "netlink", "framer"}

OnePeer == <<"route">>

\* Processes differ in nothing but their names.
ProcSymmetry == Permutations(Procs)
=============================================================================
