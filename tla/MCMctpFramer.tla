---------------------------- MODULE MCMctpFramer ----------------------------
(***************************************************************************)
(* MctpFramer for TLC.  Every branch of every state of the receiver has a  *)
(* byte that takes it: a wrong flag, a length byte of 5, 126 and 0, raw    *)
(* and escaped payload, a broken escape, a right and a wrong FCS.  The     *)
(* stand-in FCS accepts one packet, so that the pipe stays small.          *)
(***************************************************************************)
EXTENDS MctpFramer

MCInputs(s) ==
    CASE s \in {"WAITING_FOR_SYNC", "END"} -> {FRAME_CHAR, 7}
      [] s = "HEADER1" -> {1}
      [] s = "HEADER2" -> {0, 5, FRAME_CHAR}
      [] s = "BODY" -> {FRAME_CHAR, ESCAPE_CHAR, 7}
      [] s = "ESCAPE" -> {FRAME_CHAR, 94, 7}
      [] s = "FCS1" -> {7}
      [] s = "FCS2" -> {7, 8}

MCFcs(s) == IF s = <<1, 5, 7, 7, 126, 7, 7>> THEN 7 * 256 + 7 ELSE 0

MCFaults == {"socketpair", "pipe", "serial", "termios", "dup", "epoll", "epoll_ctl"}
=============================================================================
