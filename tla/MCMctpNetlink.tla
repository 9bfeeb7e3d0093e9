--------------------------- MODULE MCMctpNetlink ---------------------------
(* MctpNetlink for TLC.                                                    *)
EXTENDS MctpNetlink

AllFaults == {"socket", "send", "recv", "refuse"}
=============================================================================
