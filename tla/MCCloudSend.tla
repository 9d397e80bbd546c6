----------------------------- MODULE MCCloudSend -----------------------------
(***************************************************************************)
(* Small instances of CloudSend for TLC.                                   *)
(***************************************************************************)
EXTENDS CloudSend

CONSTANTS p1, k1, k2

\* One printer, one or two sends for it.
MCPrinterOf == [k \in Sends |-> p1]
=============================================================================
