--------------------------- MODULE MCControlOnce ---------------------------
(***************************************************************************)
(* A small instance of ControlOnce for TLC: a camera record (two messages, *)
(* the second not tried after a refused first) and a stop (one message).   *)
(***************************************************************************)
EXTENDS ControlOnce

CONSTANTS record, stop

MCMessages == [id \in Ids |-> IF id = record THEN 2 ELSE 1]
=============================================================================
