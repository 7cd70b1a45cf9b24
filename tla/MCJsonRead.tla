----------------------------- MODULE MCJsonRead -----------------------------
(***************************************************************************)
(* The read commands over the state space of MCRedisJSON: every dataset  *)
(* the write commands reach with its arguments is read back.              *)
(***************************************************************************)
EXTENDS JsonRead, MCRedisJSON
=============================================================================
