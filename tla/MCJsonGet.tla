------------------------------ MODULE MCJsonGet -----------------------------
(***************************************************************************)
(* JsonGet instantiated for TLC: every list of at most three arguments     *)
(* drawn from the five subcommands, "JSON", a short path (".a", 2 bytes)   *)
(* and a long one ("$.abcdefgh", 10 bytes).  A subcommand spelled in      *)
(* lower case is the same argument: the comparison ignores case.           *)
(***************************************************************************)
EXTENDS JsonGet

Arg(w, n) == [word |-> w, len |-> n]

MCArgs ==
  {Arg(w, CmdLen[w]) : w \in DOMAIN CmdLen} \cup
  {Arg("JSON", 4), Arg("other", 2), Arg("other", 10)}

MCArgLists == BoundedSeq(MCArgs, 3)
=============================================================================
