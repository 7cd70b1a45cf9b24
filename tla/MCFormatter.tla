---------------------------- MODULE MCFormatter ----------------------------
(***************************************************************************)
(* Formatter instantiated for TLC: every document of depth at most two    *)
(* whose containers hold at most two children (member names "a", "b"),   *)
(* scalars all null (the formatter writes every scalar the same way),     *)
(* with each option absent or present.                                    *)
(***************************************************************************)
EXTENDS Formatter

RECURSIVE Shapes(_)
Shapes(d) ==
  IF d = 0 THEN {NullV}
  ELSE LET kids == BoundedSeq(Shapes(d - 1), 2)
       IN  {NullV} \cup {ArrV(s) : s \in kids}
           \cup {ObjV(SubSeq(<<"a", "b">>, 1, Len(s)), s) : s \in kids}

MCDocs == Shapes(2)
=============================================================================
