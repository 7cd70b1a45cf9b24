---------------------------- MODULE MCRedisJSON ----------------------------
(***************************************************************************)
(* RedisJSON instantiated for TLC: one key, one member name, i64 three     *)
(* bits wide (-4..3), floats finite up to magnitude 4, arrays of at most   *)
(* two elements.  The arguments cover every branch of backwards_compat_path *)
(* and of each transform: the root ("."), a member (".a"), a legacy index  *)
(* path ("a[0]"), a malformed path ("$a"), JSON texts of every kind and    *)
(* malformed ones, indices on both sides of zero.                          *)
(***************************************************************************)
EXTENDS RedisJSON

MCPathArgs == {<<".">>, <<".", "a">>, <<"a", "[0]">>, <<"$", "a">>}
MCSetArgs  == {NullV, IntV(1), FloatV(1), BoolV(TRUE), StrV(1), ArrV(<<>>),
               ObjV(<<>>, <<>>), ObjV(<<"a">>, <<ArrV(<<>>)>>), Malformed}
MCNumArgs  == {IntV(2), IntV(-1), FloatV(2), StrV(1), Malformed}
MCStrArgs  == {StrV(1), Malformed}
MCItemArgs == {<<IntV(1)>>, <<ArrV(<<>>)>>, <<IntV(1), Malformed>>}
MCIndexArgs == {-1, 0, 1}

\* With integers above i64::MAX (u64 to serde_json), as JSON texts and as
\* operands; i64 is 3 bits wide, so 4 is i64::MAX + 1.
MCU64SetArgs == MCSetArgs \cup {IntV(I64Max + 1)}
MCU64NumArgs == MCNumArgs \cup {IntV(I64Max + 1)}
=============================================================================
