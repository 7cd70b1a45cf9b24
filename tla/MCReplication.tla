--------------------------- MODULE MCReplication ---------------------------
(***************************************************************************)
(* Replication instantiated for TLC: one key; the root path only; a      *)
(* document that is an integer or an empty array; indices -1 and 0, so    *)
(* that ARRTRIM can panic and the primary restarts from its RDB file; a   *)
(* replica buffer of one command (MaxLag = 1), so that it overflows.  A   *)
(* member path and an object document as well make the run take minutes  *)
(* with coverage; MCRedisJSON checks member paths on one server.          *)
(***************************************************************************)
EXTENDS Replication

MCReplPathArgs  == {<<".">>}
MCReplSetArgs   == {IntV(1), ArrV(<<>>)}
MCReplNumArgs   == {IntV(1)}
MCReplStrArgs   == {StrV(1)}
MCReplItemArgs  == {<<IntV(1)>>}
MCReplIndexArgs == {-1, 0}
=============================================================================
