----------------------------- MODULE JsonPath ------------------------------
(***************************************************************************)
(* Paths: the legacy-path rewrite of lib.rs (backwards_compat_path), the   *)
(* compilation of a $-anchored path into selectors and the resolution of  *)
(* selectors against a tree to the first matching location.               *)
(*                                                                         *)
(* A raw path is a sequence of lexical tokens rather than of characters:  *)
(*   "$"  the root anchor          "."  the member separator               *)
(*   a member name                 "[0]" an index selector                 *)
(* so that the rewrite, which tests and inserts only "$" and ".", is      *)
(* modelled by what it does: `.a` is <<".", "a">>, `a[0]` is              *)
(* <<"a", "[0]">>, `$.a` is <<"$", ".", "a">>.                             *)
(***************************************************************************)
EXTENDS Integers, Sequences, JsonValue

Root == <<"$">>

\* The index tokens and the array index each selects.
IndexTokens == [t \in {"[0]", "[1]"} |-> IF t = "[0]" THEN 0 ELSE 1]

\* Sentinels of the same shape as the results they stand beside.
ParseError == <<[sel |-> "error", name |-> "", i |-> 0]>>
NotFound   == <<0>>

(***************************************************************************)
(* lib.rs backwards_compat_path: a path not starting with '$' is a RedisJSON *)
(* 1.x path.  "." becomes "$", ".x" becomes "$.x", "x" becomes "$.x".      *)
(***************************************************************************)
backwards_compat_path(path) ==
  IF path # <<>> /\ Head(path) = "$" THEN path
  ELSE IF path = <<".">> THEN Root
  ELSE IF path # <<>> /\ Head(path) = "." THEN <<"$">> \o path
  ELSE <<"$", ".">> \o path

(***************************************************************************)
(* Compilation: "$" followed by any number of ".name" and "[i]" steps.    *)
(* A selector is a record [sel |-> "member" | "index", name, i].           *)
(***************************************************************************)
RECURSIVE CompileSteps(_)
CompileSteps(toks) ==
  IF toks = <<>> THEN <<>>
  ELSE IF Head(toks) \in DOMAIN IndexTokens
       THEN LET rest == CompileSteps(Tail(toks))
            IN  IF rest = ParseError THEN ParseError
                ELSE <<[sel |-> "index", name |-> "", i |-> IndexTokens[Head(toks)]]>> \o rest
  ELSE IF Head(toks) = "." /\ Len(toks) >= 2
          /\ Head(Tail(toks)) \notin {"$", "."} \cup DOMAIN IndexTokens
       THEN LET rest == CompileSteps(Tail(Tail(toks)))
            IN  IF rest = ParseError THEN ParseError
                ELSE <<[sel |-> "member", name |-> Head(Tail(toks)), i |-> 0]>> \o rest
  ELSE ParseError

Compile(path) ==
  IF path # <<>> /\ Head(path) = "$" THEN CompileSteps(Tail(path)) ELSE ParseError

(***************************************************************************)
(* The first location the selectors resolve to in v, or NotFound.  A      *)
(* member selector matches an object member, an index selector an array   *)
(* element; anything else matches nothing.                                 *)
(***************************************************************************)
RECURSIVE Locate(_, _)
Locate(v, sels) ==
  IF sels = <<>> THEN <<>>
  ELSE LET s   == Head(sels)
           pos == IF s.sel = "member"
                  THEN IF v.t = "object" THEN MemberPos(v, s.name) ELSE 0
                  ELSE IF v.t = "array" /\ s.i < Len(v.e) THEN s.i + 1 ELSE 0
       IN  IF pos = 0 THEN NotFound
           ELSE LET rest == Locate(v.e[pos], Tail(sels))
                IN  IF rest = NotFound THEN NotFound ELSE <<pos>> \o rest
=============================================================================
