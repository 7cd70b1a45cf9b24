----------------------------- MODULE JsonValue -----------------------------
(***************************************************************************)
(* The in-memory JSON tree (serde_json::Value as RedisJSON uses it) and   *)
(* the location operations the engine performs on it.                     *)
(*                                                                         *)
(* Every value is a record of one shape, so that TLC can compare any two: *)
(*   t    the kind, named as RedisJSON::value_name names it                *)
(*   n    the scalar payload: 0/1 for a boolean, the number for an         *)
(*        integer or a float, the length for a string                      *)
(*   keys the member names of an object, in insertion order                *)
(*   e    the elements of an array, or the member values of an object      *)
(* String contents are abstracted to their length: no property here tells *)
(* two strings of the same length apart.  A float is an integer magnitude *)
(* standing for a finite f64; RedisJSON decides when it is finite.         *)
(*                                                                         *)
(* A location is a sequence of positions (1-based) into e, from the root. *)
(***************************************************************************)
EXTENDS Integers, Sequences, SequencesExt

Kinds == {"null", "boolean", "integer", "number", "string", "array", "object"}

Mk(t, n, keys, e) == [t |-> t, n |-> n, keys |-> keys, e |-> e]

NullV        == Mk("null", 0, <<>>, <<>>)
BoolV(b)     == Mk("boolean", IF b THEN 1 ELSE 0, <<>>, <<>>)
IntV(i)      == Mk("integer", i, <<>>, <<>>)
FloatV(f)    == Mk("number", f, <<>>, <<>>)
StrV(len)    == Mk("string", len, <<>>, <<>>)
ArrV(s)      == Mk("array", 0, <<>>, s)
ObjV(ks, vs) == Mk("object", 0, ks, vs)

\* Not a JSON value: the "no element" result of a pop on an empty array.
NoValue == Mk("none", 0, <<>>, <<>>)

IsNumber(v) == v.t \in {"integer", "number"}

(***************************************************************************)
(* A value of depth at most d, object keys unique (the Value Model's      *)
(* invariant).                                                             *)
(***************************************************************************)
RECURSIVE IsValue(_, _)
IsValue(v, d) ==
  /\ v.t \in Kinds
  /\ v.n \in Int
  /\ v.t \in {"array", "object"} \/ (v.keys = <<>> /\ v.e = <<>>)
  /\ v.t = "array" => v.keys = <<>>
  /\ v.t = "object" => /\ Len(v.keys) = Len(v.e)
                       /\ \A i, j \in 1..Len(v.keys) : v.keys[i] = v.keys[j] => i = j
  /\ v.e # <<>> => d > 0 /\ \A i \in 1..Len(v.e) : IsValue(v.e[i], d - 1)

(***************************************************************************)
(* Reading, replacing and removing the value at a location.               *)
(***************************************************************************)
RECURSIVE ValueAt(_, _)
ValueAt(v, loc) ==
  IF loc = <<>> THEN v ELSE ValueAt(v.e[Head(loc)], Tail(loc))

RECURSIVE PutAt(_, _, _)
PutAt(v, loc, x) ==
  IF loc = <<>> THEN x
  ELSE [v EXCEPT !.e[Head(loc)] = PutAt(v.e[Head(loc)], Tail(loc), x)]

\* Removing a member or an element from the container at Front(loc).
DeleteAt(v, loc) ==
  LET parent == ValueAt(v, Front(loc))
      i      == Last(loc)
      keys   == IF parent.t = "object" THEN RemoveAt(parent.keys, i) ELSE parent.keys
  IN  PutAt(v, Front(loc), [parent EXCEPT !.e = RemoveAt(@, i), !.keys = keys])

\* Position of member `name` in object v, 0 when absent.
MemberPos(v, name) ==
  IF \E i \in 1..Len(v.keys) : v.keys[i] = name
  THEN CHOOSE i \in 1..Len(v.keys) : v.keys[i] = name
  ELSE 0

\* Adding member `name` at the end of object v.
AddMember(v, name, x) ==
  [v EXCEPT !.keys = Append(@, name), !.e = Append(@, x)]

\* Every integer in v lies in lo..hi.
RECURSIVE IntsWithin(_, _, _)
IntsWithin(v, lo, hi) ==
  /\ v.t = "integer" => v.n \in lo..hi
  /\ \A i \in 1..Len(v.e) : IntsWithin(v.e[i], lo, hi)

\* No array in v is longer than maxLen, no string longer than maxStr.
RECURSIVE SizesWithin(_, _, _)
SizesWithin(v, maxLen, maxStr) ==
  /\ v.t = "array" => Len(v.e) <= maxLen
  /\ v.t = "string" => v.n <= maxStr
  /\ \A i \in 1..Len(v.e) : SizesWithin(v.e[i], maxLen, maxStr)
====
