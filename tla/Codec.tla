------------------------------- MODULE Codec -------------------------------
(***************************************************************************)
(* The persistence codec of spec 4.5 (redisjson.rs type_methods and       *)
(* backward.rs, which lie outside src/): rdb_save writes a version marker *)
(* and then the document depth-first, each node a type tag and its        *)
(* payload, a container its element or member count and then its         *)
(* children (an object member as its key, then its value); rdb_load reads *)
(* the marker, dispatches on it, and inverts the encoding.                *)
(*                                                                         *)
(* A unit of the stream is a record [tag, n]: the tag of a node with its  *)
(* scalar payload or its count, or a "key" unit carrying a member name.   *)
(* A read past the end of the stream is a short read.                     *)
(***************************************************************************)
EXTENDS Integers, Sequences, SequencesExt, JsonValue

CurrentVersion == 3

Unit(tag, n) == [tag |-> tag, n |-> n]

RECURSIVE EncodeNode(_)
EncodeNode(v) ==
  CASE v.t = "array" ->
         <<Unit("array", Len(v.e))>> \o FlattenSeq([i \in 1..Len(v.e) |-> EncodeNode(v.e[i])])
    [] v.t = "object" ->
         <<Unit("object", Len(v.e))>>
         \o FlattenSeq([i \in 1..Len(v.e) |-> <<Unit("key", v.keys[i])>> \o EncodeNode(v.e[i])])
    [] OTHER -> <<Unit(v.t, v.n)>>

\* rdb_save: always the current version.
Encode(v) == <<Unit("version", CurrentVersion)>> \o EncodeNode(v)

(***************************************************************************)
(* Decoding from position i: the node there and the position after it,   *)
(* or a short read.  Children are read one after another, each from where *)
(* the previous one ended.                                                 *)
(***************************************************************************)
Read(v, next)  == [ok |-> TRUE, short |-> FALSE, v |-> v, next |-> next]
ShortRead      == [ok |-> FALSE, short |-> TRUE, v |-> NullV, next |-> 0]
Corrupt        == [ok |-> FALSE, short |-> FALSE, v |-> NullV, next |-> 0]

RECURSIVE DecodeNode(_, _)
RECURSIVE DecodeChildren(_, _, _, _)

\* Reading `count` children of a container of kind t, from position i.
DecodeChildren(bytes, i, t, count) ==
  IF count = 0 THEN Read(IF t = "array" THEN ArrV(<<>>) ELSE ObjV(<<>>, <<>>), i)
  ELSE LET key   == IF t = "object" THEN i ELSE 0
           start == IF t = "object" THEN i + 1 ELSE i
       IN  IF key > Len(bytes) THEN ShortRead
           ELSE IF t = "object" /\ bytes[key].tag # "key" THEN Corrupt
           ELSE LET first == DecodeNode(bytes, start)
                IN  IF ~first.ok THEN first
                    ELSE LET rest == DecodeChildren(bytes, first.next, t, count - 1)
                         IN  IF ~rest.ok THEN rest
                             ELSE Read([rest.v EXCEPT
                                         !.e = <<first.v>> \o @,
                                         !.keys = IF t = "object"
                                                  THEN <<bytes[key].n>> \o @ ELSE @],
                                       rest.next)

DecodeNode(bytes, i) ==
  IF i > Len(bytes) THEN ShortRead
  ELSE LET u == bytes[i]
       IN  CASE u.tag \in {"array", "object"} -> DecodeChildren(bytes, i + 1, u.tag, u.n)
             [] u.tag \in {"null", "boolean", "integer", "number", "string"} ->
                  Read(Mk(u.tag, u.n, <<>>, <<>>), i + 1)
             [] OTHER -> Corrupt

\* rdb_load: dispatch on the version marker; only the current layout is
\* specified, so any other version is refused.
Decode(bytes) ==
  IF bytes = <<>> THEN ShortRead
  ELSE IF bytes[1].tag # "version" \/ bytes[1].n # CurrentVersion THEN Corrupt
  ELSE LET r == DecodeNode(bytes, 2)
       IN  IF r.ok /\ r.next # Len(bytes) + 1 THEN Corrupt ELSE r
=============================================================================
