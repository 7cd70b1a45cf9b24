------------------------------ MODULE JsonRead ------------------------------
(***************************************************************************)
(* The read commands of lib.rs over the dataset of RedisJSON: JSON.TYPE,  *)
(* STRLEN, ARRLEN, OBJLEN, OBJKEYS, RESP and MGET.  None changes state;    *)
(* each is an operator from the dataset and the arguments to the reply.   *)
(* A reply is a value of JsonValue's shape: NullV for a null reply,       *)
(* IntV(n) for an integer, and the kinds below.  A bulk string holding    *)
(* the JSON text of a value is that value, as the write replies that      *)
(* call `to_string()` are in RedisJSON; Formatter models the rendering.   *)
(***************************************************************************)
EXTENDS RedisJSON

ErrReply(e)    == Mk("error", e, <<>>, <<>>)
WrongArity     == ErrReply("WrongArity")
Simple(s)      == Mk("simple", s, <<>>, <<>>)
Bulk(s)        == Mk("bulk", s, <<>>, <<>>)
Multi(replies) == Mk("multi", 0, <<>>, replies)

(***************************************************************************)
(* The engine's reads (redisjson.rs, from the spec): the first match of a *)
(* path; a path that matches nothing is an error the handler decides on.  *)
(***************************************************************************)
get_first(v, path) ==
  LET sels == Compile(path)
      loc  == IF sels = ParseError THEN NotFound ELSE Locate(v, sels)
  IN  IF loc = NotFound THEN NoValue ELSE ValueAt(v, loc)

\* str_len, arr_len, obj_len: the length of a value of the kind, or an error.
len_of(v, path, kind) ==
  LET x == get_first(v, path)
  IN  CASE x = NoValue -> ErrReply("NotFound")
        [] x.t # kind  -> ErrReply("TypeMismatch")
        [] OTHER       -> IntV(IF kind = "string" THEN x.n ELSE Len(x.e))

\* json_len: the path argument is required; a missing key is null.
json_len(d, k, p, kind) ==
  CASE p = NoArg    -> WrongArity
    [] d[k] = NoDoc -> NullV
    [] OTHER        -> len_of(d[k], backwards_compat_path(p), kind)

json_str_len(d, k, p) == json_len(d, k, p, "string")
json_arr_len(d, k, p) == json_len(d, k, p, "array")
json_obj_len(d, k, p) == json_len(d, k, p, "object")

\* JSON.TYPE: a missing key or path is null.
json_type(d, k, p) ==
  CASE p = NoArg    -> WrongArity
    [] d[k] = NoDoc -> NullV
    [] OTHER        -> LET x == get_first(d[k], backwards_compat_path(p))
                       IN  IF x = NoValue THEN NullV ELSE Bulk(x.t)

json_obj_keys(d, k, p) ==
  CASE p = NoArg    -> WrongArity
    [] d[k] = NoDoc -> NullV
    [] OTHER        -> LET x == get_first(d[k], backwards_compat_path(p))
                       IN  CASE x = NoValue       -> ErrReply("NotFound")
                             [] x.t # "object"    -> ErrReply("TypeMismatch")
                             [] OTHER -> Multi([i \in 1..Len(x.keys) |-> Bulk(x.keys[i])])

\* resp_serialize: a container is a multi-bulk whose first element is "["
\* or "{"; an object's members follow as name, value, name, value.
RECURSIVE resp_serialize(_)
resp_serialize(v) ==
  CASE v.t = "null"    -> NullV
    [] v.t = "boolean" -> Simple(v.n)
    [] AsI64(v)        -> v                          \* RedisValue::Integer
    [] v.t \in {"integer", "number"} -> Mk("float", v.n, <<>>, <<>>)
    [] v.t = "string"  -> Bulk(v.n)
    [] v.t = "array"   ->
         Multi(<<Simple("[")>> \o [i \in 1..Len(v.e) |-> resp_serialize(v.e[i])])
    [] v.t = "object"  ->
         Multi(<<Simple("{")>> \o FlattenSeq([i \in 1..Len(v.e) |->
                                     <<Bulk(v.keys[i]), resp_serialize(v.e[i])>>]))

\* JSON.RESP: the path is optional and defaults to the root.
json_resp(d, k, p) ==
  IF d[k] = NoDoc THEN NullV
  ELSE LET x == get_first(d[k], ArgPath(p))
       IN  IF x = NoValue THEN ErrReply("NotFound") ELSE resp_serialize(x)

\* JSON.MGET <key> [key ...] <path>: a key without a document, or whose
\* path does not resolve, is null in the reply.
json_mget(d, ks, p) ==
  IF ks = <<>> THEN WrongArity
  ELSE Multi([i \in 1..Len(ks) |->
          IF d[ks[i]] = NoDoc THEN NullV
          ELSE LET x == get_first(d[ks[i]], backwards_compat_path(p))
               IN  IF x = NoValue THEN NullV ELSE x])

-----------------------------------------------------------------------------
(***************************************************************************)
(* Read your writes.  value_op projects the reply of a write from the new *)
(* value (spec 4.4, step 4), so the reply of a successful write is what   *)
(* a read of the same path returns right after it: NUMINCRBY, NUMMULTBY   *)
(* and TOGGLE the value JSON.MGET reads, STRAPPEND the length STRLEN      *)
(* reads, ARRAPPEND and ARRINSERT the length ARRLEN reads.  A projection *)
(* that reads the value before the transform, or counts the arguments    *)
(* instead of the result, breaks it.                                       *)
(***************************************************************************)
RepliesMatchReads ==
  \A k \in Keys, p \in PathArgs :
    LET Text(r) == json_mget(r.docs, <<k>>, p).e[1]
    IN  /\ \A n \in NumArgs :
             /\ json_num_incrby(docs, k, p, n).ok =>
                  json_num_incrby(docs, k, p, n).val = Text(json_num_incrby(docs, k, p, n))
             /\ json_num_multby(docs, k, p, n).ok =>
                  json_num_multby(docs, k, p, n).val = Text(json_num_multby(docs, k, p, n))
        /\ json_bool_toggle(docs, k, p).ok =>
             json_bool_toggle(docs, k, p).val = Text(json_bool_toggle(docs, k, p))
        /\ \A s \in StrArgs : LET r == json_str_append(docs, k, p, s)
                              IN  r.ok => r.val = json_str_len(r.docs, k, p)
        /\ \A items \in ItemArgs :
             /\ LET r == json_arr_append(docs, k, p, items)
                IN  r.ok => r.val = json_arr_len(r.docs, k, p)
             /\ \A i \in IndexArgs : LET r == json_arr_insert(docs, k, p, i, items)
                                     IN  r.ok => r.val = json_arr_len(r.docs, k, p)
=============================================================================
