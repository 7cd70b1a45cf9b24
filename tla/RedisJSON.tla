----------------------------- MODULE RedisJSON -----------------------------
(***************************************************************************)
(* The JSON document type of one Redis server: the write commands of      *)
(* lib.rs, each handler an operator from the dataset to an outcome, and   *)
(* the engine calls they make (value_op, set_value, delete_path, clear,   *)
(* ArrayIndex::normalize), which live outside lib.rs and are modelled     *)
(* from the spec.                                                          *)
(*                                                                         *)
(* Redis runs one command at a time, so a command is one atomic step.  A  *)
(* Rust panic inside a handler unwinds into Redis' C code and ends the    *)
(* process: the step that panics takes the server down, and Restart       *)
(* brings it back with an empty dataset (nothing here is persisted yet).  *)
(*                                                                         *)
(* i64 and usize are IntBits wide.  OverflowChecks is the build: TRUE for *)
(* a build that panics on integer overflow, FALSE for one that wraps.     *)
(***************************************************************************)
EXTENDS Integers, Sequences, SequencesExt, JsonPath

CONSTANTS
  Keys,           \* the keys clients name
  NoDoc,          \* model value: the key holds no document
  Malformed,      \* model value: an argument serde_json fails to parse
  NoArg,          \* model value: an optional argument left out
  IntBits,        \* the width standing for the 64 bits of i64 and usize
  FloatMax,       \* the largest finite float magnitude
  OverflowChecks, \* the build panics on integer overflow
  MaxLen,         \* bound: no array grows beyond MaxLen elements
  MaxStr,         \* bound: no string grows beyond MaxStr characters
  PathArgs,       \* raw path arguments clients send
  SetArgs,        \* JSON texts for JSON.SET
  NumArgs,        \* number arguments of NUMINCRBY and NUMMULTBY
  StrArgs,        \* JSON string arguments of STRAPPEND
  ItemArgs,       \* item lists of ARRAPPEND and ARRINSERT
  IndexArgs       \* index arguments of ARRINSERT, ARRPOP and ARRTRIM

ASSUME IntBits \in 2..8 /\ FloatMax \in Nat /\ OverflowChecks \in BOOLEAN
ASSUME MaxLen \in Nat /\ MaxStr \in Nat

(***************************************************************************)
(* Machine integers.                                                       *)
(***************************************************************************)
Modulus  == 2^IntBits
I64Min   == -(2^(IntBits - 1))
I64Max   == 2^(IntBits - 1) - 1
UsizeMax == Modulus - 1

WrapI64(x) == ((x - I64Min) % Modulus) + I64Min   \* an i64 result, wrapped
AsUsize(x) == x % Modulus                         \* `x as usize` for an i64

MinOf(a, b) == IF a < b THEN a ELSE b
MaxOf(a, b) == IF a > b THEN a ELSE b

(***************************************************************************)
(* A transform's result: Ok(val), Err leaving `left` at the location it   *)
(* was handed, or a panic.  `res` is the side payload of a pop.           *)
(***************************************************************************)
TOk(val)   == [ok |-> TRUE,  panic |-> FALSE, val |-> val,   left |-> NullV, res |-> NoValue]
TErr(left) == [ok |-> FALSE, panic |-> FALSE, val |-> NullV, left |-> left,  res |-> NoValue]
TPanic     == [ok |-> FALSE, panic |-> TRUE,  val |-> NullV, left |-> NullV, res |-> NoValue]

\* An item list holds a JSON text serde_json rejects.
AnyMalformed(items) == \E i \in 1..Len(items) : items[i] = Malformed

(***************************************************************************)
(* array_index.rs ArrayIndex::normalize: a bound of ARRTRIM, clamped into *)
(* the array and cast to usize (len - 1 is -1 for an empty array).        *)
(***************************************************************************)
normalize(i, len) ==
  AsUsize(IF i >= 0 THEN MinOf(i, len - 1) ELSE MaxOf(0, len + i))

(***************************************************************************)
(* The transforms of lib.rs, each applied to the value value_op located.  *)
(***************************************************************************)
\* The closures json_num_incrby and json_num_multby pass, on i64 and f64.
Arith(op, a, b) == IF op = "add" THEN a + b ELSE a * b

\* Number::as_i64: serde_json keeps a JSON integer above i64::MAX as a u64,
\* which as_i64 refuses.
AsI64(v) == v.t = "integer" /\ v.n <= I64Max

\* Variant: an integer result stored without the i64 wrap.
do_json_num_op_unwrapped(in_value, curr, op) ==
  IF ~IsNumber(curr) \/ in_value = Malformed THEN TErr(curr)
  ELSE IF ~IsNumber(in_value) THEN TErr(curr)
  ELSE IF AsI64(curr) /\ AsI64(in_value)
       THEN TOk(IntV(Arith(op, curr.n, in_value.n)))
  ELSE TOk(FloatV(Arith(op, curr.n, in_value.n)))

do_json_num_op(in_value, curr, op) ==
  IF ~IsNumber(curr) THEN TErr(curr)
  ELSE IF in_value = Malformed \/ ~IsNumber(in_value) THEN TErr(curr)
  ELSE IF AsI64(curr) /\ AsI64(in_value)
       THEN LET r == Arith(op, curr.n, in_value.n)
            IN  IF r # WrapI64(r) /\ OverflowChecks THEN TPanic
                ELSE TOk(IntV(WrapI64(r)))
  ELSE LET r == Arith(op, curr.n, in_value.n)   \* Number::from_f64(..).unwrap()
       IN  IF r > FloatMax \/ r < -FloatMax THEN TPanic ELSE TOk(FloatV(r))

do_json_bool_toggle(curr) ==
  IF curr.t # "boolean" THEN TErr(curr) ELSE TOk(BoolV(curr.n = 0))

do_json_str_append(json, curr) ==
  IF curr.t # "string" THEN TErr(curr)
  ELSE IF json = Malformed \/ json.t # "string" THEN TErr(curr)
  ELSE TOk(StrV(curr.n + json.n))

\* Variant: value.take() before the items are parsed.
do_json_arr_append_taken(items, curr) ==
  IF curr.t # "array" THEN TErr(curr)
  ELSE IF AnyMalformed(items) THEN TErr(NullV)
  ELSE TOk(ArrV(curr.e \o items))

do_json_arr_append(items, curr) ==
  IF curr.t # "array" THEN TErr(curr)
  ELSE IF AnyMalformed(items) THEN TErr(curr)
  ELSE TOk(ArrV(curr.e \o items))

\* Variant: the bound checked as (0..len) instead of (0..=len).
do_json_arr_insert_exclusive(items, index, curr) ==
  IF curr.t # "array" THEN TErr(curr)
  ELSE LET len == Len(curr.e)
           idx == IF index < 0 THEN len + index ELSE index
       IN  IF idx < 0 \/ idx >= len \/ AnyMalformed(items) THEN TErr(curr)
           ELSE TOk(ArrV(SubSeq(curr.e, 1, idx) \o items \o SubSeq(curr.e, idx + 1, len)))

do_json_arr_insert(items, index, curr) ==
  IF curr.t # "array" THEN TErr(curr)
  ELSE LET len == Len(curr.e)
           idx == IF index < 0 THEN len + index ELSE index
       IN  IF idx < 0 \/ idx > len THEN TErr(curr)
           ELSE IF AnyMalformed(items) THEN TErr(curr)
           ELSE TOk(ArrV(SubSeq(curr.e, 1, idx) \o items \o SubSeq(curr.e, idx + 1, len)))

do_json_arr_pop(index, curr) ==
  IF curr.t # "array" THEN TErr(curr)
  ELSE IF curr.e = <<>> THEN TOk(curr)
  ELSE LET len == Len(curr.e)
           idx == IF index < 0 THEN MaxOf(0, len + index) ELSE MinOf(index, len - 1)
       IN  [TOk(ArrV(RemoveAt(curr.e, idx + 1))) EXCEPT !.res = curr.e[idx + 1]]

\* Vec::rotate_left then Vec::resize(n, Value::Null).
RotateLeft(s, k) == SubSeq(s, k + 1, Len(s)) \o SubSeq(s, 1, k)
Resize(s, n) ==
  IF n <= Len(s) THEN SubSeq(s, 1, n) ELSE s \o [j \in 1..(n - Len(s)) |-> NullV]

do_json_arr_trim(start, stop, curr) ==
  IF curr.t # "array" THEN TErr(curr)
  ELSE LET len   == Len(curr.e)
           stopN == normalize(stop, len)
           empty == start > len \/ start > WrapI64(stopN)   \* `stop as i64`
           rs    == IF empty THEN 0 ELSE normalize(start, len)
           reRaw == IF empty THEN 0 ELSE stopN + 1             \* usize `stop + 1`
           re    == AsUsize(reRaw)
       IN  IF reRaw > UsizeMax /\ OverflowChecks THEN TPanic
           ELSE IF rs > len THEN TPanic          \* rotate_left asserts mid <= len
           ELSE IF re < rs THEN TPanic           \* usize end - start underflows
           ELSE TOk(ArrV(Resize(RotateLeft(curr.e, rs), re - rs)))

(***************************************************************************)
(* The closures a handler hands value_op, named by a command record       *)
(* [op, a, b]: the transform run on the located value and the projection *)
(* of its result into the reply.                                           *)
(***************************************************************************)
Transform(cmd, v) ==
  CASE cmd.op \in {"add", "mul"} -> do_json_num_op(cmd.a, v, cmd.op)
    [] cmd.op = "toggle"          -> do_json_bool_toggle(v)
    [] cmd.op = "strappend"       -> do_json_str_append(cmd.a, v)
    [] cmd.op = "arrappend"       -> do_json_arr_append(cmd.a, v)
    [] cmd.op = "arrinsert"       -> do_json_arr_insert(cmd.a, cmd.b, v)
    [] cmd.op = "arrpop"          -> do_json_arr_pop(cmd.b, v)
    [] cmd.op = "arrtrim"         -> do_json_arr_trim(cmd.a, cmd.b, v)

\* Variant: ARRAPPEND and ARRINSERT reply the number of items they added.
Project_items(cmd, r) ==
  CASE cmd.op \in {"add", "mul", "toggle"} -> r.val
    [] cmd.op = "strappend" -> IntV(r.val.n)
    [] cmd.op = "arrpop"    -> r.res
    [] OTHER                -> IntV(Len(cmd.a))

\* Numbers and booleans reply their new value, strings and arrays their
\* new length (usize::MAX if not one), ARRPOP the element it removed.
Project(cmd, r) ==
  CASE cmd.op \in {"add", "mul", "toggle"} -> r.val
    [] cmd.op = "strappend" -> IntV(r.val.n)
    [] cmd.op = "arrpop"    -> r.res
    [] OTHER                -> IntV(Len(r.val.e))

(***************************************************************************)
(* The engine (redisjson.rs), from the spec.  Each returns a record whose *)
(* `kind` is "ok", "error" or "panic" and whose `doc` is the document     *)
(* after the call.                                                         *)
(***************************************************************************)
Outcome(kind, doc, reply) == [kind |-> kind, doc |-> doc, reply |-> reply]

\* value_op: locate the first match, hand the transform the value there,
\* write back its result, or on an error what it left in place.
value_op(v, path, cmd) ==
  LET sels == Compile(path)
      loc  == IF sels = ParseError THEN NotFound ELSE Locate(v, sels)
  IN  IF loc = NotFound THEN Outcome("error", v, NullV)
      ELSE LET r == Transform(cmd, ValueAt(v, loc))
           IN  IF r.panic THEN Outcome("panic", v, NullV)
               ELSE IF r.ok THEN Outcome("ok", PutAt(v, loc, r.val), Project(cmd, r))
               ELSE Outcome("error", PutAt(v, loc, r.left), NullV)

\* set_value: replace the value at the path, or add it as a new member of
\* the object the path's parent names; NX never replaces, XX never adds.
\* The reply is whether the document was written.
set_value(v, json, path, opt) ==
  LET sels   == Compile(path)
      loc    == Locate(v, sels)
      parent == Locate(v, Front(sels))
  IN  IF json = Malformed \/ sels = ParseError THEN Outcome("error", v, NullV)
      ELSE IF loc # NotFound
           THEN IF opt = "NX" THEN Outcome("ok", v, BoolV(FALSE))
                ELSE Outcome("ok", PutAt(v, loc, json), BoolV(TRUE))
      ELSE IF opt = "XX" THEN Outcome("ok", v, BoolV(FALSE))
      ELSE IF Last(sels).sel = "member" /\ parent # NotFound
              /\ ValueAt(v, parent).t = "object"
           THEN Outcome("ok", PutAt(v, parent,
                               AddMember(ValueAt(v, parent), Last(sels).name, json)),
                        BoolV(TRUE))
      ELSE Outcome("error", v, NullV)

\* delete_path: remove the first match; the reply counts what was removed.
delete_path(v, path) ==
  LET sels == Compile(path)
      loc  == IF sels = ParseError THEN NotFound ELSE Locate(v, sels)
  IN  IF sels = ParseError THEN Outcome("error", v, NullV)
      ELSE IF loc = NotFound THEN Outcome("ok", v, IntV(0))
      ELSE Outcome("ok", DeleteAt(v, loc), IntV(1))

\* clear: the value at the path becomes the empty or zero value of its kind.
ZeroOf(x) ==
  CASE x.t = "array"   -> ArrV(<<>>)
    [] x.t = "object"  -> ObjV(<<>>, <<>>)
    [] x.t = "integer" -> IntV(0)
    [] x.t = "number"  -> FloatV(0)
    [] x.t = "string"  -> StrV(0)
    [] x.t = "boolean" -> BoolV(FALSE)
    [] OTHER           -> x

clear(v, path) ==
  LET sels == Compile(path)
      loc  == IF sels = ParseError THEN NotFound ELSE Locate(v, sels)
  IN  IF sels = ParseError THEN Outcome("error", v, NullV)
      ELSE IF loc = NotFound THEN Outcome("ok", v, IntV(0))
      ELSE Outcome("ok", PutAt(v, loc, ZeroOf(ValueAt(v, loc))), IntV(1))

(***************************************************************************)
(* The command handlers of lib.rs.  `d` is the dataset, a function from   *)
(* Keys to a document or NoDoc.  A handler's result says what the dataset *)
(* becomes, the reply, and whether the handler raised a keyspace          *)
(* notification and called replicate_verbatim.                            *)
(***************************************************************************)
OK == Mk("simple", 0, <<>>, <<>>)   \* the +OK status reply

Result(d, ok, val, notify, replicate) ==
  [docs |-> d, ok |-> ok, val |-> val, notify |-> notify,
   replicate |-> replicate, panic |-> FALSE]
Fail(d)     == Result(d, FALSE, NullV, FALSE, FALSE)
Panicked(d) == [Fail(d) EXCEPT !.panic = TRUE]

\* The shape every value_op command shares: a missing key is an error, a
\* success notifies and replicates, an error reports what value_op left.
value_op_command(d, k, path, cmd) ==
  IF d[k] = NoDoc THEN Fail(d)
  ELSE LET o == value_op(d[k], path, cmd)
       IN  CASE o.kind = "panic" -> Panicked(d)
             [] o.kind = "error" -> Fail([d EXCEPT ![k] = o.doc])
             [] OTHER -> Result([d EXCEPT ![k] = o.doc], TRUE, o.reply, TRUE, TRUE)

ArgPath(p) == IF p = NoArg THEN Root ELSE backwards_compat_path(p)

json_del(d, k, p) ==
  LET path == ArgPath(p)
  IN  IF d[k] = NoDoc THEN Result(d, TRUE, IntV(0), FALSE, FALSE)
      ELSE IF path = Root THEN Result([d EXCEPT ![k] = NoDoc], TRUE, IntV(1), TRUE, TRUE)
      ELSE LET o == delete_path(d[k], path)
           IN  IF o.kind = "error" THEN Fail(d)
               ELSE Result([d EXCEPT ![k] = o.doc], TRUE, o.reply,
                           o.reply.n > 0, o.reply.n > 0)

\* Variant: JSON.SET that replicates only when it creates the key.
json_set_created_only(d, k, p, json, opt) ==
  LET path == backwards_compat_path(p)
  IN  IF d[k] # NoDoc
      THEN LET o == set_value(d[k], json, path, opt)
           IN  IF o.kind = "error" THEN Fail(d)
               ELSE IF o.reply = BoolV(TRUE)
                    THEN Result([d EXCEPT ![k] = o.doc], TRUE, OK, TRUE, FALSE)
               ELSE Result(d, TRUE, NullV, FALSE, FALSE)
      ELSE IF opt = "XX" THEN Result(d, TRUE, NullV, FALSE, FALSE)
      ELSE IF json = Malformed THEN Fail(d)
      ELSE IF path = Root THEN Result([d EXCEPT ![k] = json], TRUE, OK, TRUE, TRUE)
      ELSE Fail(d)

json_set(d, k, p, json, opt) ==
  LET path == backwards_compat_path(p)
  IN  IF d[k] # NoDoc
      THEN LET o == set_value(d[k], json, path, opt)
           IN  IF o.kind = "error" THEN Fail(d)
               ELSE IF o.reply = BoolV(TRUE)
                    THEN Result([d EXCEPT ![k] = o.doc], TRUE, OK, TRUE, TRUE)
               ELSE Result(d, TRUE, NullV, FALSE, FALSE)
      ELSE IF opt = "XX" THEN Result(d, TRUE, NullV, FALSE, FALSE)
      ELSE IF json = Malformed THEN Fail(d)
      ELSE IF path = Root THEN Result([d EXCEPT ![k] = json], TRUE, OK, TRUE, TRUE)
      ELSE Fail(d)   \* "ERR new objects must be created at the root"

json_num_op(d, k, p, number, op) ==
  value_op_command(d, k, backwards_compat_path(p), [op |-> op, a |-> number])

json_num_incrby(d, k, p, number) == json_num_op(d, k, p, number, "add")

json_num_multby(d, k, p, number) == json_num_op(d, k, p, number, "mul")

json_bool_toggle(d, k, p) ==
  value_op_command(d, k, backwards_compat_path(p), [op |-> "toggle"])

\* JSON.STRAPPEND <key> [path] <json-string>: NoArg path means the root.
json_str_append(d, k, p, json) ==
  value_op_command(d, k, ArgPath(p), [op |-> "strappend", a |-> json])

json_arr_append(d, k, p, items) ==
  value_op_command(d, k, backwards_compat_path(p), [op |-> "arrappend", a |-> items])

json_arr_insert(d, k, p, index, items) ==
  value_op_command(d, k, backwards_compat_path(p),
                   [op |-> "arrinsert", a |-> items, b |-> index])

\* JSON.ARRPOP <key> [path [index]]: no path pops the root's last element
\* (index i64::MAX); a missing or unparsable index is -1.
json_arr_pop(d, k, p, index) ==
  LET idx == IF p = NoArg THEN I64Max
             ELSE IF index \in {NoArg, Malformed} THEN -1 ELSE index
  IN  value_op_command(d, k, ArgPath(p), [op |-> "arrpop", b |-> idx])

json_arr_trim(d, k, p, start, stop) ==
  value_op_command(d, k, backwards_compat_path(p),
                   [op |-> "arrtrim", a |-> start, b |-> stop])

\* Variant: JSON.CLEAR that forgets replicate_verbatim as it forgets the
\* notification.
json_clear_unreplicated(d, k, p) ==
  IF d[k] = NoDoc THEN Result(d, TRUE, IntV(0), FALSE, FALSE)
  ELSE LET o == clear(d[k], ArgPath(p))
       IN  IF o.kind = "error" THEN Fail(d)
           ELSE Result([d EXCEPT ![k] = o.doc], TRUE, o.reply, FALSE, FALSE)

\* JSON.CLEAR replicates but raises no keyspace notification.
json_clear(d, k, p) ==
  IF d[k] = NoDoc THEN Result(d, TRUE, IntV(0), FALSE, FALSE)
  ELSE LET o == clear(d[k], ArgPath(p))
       IN  IF o.kind = "error" THEN Fail(d)
           ELSE Result([d EXCEPT ![k] = o.doc], TRUE, o.reply, FALSE, TRUE)

-----------------------------------------------------------------------------
(***************************************************************************)
(* The server.  docs is the keyspace as far as JSON documents go; up is   *)
(* FALSE once a handler has panicked.                                      *)
(***************************************************************************)
VARIABLES docs, up

vars == <<docs, up>>

EmptyDataset == [k \in Keys |-> NoDoc]

\* Bound: the model stops a command whose result outgrows MaxLen or MaxStr.
WithinBounds(d) ==
  \A k \in Keys : d[k] # NoDoc => SizesWithin(d[k], MaxLen, MaxStr)

Init ==
  /\ docs = EmptyDataset
  /\ up = TRUE

\* Running a command whose handler returned r.
Run(r) ==
  /\ up
  /\ WithinBounds(r.docs)
  /\ docs' = IF r.panic THEN docs ELSE r.docs
  /\ up' = ~r.panic

OptPathArgs == PathArgs \cup {NoArg}
SetOpts     == {"none", "NX", "XX"}
PopIndexArgs(p) == IF p = NoArg THEN {NoArg} ELSE IndexArgs \cup {NoArg, Malformed}
\* The (path, index) pairs JSON.ARRPOP accepts: no index without a path.
PopArgs == {pi \in OptPathArgs \X (IndexArgs \cup {NoArg, Malformed}) :
              pi[2] \in PopIndexArgs(pi[1])}

JsonSet == \E k \in Keys, p \in PathArgs, json \in SetArgs, opt \in SetOpts :
             Run(json_set(docs, k, p, json, opt))
JsonDel == \E k \in Keys, p \in OptPathArgs : Run(json_del(docs, k, p))
JsonNumIncrBy == \E k \in Keys, p \in PathArgs, n \in NumArgs :
             Run(json_num_incrby(docs, k, p, n))
JsonNumMultBy == \E k \in Keys, p \in PathArgs, n \in NumArgs :
             Run(json_num_multby(docs, k, p, n))
JsonToggle == \E k \in Keys, p \in PathArgs : Run(json_bool_toggle(docs, k, p))
JsonStrAppend == \E k \in Keys, p \in OptPathArgs, s \in StrArgs :
             Run(json_str_append(docs, k, p, s))
JsonArrAppend == \E k \in Keys, p \in PathArgs, items \in ItemArgs :
             Run(json_arr_append(docs, k, p, items))
JsonArrInsert == \E k \in Keys, p \in PathArgs, i \in IndexArgs, items \in ItemArgs :
             Run(json_arr_insert(docs, k, p, i, items))
JsonArrPop == \E k \in Keys, p \in OptPathArgs : \E i \in PopIndexArgs(p) :
             Run(json_arr_pop(docs, k, p, i))
JsonArrTrim == \E k \in Keys, p \in PathArgs, i, j \in IndexArgs :
             Run(json_arr_trim(docs, k, p, i, j))
JsonClear == \E k \in Keys, p \in OptPathArgs : Run(json_clear(docs, k, p))

\* Redis restarts after a panic; nothing is persisted yet, so it is empty.
Restart ==
  /\ ~up
  /\ up' = TRUE
  /\ docs' = EmptyDataset

Next ==
  \/ JsonSet \/ JsonDel \/ JsonNumIncrBy \/ JsonNumMultBy \/ JsonToggle
  \/ JsonStrAppend \/ JsonArrAppend \/ JsonArrInsert \/ JsonArrPop
  \/ JsonArrTrim \/ JsonClear \/ Restart

Spec == Init /\ [][Next]_vars

\* Every result a command a client can send would have in dataset d.
Outcomes(d) ==
  UNION {
    {json_set(d, k, p, json, opt) : p \in PathArgs, json \in SetArgs, opt \in SetOpts}
    \cup {json_del(d, k, p) : p \in OptPathArgs}
    \cup {json_num_incrby(d, k, p, n) : p \in PathArgs, n \in NumArgs}
    \cup {json_num_multby(d, k, p, n) : p \in PathArgs, n \in NumArgs}
    \cup {json_bool_toggle(d, k, p) : p \in PathArgs}
    \cup {json_str_append(d, k, p, s) : p \in OptPathArgs, s \in StrArgs}
    \cup {json_arr_append(d, k, p, items) : p \in PathArgs, items \in ItemArgs}
    \cup {json_arr_insert(d, k, p, i, items) : p \in PathArgs, i \in IndexArgs,
                                               items \in ItemArgs}
    \cup {json_arr_pop(d, k, pi[1], pi[2]) : pi \in PopArgs}
    \cup {json_arr_trim(d, k, p, i, j) : p \in PathArgs, i, j \in IndexArgs}
    \cup {json_clear(d, k, p) : p \in OptPathArgs}
  : k \in Keys}

-----------------------------------------------------------------------------
(***************************************************************************)
(* Properties.  Those about single commands are stated for every command  *)
(* a client can send in every reachable state, which is what an action    *)
(* property over Next says, without recording the command in the state.   *)
(***************************************************************************)
TypeOK ==
  /\ \A k \in Keys : docs[k] # NoDoc => /\ IsValue(docs[k], 3)
                                        /\ IntsWithin(docs[k], I64Min, UsizeMax)
  /\ up \in BOOLEAN

\* The first location of the (rewritten) path in key k's document.
LocOf(d, k, path) ==
  LET sels == Compile(path)
  IN  IF d[k] = NoDoc \/ sels = ParseError THEN NotFound ELSE Locate(d[k], sels)

\* The value there, NoValue if there is none.
At(d, k, path) ==
  IF LocOf(d, k, path) = NotFound THEN NoValue ELSE ValueAt(d[k], LocOf(d, k, path))

\* Dataset d with the value at that location replaced by x.
Replaced(d, k, path, x) == [d EXCEPT ![k] = PutAt(@, LocOf(d, k, path), x)]

(***************************************************************************)
(* Replica consistency.  Redis replicates a module command only when its  *)
(* handler calls replicate_verbatim, so a command that changes the        *)
(* dataset without calling it leaves every replica and the AOF behind:    *)
(* every command that does not crash the server and changes a document   *)
(* replicates itself.  This is what value_op's write-back on an error,   *)
(* the `deleted > 0` test of JSON.DEL and the NX/XX answers of set_value  *)
(* must get right together.                                                *)
(***************************************************************************)
ChangesAreReplicated ==
  \A r \in Outcomes(docs) : ~r.panic /\ r.docs # docs => r.replicate

(***************************************************************************)
(* The array commands do what the Array Index Normalizer (spec 4.2) and   *)
(* the Mutation Protocol (spec 4.4) say, at the first match of the path:  *)
(*  ARRAPPEND succeeds iff every item parses, appends them, replies the  *)
(*    new length;                                                          *)
(*  ARRINSERT succeeds iff len+i (i < 0) or i lies in [0, len] and every *)
(*    item parses, splices the items in there, replies the new length;   *)
(*  ARRPOP of an empty array replies "no element" and changes nothing;   *)
(*    otherwise it removes and replies the element at max(0, len+i) or   *)
(*    min(i, len-1).                                                       *)
(* Nothing else in the dataset changes.  Stated from the spec's rules,    *)
(* independently of the code's arithmetic.                                 *)
(***************************************************************************)
Spliced(A, pos, items) ==
  [j \in 1..(Len(A) + Len(items)) |->
     IF j <= pos THEN A[j]
     ELSE IF j <= pos + Len(items) THEN items[j - pos]
     ELSE A[j - Len(items)]]

PopPosition(i, len) == IF i < 0 THEN MaxOf(0, len + i) ELSE MinOf(i, len - 1)

ArrayEditsMatchSpec ==
  \A k \in Keys, p \in PathArgs :
    LET path == backwards_compat_path(p)
        A    == At(docs, k, path)
    IN  A.t = "array" =>
        /\ \A items \in ItemArgs :
             LET r == json_arr_append(docs, k, p, items)
             IN  /\ r.ok = ~AnyMalformed(items)
                 /\ r.ok => /\ r.docs = Replaced(docs, k, path, ArrV(A.e \o items))
                            /\ r.val = IntV(Len(A.e) + Len(items))
        /\ \A i \in IndexArgs, items \in ItemArgs :
             LET r   == json_arr_insert(docs, k, p, i, items)
                 pos == IF i < 0 THEN Len(A.e) + i ELSE i
             IN  /\ r.ok = (pos \in 0..Len(A.e) /\ ~AnyMalformed(items))
                 /\ r.ok => /\ r.docs = Replaced(docs, k, path, ArrV(Spliced(A.e, pos, items)))
                            /\ r.val = IntV(Len(A.e) + Len(items))
        /\ \A i \in IndexArgs :
             LET r == json_arr_pop(docs, k, p, i)
             IN  /\ r.ok
                 /\ IF A.e = <<>>
                    THEN r.docs = docs /\ r.val = NoValue
                    ELSE LET pos == PopPosition(i, Len(A.e)) + 1
                         IN  /\ r.docs = Replaced(docs, k, path, ArrV(RemoveAt(A.e, pos)))
                             /\ r.val = A.e[pos]
(***************************************************************************)
(* No command crashes the server.  A panic in a handler (an unwrap on a   *)
(* None, an overflow check, a slice or allocation out of range) unwinds   *)
(* into Redis and ends the process with every client's data in memory.    *)
(***************************************************************************)
NoPanic == up

(***************************************************************************)
(* JSON.ARRTRIM keeps the closed range [start, stop] of spec 4.2: each     *)
(* bound normalized on its own, the range empty when the normalized start *)
(* passes the normalized stop or the raw start passes len (and, an empty  *)
(* array having no positions, always empty for an empty array).           *)
(***************************************************************************)
TrimBound(i, len) == IF i < 0 THEN MaxOf(0, len + i) ELSE MinOf(i, len - 1)

TrimRef(A, start, stop) ==
  LET len == Len(A)
      s   == TrimBound(start, len)
      e   == TrimBound(stop, len)
  IN  IF len = 0 \/ start > len \/ s > e THEN <<>> ELSE SubSeq(A, s + 1, e + 1)

TrimMatchesSpec ==
  \A k \in Keys, p \in PathArgs, start, stop \in IndexArgs :
    LET path == backwards_compat_path(p)
        A    == At(docs, k, path)
        r    == json_arr_trim(docs, k, p, start, stop)
    IN  A.t = "array" /\ r.ok =>
          /\ r.docs = Replaced(docs, k, path, ArrV(TrimRef(A.e, start, stop)))
          /\ r.val = IntV(Len(TrimRef(A.e, start, stop)))

(***************************************************************************)
(* NUMINCRBY and NUMMULTBY on two integers store the exact sum or product *)
(* ("if both parse as integers, apply the integer operator", spec 4.4),   *)
(* when they succeed at all.                                               *)
(***************************************************************************)
NumOpIsExact ==
  \A k \in Keys, p \in PathArgs, n \in NumArgs :
    LET path == backwards_compat_path(p)
        x    == At(docs, k, path)
        inc  == json_num_incrby(docs, k, p, n)
        mul  == json_num_multby(docs, k, p, n)
    IN  x.t = "integer" /\ n # Malformed /\ n.t = "integer" =>
          /\ inc.ok => At(inc.docs, k, path) = IntV(x.n + n.n)
          /\ mul.ok => At(mul.docs, k, path) = IntV(x.n * n.n)

(***************************************************************************)
(* Spec 4.1 and 4.4: when both operands of NUMINCRBY or NUMMULTBY are     *)
(* integral the integer operator is applied, without precision loss: a    *)
(* stored integer stays an integer.  do_json_num_op asks as_i64 of both, *)
(* so an integer above i64::MAX (a u64 to serde_json) takes the f64 path.  *)
(***************************************************************************)
IntegerStaysInteger ==
  \A k \in Keys, p \in PathArgs, n \in NumArgs :
    LET path == backwards_compat_path(p)
    IN  At(docs, k, path).t = "integer" /\ n # Malformed /\ n.t = "integer" =>
          \A r \in {json_num_incrby(docs, k, p, n), json_num_multby(docs, k, p, n)} :
            r.ok => At(r.docs, k, path).t = "integer"

(***************************************************************************)
(* Every command that changes a document raises a keyspace notification, *)
(* so that clients watching the key (and client-side caching) learn of it.*)
(***************************************************************************)
ChangeIsNotified ==
  \A r \in Outcomes(docs) : ~r.panic /\ r.docs # docs => r.notify

(***************************************************************************)
(* Spec 7: malformed input changes no document.  A command whose parsed  *)
(* argument (the JSON of SET, the number of NUMINCRBY and NUMMULTBY, the  *)
(* string of STRAPPEND, the items of ARRAPPEND and ARRINSERT, the index   *)
(* of ARRPOP) does not parse leaves the dataset as it was.  (SET with XX  *)
(* on a missing key replies null without parsing; it changes nothing.)    *)
(***************************************************************************)
MalformedInputRefused ==
  \A k \in Keys, p \in PathArgs :
    LET Refused(r) == r.docs = docs
        bad        == {items \in ItemArgs : AnyMalformed(items)}
    IN  /\ \A o \in SetOpts : Refused(json_set(docs, k, p, Malformed, o))
        /\ Refused(json_num_incrby(docs, k, p, Malformed))
        /\ Refused(json_num_multby(docs, k, p, Malformed))
        /\ Refused(json_str_append(docs, k, p, Malformed))
        /\ \A items \in bad :
             /\ Refused(json_arr_append(docs, k, p, items))
             /\ \A i \in IndexArgs : Refused(json_arr_insert(docs, k, p, i, items))
        /\ Refused(json_arr_pop(docs, k, p, Malformed))
=============================================================================
