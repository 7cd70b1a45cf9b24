# TLA+ models of RedisJSON

TLA+ models of the RedisJSON module (`src/src/lib.rs` and
`src/src/formatter.rs`), checked with TLC.  They cover the document engine
as `spec.md` describes it.

## 1. The system

RedisJSON adds a JSON document type to a Redis server.  Its parts:

| Part | Code | State it keeps | Operations |
|---|---|---|---|
| Command handlers | `lib.rs` `json_*` | none of their own: each opens a key, calls the engine, then notifies and replicates | the 11 write commands SET, DEL, NUMINCRBY, NUMMULTBY, TOGGLE, STRAPPEND, ARRAPPEND, ARRINSERT, ARRPOP, ARRTRIM, CLEAR; the read commands GET, MGET, TYPE, STRLEN, ARRLEN, ARRINDEX, OBJKEYS, OBJLEN, RESP, DEBUG |
| Value transforms | `lib.rs` `do_json_*` | none (pure functions of the located value and the arguments) | numeric op, toggle, string append, array append, insert, pop and trim |
| Legacy path rewrite | `lib.rs` `backwards_compat_path` | none | `.`→`$`, `.x`→`$.x`, `x`→`$.x` |
| Document engine | `redisjson.rs` (not in `src/`; spec §4.3–4.4) | one JSON tree per key | `value_op`, `set_value`, `delete_path`, `clear`, path compilation and resolution |
| Array index normalizer | `array_index.rs` (not in `src/`; spec §4.2) | none | `normalize` |
| Persistence | `REDIS_JSON_TYPE` callbacks in `lib.rs`; the codec is `backward.rs` (spec §4.5) | the RDB file | `rdb_save`, `rdb_load`, `aux_load` |
| Formatter | `formatter.rs` | indentation depth and a `has_value` flag | the serde `Formatter` callbacks that JSON.GET's INDENT/NEWLINE/SPACE output goes through |
| Replication | `replicate_verbatim` calls in the handlers; the command table of `redis_module!`; Redis' replica link | the replica's dataset, the stream of propagated commands, a snapshot in transfer | propagate, replay, full resync, BGSAVE, restart |

How they interact:
- Redis calls one handler at a time, on its single main thread.
- A write handler opens the key, then hands `value_op` a transform closure and a projection closure.
- `value_op` resolves the path to its first match and calls the transform on the value there. On success it writes back the transform's result. On error it writes back whatever the transform left in place.
- The handler then raises a keyspace notification and calls `replicate_verbatim`. The command is copied to replicas and the AOF (append-only file) only if that call is made.
- A Rust panic anywhere in a handler unwinds into Redis' C code and ends the server.

What is hard, and what a unit test would hardly reach:
- **Array arithmetic at the edges.** `do_json_arr_trim` mixes the raw `start` with the normalized `stop`, and computes in `usize`. Which inputs lead to a panic depends on the array's length and both bounds together.
- **Integer overflow.** It wraps in a release build and panics in a debug build. A float result that is not finite panics in `Number::from_f64(..).unwrap()`.
- **Keeping replicas in step.** Every handler must call `replicate_verbatim` exactly when it changed the dataset, including:
  - the error paths through `value_op`'s write-back;
  - the `deleted > 0` test of JSON.DEL;
  - the NX/XX answers of JSON.SET.
- **Take-before-validate.** A transform that calls `value.take()` before it has validated its arguments leaves a `null` behind on the error path.
- **Persistence round trips.** A snapshot or RDB file must load back as it was saved, for every document shape.
- **Replicas under stress.** A replica buffer that overflows, a transfer that breaks, a primary that restarts from its RDB file: after each, the replica must end up on the primary's dataset, never on a lost one.

Properties that make the system correct:
- No command panics.
- Every change is replicated and notified.
- A failed command leaves no trace.
- The array commands follow the normalizer's rules.
- Numeric results are exact or refused.
- The formatter produces the layout of a reference pretty-printer.
- A save followed by a load gives back the same dataset.

## 2. Modules

| Module | Models | Code |
|---|---|---|
| `JsonValue` | JSON values as uniform records `[t, n, keys, e]`; locations; reading, replacing and removing at a location | the Value Model (spec §4.1), spec-modelled |
| `JsonPath` | `backwards_compat_path` over token sequences; compilation into member and index selectors; first-match resolution | `lib.rs` 94–105; spec §4.3 |
| `RedisJSON` | the write handlers and their transforms over a dataset `docs : Keys -> doc \cup {NoDoc}`; the server's `up` flag; the engine calls from the spec | `lib.rs` 110–822 |
| `MCRedisJSON` | the instance TLC checks | — |
| `Formatter` | every `RedisJsonFormatter` callback as an action on `current_indent`, `has_value` and the output written so far, driven by the sequence of calls serde_json's serializer makes for a document; a recursive reference renderer written from spec §4.6 | `formatter.rs` 32–163 |
| `MCFormatter` | every document of depth ≤ 2 whose containers hold ≤ 2 children, each option absent or present | — |
| `Codec` | `rdb_save`/`rdb_load` of one document: a version marker, then the document depth-first (a container as its count and then its children, an object member as its key and then its value); decoding with short-read and corrupt-input results | spec §4.5, spec-modelled (`redisjson.rs`, `backward.rs`) |
| `ReplicaLag` | the abstract promise of replication: the replica goes through the primary's datasets, in order (`Write`, `Apply`, `Resync`) | — |
| `Replication` | `RedisJSON` as primary, a replica, the replica stream (`link`), a snapshot in transfer (`sync`) and the RDB file (`rdb`) | `lib.rs` 70–71, 936–944, 959–982; the primary, replica and restart steps are Redis host behaviour, spec-modelled |
| `MCReplication` | the instance TLC checks | — |
| `JsonGet` | the argument loop of `json_get` as a state machine (one action per arm of the `match`), the compile-time `max_strlen` and a recursive reading of the documented syntax | `lib.rs` 27–62, 202–231 |
| `MCJsonGet` | every argument list of up to three words, drawn from the subcommands, `JSON`, and short and long other words | — |
| `JsonRead` | the read commands TYPE, STRLEN, ARRLEN, OBJLEN, OBJKEYS, RESP (with `resp_serialize`) and MGET, as reply operators over the dataset | `lib.rs` 247–297, 640–642, 775–795, 860–923 |
| `MCJsonRead` | `JsonRead` over the state space of `MCRedisJSON` | — |

`RedisJSON` keeps two pieces of state:
- `docs` is what the keyspace holds;
- `up` is FALSE after a handler panicked.

Each write command is one action, which has two parts:
- **`Run(r)`** takes `r`, the result of the handler operator applied to the dataset and to arguments drawn with `\E` from small constant sets. Each handler operator (`json_set`, `json_arr_pop`, …) translates the Rust function: its early returns, its default arguments, the `value_op` call and the notify and replicate calls.
- **The atomic step** that `Run(r)` takes. Redis executes a module command to completion before it runs the next one.

`Restart` models Redis coming back after a panic.  Nothing is persisted in this module, so the dataset comes back empty.

A property about single commands is stated for every command a client could send in the current state. `Outcomes(d)` applies every handler to every argument in the constant sets. This is what an action property `[][Next => P]_vars` says. It keeps the command out of the state, which would otherwise multiply the state space by the number of commands.

Abstractions:
- A string is its length; no property distinguishes two strings of the same length.
- A float is an integer magnitude. `FloatMax` stands for the largest finite `f64`.
- `i64` and `usize` are `IntBits` bits wide. `OverflowChecks` chooses the build: TRUE panics on integer overflow, FALSE wraps. A stored integer may lie above `i64::MAX`, up to `UsizeMax`, as serde_json's u64. `AsI64` is `Number::as_i64`, which `do_json_num_op` and `resp_serialize` test before they treat a number as an integer.
- A JSON text that `serde_json` rejects is the model value `Malformed`.
- A path is a sequence of lexical tokens (`"$"`, `"."`, a name, `"[0]"`). The legacy rewrite, which tests and inserts only `$` and `.`, is modelled by what it does.

## 3. Runs

Every run of `MCRedisJSON` uses the same bounds:
- one key (no write command names two keys);
- `i64` 3 bits wide (−4..3);
- floats finite up to magnitude 4;
- arrays of at most 2 elements and strings of at most 2 characters. The `NoPanic` run allows 3 elements.

The argument sets cover:
- every branch of `backwards_compat_path` and a malformed path;
- JSON texts of every kind, plus a malformed one;
- an integer and a float operand, a negative operand, a string operand and a malformed operand;
- item lists that nest arrays or hold a malformed item;
- indices −1, 0 and 1.

With these bounds the interesting cases happen: overflow at both ends, clamping on both sides, the empty array, a nested array, and an object holding an array.

| Run | Expect | Checks |
|---|---|---|
| `core` | pass | `TypeOK`; `ChangesAreReplicated` (every command that changes the dataset replicates itself) |
| `array_edits` | pass | `ArrayEditsMatchSpec`: ARRAPPEND, ARRINSERT and ARRPOP follow spec §4.2/§4.4 exactly, replies included |
| `formatter` | pass | `TypeOK`; `StreamsReference`: at every callback the output is a prefix of the reference rendering, and the whole of it when the serializer returns. The code keeps one `has_value` flag where the spec keeps one per nesting level; the flag is correct because `end_*_value` sets it again after every child, and only a run over nested and sibling containers shows that |
| `trim_panic` | violation | `NoPanic`: `JSON.SET k $ []` then `JSON.ARRTRIM k $ 0 -1` panics. `normalize(0, 0)` is `(-1) as usize`, and `rotate_left` asserts `mid <= len` |
| `trim_empty` | violation | `TrimMatchesSpec`: `ARRTRIM k $ -1 -1` on `[]` leaves `[null]`, where the closed range of an empty array is empty |
| `num_wrap` | violation | `NumOpIsExact`: in a release build, `NUMINCRBY` past `i64::MAX` stores the wrapped sum |
| `clear_silent` | violation | `ChangeIsNotified`: JSON.CLEAR changes the document, replicates, and never raises a keyspace notification |
| `u64_float` | violation | `IntegerStaysInteger`: NUMINCRBY and NUMMULTBY on a stored integer keep it an integer (spec §4.1, §4.4). The run adds i64::MAX + 1 to the JSON texts and operands, and `FloatMax = 16` so that f64 covers the u64 range, as the real f64 does. serde_json keeps such a number as a u64, `as_i64` refuses it, and `do_json_num_op` computes in f64: `JSON.SET k $ 4` then NUMINCRBY stores a float. The model's floats are exact, so the loss of the low digits is not shown, only the change of kind. Without the u64 values the property holds |

Each property of the passing run has a mutant: a plausible bug in the mapped code that TLC finds.
- `do_json_num_op` without the i64 wrap breaks `TypeOK`.
- `do_json_arr_append` calling `take()` before parsing its items breaks `ChangesAreReplicated`. The failed command leaves `null` behind and is not replicated.
- `do_json_arr_insert` testing `0..len` instead of `0..=len` breaks `ArrayEditsMatchSpec`.
- `begin_object` without `current_indent += 1` breaks the Formatter's `TypeOK`: the usize underflows at `end_object`.
- `begin_array` without `self.has_value = false` breaks `StreamsReference`. The first failing document is an array whose first child is a non-empty container, followed by an empty sibling container.

### Replication

`Replication` composes the handlers with a replica:
- **Primary actions.** There is one action per write command, and it calls its handler directly. If the handler called `replicate_verbatim`, the command record is appended to `link`. If `link` already holds `MaxLag` commands, the replica is disconnected instead (Redis' client-output-buffer-limit): `link` is emptied and a snapshot (`SaveDataset`) of the new dataset is put in transfer.
- **`ReplicaApply`** replays the head of `link` on `rdocs` with the same handler (`Exec`, the command table). It waits while a snapshot is in transfer.
- **`SyncLoad`** loads the snapshot with `LoadDataset`. **`SyncDrop`** breaks the transfer: the replica keeps its dataset, as `HANDLE_IO_ERRORS` allows, and a new snapshot is taken.
- **`BgSave`** writes the RDB file. **`RestartFromRdb`** brings a panicked primary back with the dataset of that file and resyncs the replica in full.

The repository holds only the handlers, `replicate_verbatim` and the `rdb_save`/`rdb_load` registration. The stream, the snapshots, BGSAVE and the restart are Redis host behaviour, so those actions are spec-modelled. `Codec` writes `rdb_load` as the inverse of `rdb_save` (spec §4.5), because both are in `redisjson.rs`, outside `src/`. So no run can find a mismatch between the two.

`shadow` is a history variable, not code state. It records the primary datasets the replica has still to reach, as the primary produces them, and the refinement mapping sends it to `ReplicaLag`'s `pending`. With it the refinement is checked per step. Evaluating a replay of `link` in primed form on every transition is too slow for TLC.

| Run | Expect | Checks |
|---|---|---|
| `replication` | pass | `ReplicaConsistent` (a drained replica equals the primary); `ReplicationRefinesLag` (`ReplicaLag!Spec`: each primary change is propagated or followed by a resync, and each replica step, a replay or a snapshot load, reaches exactly the next primary dataset); `ReplicaConverges`, under `ReplFairSpec` (once the primary's dataset stops changing, the replica eventually equals it for good) |

Bounds of the `replication` run:
- one key, the root path only;
- an integer, an empty array, `i64` 2 bits wide and arrays of at most one element;
- indices −1 and 0, so ARRTRIM on `[]` panics and the restart path is taken;
- `MaxLag = 1`, so the second replicated command overflows the buffer.

That gives 10,368 states in about 56 s with coverage. `MaxLag = 2` runs out of memory under coverage. With the member path `.a` and the document `{"a":1}` added (and the empty array dropped), the run reaches 25,740 states and passes, but it takes 197 s with coverage. That leaves too little margin, and it would leave the array commands only their error paths. JSON.DEL's `deleted > 0` branch on a member path is therefore checked on one server (`core`), not on the replica.

Mutants:
- `json_set` replicating only when it creates the key breaks `ReplicaConsistent`;
- `json_clear` without `replicate_verbatim` breaks the refinement;
- `RestartFromRdb_same_id`, a primary that restarts from its RDB file without forcing a full resync, breaks `ReplicaConverges`. The replica keeps the dataset it had before the panic, the primary holds the older one from the RDB file, and nothing brings them together once the clients stop.

`ReplFairSpec` is `ReplSpec` with weak fairness on `ReplicaApply` and `SyncLoad`. The fairness is justified by the replica's event loop: it reads the master link whenever data is there, so a buffered command, or a snapshot received in full, is eventually processed. The fairness on `SyncLoad` also assumes that the link does not break on every transfer forever. Clients, BGSAVE and panics are not fair: they may or may not happen. That a full resync ends is not checked as a property of its own: `SyncLoad` is enabled for as long as a snapshot is in transfer, so its weak fairness alone gives it.

`ReplicaConverges` is `<>[][UNCHANGED docs]_docs => <>[](rdocs = docs)`: in a behaviour where the primary's dataset is eventually constant, the replica is eventually equal to it and stays so. Clients may go on sending commands that change nothing; those are still propagated and may overflow the buffer. The property combines the draining of `link` (weak fairness on `ReplicaApply`), the end of a resync (weak fairness on `SyncLoad`) and the full resync after a restart: `ReplicaConsistent` alone says nothing about a replica that is never drained.


### JSON.GET arguments

`JsonGet` takes one step per loop iteration of `json_get`. An argument is a record `[word, len]`. `word` is the upper-cased subcommand it spells, `"JSON"`, or `"other"`, because `eq_ignore_ascii_case` only asks which keyword the argument equals. `len` is its byte length, which the shortcut `arg.len() > JSONGET_SUBCOMMANDS_MAXSTRLEN` tests. `TakeOption` models `args.next_string()?` (WrongArity at the end of the arguments) and `Format::from_str` (only JSON).

| Run | Expect | Checks |
|---|---|---|
| `jsonget` | pass | `GetFastPathSound`: when the loop ends, the paths, options and error are those of `Documented`, a recursive reading of the syntax without the shortcut |

The comment at `lib.rs` 55 asks whoever adds a subcommand to add it to the list as well. The mutant drops NOESCAPE, the longest name, from the list. `NOESCAPE` is then taken for a path. The argument words cover lengths on both sides of every keyword's length (2 and 10).

### Read commands

`JsonRead` adds reply constructors (error, simple, bulk and multi-bulk) and `get_first`, the engine's first-match read. Each handler translates its Rust function: the path is required (`next_string()?`) except for RESP, a missing key is null, and MGET turns a failed read into null. `MCJsonRead` checks over the 1,789 datasets `MCRedisJSON` reaches.

| Run | Expect | Checks |
|---|---|---|
| `read_your_writes` | pass | `RepliesMatchReads`: the reply of every successful NUMINCRBY, NUMMULTBY, TOGGLE, STRAPPEND, ARRAPPEND and ARRINSERT equals MGET, STRLEN or ARRLEN of the same path right after it. This covers the legacy paths too, so `value_op`'s location and `get_first`'s must agree. Mutant: ARRAPPEND and ARRINSERT replying the number of items they added |
| `malformed_pop` | violation | `MalformedInputRefused` (in `RedisJSON`): per spec §7, an argument that does not parse changes no document. That holds for SET, NUMINCRBY, NUMMULTBY, STRAPPEND, ARRAPPEND and ARRINSERT, but not for ARRPOP. There, `next_i64().unwrap_or(-1)` makes an unparsable index pop the last element |

## 4. Not modelled, and the plan

- **A documentation mismatch, not checked.** JSON.STRLEN, TYPE, ARRLEN, OBJLEN and OBJKEYS are documented as `<key> [path]`. Their handlers read the path with `next_string()?`, so without one they reply WrongArity instead of reading the root. `JsonRead` models that guard. No run checks it: it is one guard, and a single test shows it.
- **Read commands.** JSON.ARRINDEX and JSON.DEBUG MEMORY are not modelled: their results come from `arr_index` (JSON equality over a slice) and `get_memory` in `redisjson.rs`, and the spec does not describe them. The text JSON.GET renders is the `Formatter`'s job, so `JsonGet` stops once the arguments are parsed.
- **Persistence** is modelled through `Codec` for the current encoding version only. Not modelled: the loaders of older versions and `aux_load`, whose layouts spec.md does not give. `aof_rewrite` is `None` in `REDIS_JSON_TYPE` ("TODO add support"), so an AOF rewrite cannot carry JSON keys. That behaviour belongs to the Redis server and is listed as a hazard without a property. With `aof-use-rdb-preamble`, the Redis default, a rewrite stores each key through `rdb_save`, and recovery is `rdb_load` followed by a replay of the propagated commands. That is the replica's `SyncLoad` and `ReplicaApply`, which `ReplicaConsistent` and `ReplicaConverges` check.
- **Replication** is modelled with one replica and one key. Not modelled: partial resync through the backlog, several replicas, and the `json.forget` alias of `json_del`.
- **Not modelled:**
  - JSON.SET's `FORMAT` option (only JSON exists);
  - the JSON.SET option words themselves: `RedisJSON` takes the option the loop settles on (none, NX or XX). The loop stops silently at the first word it does not know (`_ => break`, `lib.rs` 160), so a later NX or XX is ignored. This is listed as a hazard without a property;
  - wildcard paths (JSON.CLEAR handles only its first path, FIXME at `lib.rs` 811);
  - `u64` numbers outside the `u64_float` run, and the precision `f64` loses on them;
  - the cache stubs;
  - module registration;
  - the `c_api` export surface;
  - the key spec `1,1,1` of every command in the registration. JSON.MGET names several keys, but only the first is declared, so cluster slot checks and ACL key patterns see one key (a hazard without a property: slot routing and ACLs are Redis server code).

Planned next:
- the replication run with a member path, once a smaller encoding of the RDB stream makes it fast enough (see the bounds of `replication`);
- JSON.MGET over two keys in the replication run, reading the replica.
