----------------------------- MODULE Replication ----------------------------
(***************************************************************************)
(* A RedisJSON primary with one replica, and the primary's RDB file.       *)
(*                                                                         *)
(* A write handler that calls replicate_verbatim has its command, as the  *)
(* client sent it, appended to the replica's stream (`link`, FIFO, at     *)
(* most MaxLag commands: past that client-output-buffer-limit disconnects *)
(* the replica).  The replica executes the commands of the stream with    *)
(* the same handlers, in order.  A full resync sends a snapshot written   *)
(* by rdb_save at the time of the fork (`sync`); the commands executed    *)
(* after it wait in `link` until the replica has loaded it with rdb_load. *)
(* A link that breaks during the transfer abandons the diskless load (the *)
(* module sets REDISMODULE_OPTIONS_HANDLE_IO_ERRORS in init) and a new    *)
(* snapshot is taken.  BGSAVE writes the RDB file; a primary that         *)
(* panicked restarts from it and resyncs its replica.                     *)
(***************************************************************************)
EXTENDS RedisJSON, Codec

CONSTANTS
  MaxLag,   \* bound: the replica output buffer holds at most MaxLag commands
  NoSync    \* model value: no full resync in progress

VARIABLES
  rdocs,    \* the replica's dataset
  link,     \* commands propagated to the replica and not yet executed by it
  rdb,      \* the primary's RDB file: per key, the rdb_save output
  sync,     \* the snapshot of a full resync in transfer, or NoSync
  shadow    \* history variable, no code state: the primary datasets the
            \* replica has still to reach, recorded as the primary makes them

replVars == <<docs, up, rdocs, link, rdb, sync, shadow>>

(***************************************************************************)
(* rdb_save and rdb_load for every key holding a JSON document.           *)
(***************************************************************************)
SaveDataset(d) == [k \in Keys |-> IF d[k] = NoDoc THEN <<>> ELSE Encode(d[k])]
LoadDataset(f) == [k \in Keys |-> IF f[k] = <<>> THEN NoDoc ELSE Decode(f[k]).v]
Loadable(f)    == \A k \in Keys : f[k] # <<>> => Decode(f[k]).ok

(***************************************************************************)
(* The commands a client can send, as records [op, k, p, a, b], and the   *)
(* handler each runs (the command table of lib.rs).                       *)
(***************************************************************************)
Cmd(op, k, p, a, b) == [op |-> op, k |-> k, p |-> p, a |-> a, b |-> b]

Exec(c, d) ==
  CASE c.op = "json.set"       -> json_set(d, c.k, c.p, c.a, c.b)
    [] c.op = "json.del"       -> json_del(d, c.k, c.p)
    [] c.op = "json.numincrby" -> json_num_incrby(d, c.k, c.p, c.a)
    [] c.op = "json.nummultby" -> json_num_multby(d, c.k, c.p, c.a)
    [] c.op = "json.toggle"    -> json_bool_toggle(d, c.k, c.p)
    [] c.op = "json.strappend" -> json_str_append(d, c.k, c.p, c.a)
    [] c.op = "json.arrappend" -> json_arr_append(d, c.k, c.p, c.a)
    [] c.op = "json.arrinsert" -> json_arr_insert(d, c.k, c.p, c.b, c.a)
    [] c.op = "json.arrpop"    -> json_arr_pop(d, c.k, c.p, c.b)
    [] c.op = "json.arrtrim"   -> json_arr_trim(d, c.k, c.p, c.a, c.b)
    [] c.op = "json.clear"     -> json_clear(d, c.k, c.p)

SetCmds    == {Cmd("json.set", k, p, j, o) : k \in Keys, p \in PathArgs, j \in SetArgs, o \in SetOpts}
DelCmds    == {Cmd("json.del", k, p, NoArg, NoArg) : k \in Keys, p \in OptPathArgs}
NumCmds    == {Cmd(op, k, p, n, NoArg) : op \in {"json.numincrby", "json.nummultby"},
                                          k \in Keys, p \in PathArgs, n \in NumArgs}
ToggleCmds == {Cmd("json.toggle", k, p, NoArg, NoArg) : k \in Keys, p \in PathArgs}
StrCmds    == {Cmd("json.strappend", k, p, s, NoArg) : k \in Keys, p \in OptPathArgs, s \in StrArgs}
AppendCmds == {Cmd("json.arrappend", k, p, is, NoArg) : k \in Keys, p \in PathArgs, is \in ItemArgs}
InsertCmds == {Cmd("json.arrinsert", k, p, is, i) : k \in Keys, p \in PathArgs,
                                                    is \in ItemArgs, i \in IndexArgs}
PopCmds    == {Cmd("json.arrpop", k, pi[1], NoArg, pi[2]) : k \in Keys, pi \in PopArgs}
TrimCmds   == {Cmd("json.arrtrim", k, p, i, j) : k \in Keys, p \in PathArgs, i, j \in IndexArgs}
ClearCmds  == {Cmd("json.clear", k, p, NoArg, NoArg) : k \in Keys, p \in OptPathArgs}

(***************************************************************************)
(* The primary executes command c, whose handler returned r.  If the      *)
(* handler called replicate_verbatim the command joins the replica's      *)
(* stream; a full stream disconnects the replica, which resyncs from a    *)
(* snapshot taken after the command.                                       *)
(***************************************************************************)
PrimaryCommand(c, r) ==
      /\ Run(r)
      /\ IF r.replicate /\ ~r.panic
         THEN IF Len(link) < MaxLag
              THEN /\ link' = Append(link, c) /\ UNCHANGED sync
                   /\ shadow' = Append(shadow, r.docs)
              ELSE /\ link' = <<>> /\ sync' = SaveDataset(r.docs)
                   /\ shadow' = <<r.docs>>
         ELSE UNCHANGED <<link, sync, shadow>>
      /\ UNCHANGED <<rdocs, rdb>>

\* The replica executes the next propagated command.
ReplicaApply ==
  /\ sync = NoSync
  /\ link # <<>>
  /\ rdocs' = Exec(Head(link), rdocs).docs
  /\ link' = Tail(link)
  /\ shadow' = Tail(shadow)
  /\ UNCHANGED <<docs, up, rdb, sync>>

\* The replica has received the whole snapshot and loads it.
SyncLoad ==
  /\ sync # NoSync
  /\ Loadable(sync)
  /\ rdocs' = LoadDataset(sync)
  /\ sync' = NoSync
  /\ shadow' = Tail(shadow)
  /\ UNCHANGED <<docs, up, link, rdb>>

\* The link breaks during the transfer: the replica keeps its dataset and
\* the primary starts over from a new snapshot.
SyncDrop ==
  /\ sync # NoSync
  /\ up
  /\ sync' = SaveDataset(docs)
  /\ link' = <<>>
  /\ shadow' = <<docs>>
  /\ UNCHANGED <<docs, up, rdocs, rdb>>

BgSave ==
  /\ up
  /\ rdb' = SaveDataset(docs)
  /\ UNCHANGED <<docs, up, rdocs, link, sync, shadow>>

\* Variant: a primary that comes back from its RDB file under the same
\* replication id, so that the replica goes on with the stream it had.
RestartFromRdb_same_id ==
  /\ ~up
  /\ Loadable(rdb)
  /\ up' = TRUE
  /\ docs' = LoadDataset(rdb)
  /\ link' = <<>>
  /\ shadow' = <<LoadDataset(rdb)>>
  /\ UNCHANGED <<rdocs, rdb, sync>>

\* The primary comes back from a panic with the RDB file, under a new
\* replication id: its replica resyncs in full.
RestartFromRdb ==
  /\ ~up
  /\ Loadable(rdb)
  /\ up' = TRUE
  /\ docs' = LoadDataset(rdb)
  /\ link' = <<>>
  /\ sync' = SaveDataset(LoadDataset(rdb))
  /\ shadow' = <<LoadDataset(rdb)>>
  /\ UNCHANGED <<rdocs, rdb>>

ReplInit ==
  /\ Init
  /\ rdocs = EmptyDataset
  /\ link = <<>>
  /\ rdb = SaveDataset(EmptyDataset)
  /\ sync = NoSync
  /\ shadow = <<>>

ReplNext ==
  \/ \E c \in SetCmds : PrimaryCommand(c, json_set(docs, c.k, c.p, c.a, c.b))
  \/ \E c \in DelCmds : PrimaryCommand(c, json_del(docs, c.k, c.p))
  \/ \E c \in NumCmds : PrimaryCommand(c, json_num_op(docs, c.k, c.p, c.a,
                                         IF c.op = "json.numincrby" THEN "add" ELSE "mul"))
  \/ \E c \in ToggleCmds : PrimaryCommand(c, json_bool_toggle(docs, c.k, c.p))
  \/ \E c \in StrCmds : PrimaryCommand(c, json_str_append(docs, c.k, c.p, c.a))
  \/ \E c \in AppendCmds : PrimaryCommand(c, json_arr_append(docs, c.k, c.p, c.a))
  \/ \E c \in InsertCmds : PrimaryCommand(c, json_arr_insert(docs, c.k, c.p, c.b, c.a))
  \/ \E c \in PopCmds : PrimaryCommand(c, json_arr_pop(docs, c.k, c.p, c.b))
  \/ \E c \in TrimCmds : PrimaryCommand(c, json_arr_trim(docs, c.k, c.p, c.a, c.b))
  \/ \E c \in ClearCmds : PrimaryCommand(c, json_clear(docs, c.k, c.p))
  \/ ReplicaApply \/ SyncLoad \/ SyncDrop \/ BgSave \/ RestartFromRdb

ReplSpec == ReplInit /\ [][ReplNext]_replVars

(***************************************************************************)
(* The replica's event loop reads its master link whenever data is        *)
(* there: a command at the head of the stream is eventually executed and *)
(* a snapshot received in full is eventually loaded.  The fairness on     *)
(* SyncLoad also assumes that the link does not break during every       *)
(* transfer forever.  Clients, BGSAVE and panics are not fair: they may  *)
(* happen or not.                                                          *)
(***************************************************************************)
ReplFairSpec ==
  /\ ReplSpec
  /\ WF_replVars(ReplicaApply)
  /\ WF_replVars(SyncLoad)

-----------------------------------------------------------------------------
\* Refinement mapping: pending is the recorded history of primary datasets.
Lag == INSTANCE ReplicaLag WITH
         Initial <- EmptyDataset, primary <- docs, pending <- shadow, replica <- rdocs

(***************************************************************************)
(* A replica that has executed every propagated command, with no full     *)
(* resync in progress, holds exactly the primary's dataset.  It takes a   *)
(* command that changes a document without replicate_verbatim, or a      *)
(* command that acts otherwise when the replica replays it, to break     *)
(* this.                                                                   *)
(***************************************************************************)
ReplicaConsistent == sync = NoSync /\ link = <<>> => rdocs = docs

(***************************************************************************)
(* Every behaviour of primary, stream, snapshots, RDB file and restarts   *)
(* is one of ReplicaLag: each change of the primary's dataset is          *)
(* propagated or followed by a resync, and every step of the replica      *)
(* (replaying a command, loading a snapshot) takes it to exactly the next *)
(* dataset the primary went through, in the primary's order.              *)
(***************************************************************************)
ReplicationRefinesLag == Lag!Spec

(***************************************************************************)
(* Once the primary's dataset stops changing (clients may still send      *)
(* commands that change nothing, BGSAVE may run), the replica eventually *)
(* holds that dataset for good: the stream drains, a pending resync       *)
(* loads, and a restart of the primary from an older RDB file is always   *)
(* followed by a full resync rather than a replay of the old stream.      *)
(***************************************************************************)
ReplicaConverges == <>[][UNCHANGED docs]_docs => <>[](rdocs = docs)
=============================================================================
