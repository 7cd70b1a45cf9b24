----------------------------- MODULE ReplicaLag -----------------------------
(***************************************************************************)
(* What Redis replication promises of a replica, abstractly: the replica  *)
(* goes through the primary's datasets in the primary's order, one after  *)
(* another, and catches up with exactly the primary.  `pending` is the    *)
(* sequence of primary datasets the replica has still to reach; its last  *)
(* element is the primary's dataset now.                                   *)
(*                                                                         *)
(*   Write   the primary executes a command that is propagated            *)
(*   Apply   the replica reaches the next pending dataset                 *)
(*   Resync  replication restarts from a snapshot of the primary (after   *)
(*           a restart, a broken link or an overflowing buffer)           *)
(* A primary step that changes the dataset and is none of these is not    *)
(* allowed: the replica would never see it.                               *)
(***************************************************************************)
EXTENDS Sequences, SequencesExt

CONSTANT Initial   \* the dataset both start with

VARIABLES primary, pending, replica

lagVars == <<primary, pending, replica>>

Init ==
  /\ primary = Initial
  /\ pending = <<>>
  /\ replica = Initial

Write ==
  /\ pending' = Append(pending, primary')
  /\ UNCHANGED replica

Apply ==
  /\ pending # <<>>
  /\ replica' = Head(pending)
  /\ pending' = Tail(pending)
  /\ UNCHANGED primary

Resync ==
  /\ pending' = <<primary'>>
  /\ UNCHANGED replica

Next == Write \/ Apply \/ Resync

Spec == Init /\ [][Next]_lagVars

\* The replica, once it has reached every pending dataset, equals the primary.
Consistent == IF pending = <<>> THEN replica = primary ELSE Last(pending) = primary
=============================================================================
