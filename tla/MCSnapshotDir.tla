---------------------------- MODULE MCSnapshotDir ----------------------------
(***************************************************************************)
(* Small instances of SnapshotDir.  The full stream is 5 bytes, the        *)
(* incremental 4: cut by 2 and 3 they give chunk sizes that coincide       *)
(* (2,2,1 / 3,2 / 2,2) under bytes that differ.                            *)
(***************************************************************************)
EXTENDS SnapshotDirInv

MCStreamBytes(from, flags) == IF from = "none" THEN 5 ELSE 4

Full2 == [from |-> "none", flags |-> "c", chunk_size |-> 2]
Full3 == [from |-> "none", flags |-> "c", chunk_size |-> 3]
Incr2 == [from |-> "base", flags |-> "c", chunk_size |-> 2]

MCParams == {Full2, Full3, Incr2}
MCTwoParams == {Full3, Incr2}
=============================================================================
