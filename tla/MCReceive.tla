----------------------------- MODULE MCReceive -----------------------------
(***************************************************************************)
(* A small instance of Receive: a full backup and an incremental, or any   *)
(* other relation of two manifests.  With a window of 3 the byte budget    *)
(* allows 3 chunks of the first stream and, but for the floor of two, only *)
(* 1 of the second.                                                        *)
(***************************************************************************)
EXTENDS Receive

TwoSnaps == 1 .. 2
TwoCounts == <<4, 3>>
TwoSizes == <<64, 512>>
=============================================================================
