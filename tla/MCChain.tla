------------------------------ MODULE MCChain ------------------------------
(***************************************************************************)
(* Small instances of Chain.                                               *)
(***************************************************************************)
EXTENDS Chain, TLC

ThreeSnaps == 1 .. 3
OneDataset == [x \in ThreeSnaps |-> 1]
Kept == 1 :> {"data"}
Renamed == 1 :> {"data", "old"}

TwoDatasets == 1 :> 1 @@ 2 :> 2 @@ 3 :> 1
KeptBoth == 1 :> {"data"} @@ 2 :> {"home"}

Symmetry == Permutations(Expirers)

Counting ==
  {[older_than |-> FALSE, keep_last |-> 1], [older_than |-> TRUE, keep_last |-> None],
   [older_than |-> FALSE, keep_last |-> 0], [older_than |-> TRUE, keep_last |-> 2]}
=============================================================================
