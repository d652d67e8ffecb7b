------------------------------- MODULE Backup -------------------------------
(***************************************************************************)
(* What a snapshot directory promises its readers: at any time it holds no *)
(* backup or one whole backup, a send stores one where there was none and  *)
(* only an expiry drops it.                                                *)
(***************************************************************************)
CONSTANT Params   \* the ways a snapshot can be archived
VARIABLE stored   \* <<>>, or <<p>> when the backup of stream p is archived

Init == stored = <<>>

Store(p) == stored = <<>> /\ stored' = <<p>>

Drop == (\E p \in Params : stored = <<p>>) /\ stored' = <<>>

Next == (\E p \in Params : Store(p)) \/ Drop

Spec == Init /\ [][Next]_stored
=============================================================================
