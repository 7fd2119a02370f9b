-------------------------- MODULE MCReconcileGraph --------------------------
(***************************************************************************)
(* Instances of ReconcileGraph for TLC.                                    *)
(***************************************************************************)
EXTENDS ReconcileGraph, TLC

CONSTANTS s1, s2

\* Two debits and two credits of one account: 1 and 2 settle 3 between them,
\* and 4 is the reversal of 1.
Debits == {1, 2}
Faces == (1 :> 1 @@ 2 :> 1 @@ 3 :> 2 @@ 4 :> 1)
Pairs == {1, 2} \X {3, 4}
Reversals == (1 :> 4 @@ 2 :> Nil @@ 3 :> Nil @@ 4 :> 1)
=============================================================================
