--------------------------- MODULE MCPeriodClose ---------------------------
(***************************************************************************)
(* Instances of PeriodClose for TLC: one revenue and one expense account.  *)
(***************************************************************************)
EXTENDS PeriodClose, TLC

CONSTANTS c1, c2, c3, a1, a2, w1, w2, rev, exp

\* a1 reopens, a2 locks.
Verbs == (a1 :> "reopen" @@ a2 :> "lock")

\* A sale, and a refund of what the period has spent so far: the period may be
\* without any P&L activity once it has landed.
Sales == [w \in Writer |->
    IF w = w1 THEN rev :> 1 @@ exp :> 0 ELSE rev :> 0 @@ exp :> -2]
SomeLoss == (rev :> 0 @@ exp :> 2)
=============================================================================
