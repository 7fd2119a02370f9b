--------------------------- MODULE SettlementMoves ---------------------------
(***************************************************************************)
(* What a reconciled pair makes ReconcileWriteService post: the exchange   *)
(* difference when rates differ, and the flip of the tax a document        *)
(* deferred until it is paid.  Each is a journal and a derived partial     *)
(* that hangs on the partial of the pair; unlinking the pair takes the     *)
(* derived partials out and reverses the journals.                         *)
(*                                                                         *)
(* Whoever touches a document's partials holds its receivable line, so a   *)
(* verb is one step here; ReconcileGraph has the locks and the groups.     *)
(* Amounts are cents; a document has one deferral and one receivable line, *)
(* as the port of deferred tax requires.                                   *)
(***************************************************************************)
EXTENDS Integers, FiniteSets, FiniteSetsExt

CONSTANTS
    Invoice, Payment,   \* debit and credit lines of one receivable account
    Base,               \* their face in the company currency
    Rate,               \* exchange_rate of each
    Tax,                \* what its document deferred, 0 for none
    Month,              \* of its date
    HasFxAccount,       \* exchange_account_id is configured
    Request,            \* amounts asked for
    Unlinkable,         \* kinds of partials that callers unlink by id
    MaxLinks            \* bound: pairs ever linked

\* A line has one side, a face and a rate; Month and Rate are only compared.
ASSUME MoveAssumption ==
    /\ Invoice \cap Payment = {}
    /\ \A l \in Invoice \cup Payment : Base[l] \in Nat \ {0} /\ Tax[l] \in Nat
    /\ \A n \in Request : n \in Int

VARIABLES
    partials,    \* partial_reconciles: of is the pair's, also in derived ones
    generated,   \* journals posted for them
    reversed,    \* those whose reversal is posted
    shut,        \* months of closed or locked periods
    links        \* pairs linked so far

moveVars == <<partials, generated, reversed, shut, links>>

Document == Invoice \cup Payment

MoveInit ==
    /\ partials = {} /\ generated = {} /\ reversed = {}
    /\ shut = {} /\ links = 0

Total(S) == SumFunction([p \in S |-> p.amount])

\* round2, half away from zero.
Round(n, m) == (2 * n + m) \div (2 * m)

\* residuals_of: on the receivable line, and what is flipped of its deferral.
Left(P, l) == Base[l] - Total({p \in P : p.kind # "tax" /\ l \in p.lines})
Flipped(P, l) == Total({p \in P : p.kind = "tax" /\ l \in p.lines})

\* The line that keeps just the rate delta while the other one is used up.
Keeps(P, d, c, applied) ==
    LET hi == Max({Rate[d], Rate[c]})
        lo == Min({Rate[d], Rate[c]})
    IN  {l \in {d, c} : /\ hi # lo
                        /\ \A k \in {d, c} \ {l} : Left(P, k) = 0
                        /\ Left(P, l) > 0
                        /\ Left(P, l) = Round(applied * (hi - lo), lo)}

FlipByRatio(P, l, applied) ==  \* bug: each payment flips its own share
    Round(Tax[l] * applied, Base[l])

\* The anchored cumulative flip: up to the share that is paid now, from what
\* was really flipped.
Flip(P, l, applied) ==
    Round(Tax[l] * (Base[l] - Left(P, l) + applied), Base[l]) - Flipped(P, l)

\* reconcile_pair_on, with post_exchange_move and post_cash_basis_move.
LinkPair(d, c, n) ==
    LET applied == Min({n, Left(partials, d), Left(partials, c)})
        pair == [of |-> links + 1, kind |-> "pair", lines |-> {d, c}, amount |-> applied]
        linked == partials \cup {pair}
        moves ==
            {[of |-> links + 1, kind |-> "exchange", lines |-> {l}, amount |-> Left(linked, l)] :
                l \in Keeps(linked, d, c, applied)} \cup
            {[of |-> links + 1, kind |-> "tax", lines |-> {l}, amount |-> Flip(partials, l, applied)] :
                l \in {k \in {d, c} : Flip(partials, k, applied) > 0}}
    IN  /\ links < MaxLinks
        /\ applied > 0
        /\ moves # {} => Max({Month[d], Month[c]}) \notin shut
        /\ (\E m \in moves : m.kind = "exchange") => HasFxAccount
        /\ partials' = linked \cup moves
        /\ generated' = generated \cup moves
        /\ links' = links + 1
        /\ UNCHANGED <<reversed, shut>>

\* A pair takes its derived partials with it.
MoveClosure(S) ==
    S \cup {p \in partials : \E q \in S : q.kind = "pair" /\ p.of = q.of}

UnlinkMovesExchangeOnly(S) ==  \* bug: exchange_move_id is all that is reversed
    /\ partials' = partials \ MoveClosure(S)
    /\ reversed' = reversed \cup
           {j \in generated : j.kind = "exchange" /\ \E q \in S : q.kind = "pair" /\ j.of = q.of}
    /\ UNCHANGED <<generated, shut, links>>

\* unlink_partials_with_actor: a journal is stamped with the pair it was
\* generated for, so only pairs have journals to reverse; today's period is
\* not asked for.
UnlinkMoves(S) ==
    /\ partials' = partials \ MoveClosure(S)
    /\ reversed' = reversed \cup
           {j \in generated : \E q \in S : q.kind = "pair" /\ j.of = q.of}
    /\ UNCHANGED <<generated, shut, links>>

\* unreconcile_on and unreconcile_pair_on.
UnlinkOne(p) == p.kind \in Unlinkable /\ UnlinkMoves({p})
UnlinkBetween(d, c) ==
    LET S == {p \in partials : p.kind = "pair" /\ p.lines = {d, c}}
    IN  S # {} /\ UnlinkMoves(S)

ShutMonth(m) ==
    /\ m \notin shut
    /\ shut' = shut \cup {m}
    /\ UNCHANGED <<partials, generated, reversed, links>>

MoveNext ==
    \/ \E d \in Invoice, c \in Payment :
          (\E n \in Request : LinkPair(d, c, n)) \/ UnlinkBetween(d, c)
    \/ \E p \in partials : UnlinkOne(p)
    \/ \E l \in Document : ShutMonth(Month[l])

MoveSpec == MoveInit /\ [][MoveNext]_moveVars

-----------------------------------------------------------------------------
\* "Flips telescope to the face at full settlement" and never exceed it, across
\* cent drift, unlinked and replaced payments.
TaxFollowsPayment ==
    \A l \in Document :
        /\ Flipped(partials, l) \in 0..Tax[l]
        /\ Total({p \in partials : p.kind = "pair" /\ l \in p.lines}) = Base[l]
               => Flipped(partials, l) = Tax[l]

\* AF12, "never a bare DELETE": what the generated journals and their reversals
\* leave on the tax and exchange accounts is what the live partials say.
BooksFollowPartials ==
    \A l \in Document, k \in {"tax", "exchange"} :
        LET About(S) == {x \in S : x.kind = k /\ l \in x.lines}
        IN  Total(About(generated)) - Total(About(reversed)) = Total(About(partials))

\* "Sigma flips telescopes to the face at full settlement": the tax posted to
\* the real account for a document is never more than it deferred.
TaxNeverTwice ==
    \A l \in Document :
        LET About(S) == {x \in S : x.kind = "tax" /\ l \in x.lines}
        IN  Total(About(generated)) - Total(About(reversed)) <= Tax[l]
=============================================================================
