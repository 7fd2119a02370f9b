----------------------------- MODULE MCPosting -----------------------------
(***************************************************************************)
(* Instances of Posting for TLC.  Accounts: 1 bank (debit), 2 receivable   *)
(* (debit, party), 3 revenue (credit).                                     *)
(***************************************************************************)
EXTENDS Posting, TLC

CONSTANTS c1, c2, c3, c4, k1, k2, s1, s2, p1

L(a, d, c) == [account |-> a, debit |-> d, credit |-> c,
               party |-> IF a \in PartyAccount THEN "full" ELSE "none"]

R(key, src, ls) == [key |-> key, source |-> src, kind |-> "original",
                    reverses |-> Nil, period |-> p1, lines |-> ls]

Undo(key, src, c) == [key |-> key, source |-> src, kind |-> "reversal",
                      reverses |-> c, period |-> p1, lines |-> << >>]

Sale(n) == <<L(2, n, 0), L(3, 0, n)>>
Receipt(n) == <<L(1, n, 0), L(2, 0, n)>>
Turnover(n) == <<L(1, n, 0), L(1, 0, n)>>
\* Two lines on one account.
Split == <<L(3, 0, 1), L(2, 3, 0), L(3, 0, 2)>>

SomeOpening == [a \in Account |-> a]

\* A post and a rival under its key, with lines that share no account (so only
\* the index makes them wait), a reversal of the first, and an unrelated post
\* whose lines name the accounts in the opposite order.
RivalsReq == c1 :> R(k1, s1, Split) @@ c2 :> R(k1, s1, Turnover(3)) @@
             c3 :> R(Nil, s2, Sale(2)) @@ c4 :> Undo(Nil, s1, c1)

\* A post and two reversals of it by different producers.
TwiceReq == c1 :> R(k1, s1, Sale(2)) @@ c2 :> Undo(k2, s1, c1) @@ c3 :> Undo(Nil, s1, c1)

\* A keyed and a keyless post of one source document.
MixedReq == c1 :> R(k1, s1, Sale(2)) @@ c2 :> R(Nil, s1, Receipt(3))

\* Two keyless posts of one source document, with lines that share no account,
\* and one that validation refuses.
BadReq == c1 :> R(Nil, s1, Sale(2)) @@
          c2 :> R(Nil, s1, Turnover(3)) @@
          c3 :> R(k1, s1, <<L(2, 2, 0), L(3, 0, 1)>>)

AnyEdit == {<<2, "inactive">>, <<2, "active">>, <<3, "deleted">>}
Trigger == {<<"open", "closing">>, <<"closing", "closed">>, <<"closing", "open">>,
            <<"closed", "open">>, <<"closed", "locked">>}
=============================================================================
