---------------------------- MODULE LedgerRules ----------------------------
(***************************************************************************)
(* The pure part of GL posting: what a line is, when a set of lines is     *)
(* acceptable (posting_rules::validate), what a reversal does to it and    *)
(* what one line does to an account's balance.  Amounts are integers (the  *)
(* code's Decimals are exact); dimensions and texts are left out.          *)
(***************************************************************************)
EXTENDS Integers, Sequences, FiniteSets, FiniteSetsExt

CONSTANTS
    Account,         \* account ids; the integers' order is the uuids' order
    NormalDebit,     \* accounts whose normal_balance is debit
    PartyAccount     \* accounts_receivable / accounts_payable accounts

ASSUME AccountAssumption == Account \subseteq Nat /\ IsFiniteSet(Account)

\* party is "half" when only one of party_type and party_id is given.
Line == [account : Account, debit : Int, credit : Int,
         party : {"none", "half", "full"}]

\* "inactive" stands for every reason is_detail / is_header / status give to
\* refuse the account, "deleted" for a soft-deleted row.
AccountStatus == {"active", "inactive", "deleted"}

DebitTotal(ls) == SumFunction([i \in DOMAIN ls |-> ls[i].debit])
CreditTotal(ls) == SumFunction([i \in DOMAIN ls |-> ls[i].credit])

\* R1a: both sides non-negative, exactly one of them positive.
CleanLine(l) ==
    /\ l.debit >= 0 /\ l.credit >= 0
    /\ (l.debit > 0) # (l.credit > 0)

\* R6 and R3: a postable account, a party exactly on AR and AP lines.
PostableLine(l, st) ==
    /\ st[l.account] = "active"
    /\ l.party = IF l.account \in PartyAccount THEN "full" ELSE "none"

ValidLines(ls, st) ==
    /\ Len(ls) >= 2
    /\ \A i \in DOMAIN ls : CleanLine(ls[i])
    /\ DebitTotal(ls) = CreditTotal(ls)
    /\ \A i \in DOMAIN ls : PostableLine(ls[i], st)

SwapForgotten(ls) == ls        \* bug: the sides are copied as they are

\* A reversal's lines: the original journal's with the sides exchanged.
Swap(ls) == [i \in DOMAIN ls |->
    [ls[i] EXCEPT !.debit = ls[i].credit, !.credit = ls[i].debit]]

\* balance_change of the ledger row a line becomes.
Change(l) ==
    IF l.account \in NormalDebit THEN l.debit - l.credit ELSE l.credit - l.debit

\* What a whole entry does to account a.
Net(ls, a) ==
    SumFunction([i \in {j \in DOMAIN ls : ls[j].account = a} |-> Change(ls[i])])
=============================================================================
