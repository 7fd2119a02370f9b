------------------------------- MODULE Reports -------------------------------
(***************************************************************************)
(* ReportingService: trial balance with its tree, balance sheet, income    *)
(* statement, general ledger, and the open items of partner ledger and     *)
(* aging.  The reports are operators: the statements read the ledger by    *)
(* posting date, the open items read the lines of journals, posted or not, *)
(* by transaction date.  The state machine only makes what they read:      *)
(* entries come in any order of their dates, manual journals are drafted   *)
(* and posted later or never, lines are linked and unlinked, accounts are  *)
(* moved in the chart and deleted.                                         *)
(***************************************************************************)
EXTENDS Integers, Sequences, FiniteSets, FiniteSetsExt

CONSTANTS
    Ledger,       \* detail accounts
    Header,       \* accounts above them
    NoAccount,
    TypeOf,       \* account_type of detail accounts
    Parents,      \* places in the chart that accounts move to: <<account, parent>>
    Deletable,    \* accounts that are soft-deleted
    Entries,      \* balanced journals: [transaction, date, debit, credit, amount], by
                  \* transaction_date and posting_date
    Drafts,       \* those of them that are drafted before they are posted
    Receivable,   \* the account whose lines are linked
    Dates

\* An entry is between two accounts, so a line of an account is one entry.  Only
\* the header of a manual journal has two dates.
ASSUME EntryAssumption ==
    /\ IsFiniteSet(Dates) /\ Dates # {} /\ \A d \in Dates : d \in Nat
    /\ \A e \in Entries :
          /\ e.date \in Dates /\ e.transaction \in Dates
          /\ e.debit # e.credit /\ e.amount \in Nat \ {0}
    /\ Drafts \subseteq Entries
    /\ \A e \in Entries \ Drafts : e.transaction = e.date

\* Lines are on detail accounts of the five types; the directory is finite.
ASSUME DirectoryAssumption ==
    /\ IsFiniteSet(Ledger) /\ IsFiniteSet(Header) /\ NoAccount \notin Ledger \cup Header
    /\ \A a \in Ledger : TypeOf[a] \in {"asset", "liability", "equity", "revenue", "expense"}
    /\ \A e \in Entries : e.debit \in Ledger /\ e.credit \in Ledger
    /\ Parents \subseteq (Ledger \cup Header) \X (Ledger \cup Header \cup {NoAccount})

VARIABLES
    journals,     \* entries whose journal and lines are stored, in any status
    posted,       \* entries in the ledger, in the order of their sequence numbers
    linked,       \* partials of receivable lines: [debit, credit, amount, max_date]
    parent,       \* accounts.parent_id
    deleted       \* soft-deleted accounts

reportVars == <<journals, posted, linked, parent, deleted>>

Node == Ledger \cup Header

ReportInit ==
    /\ journals = {}
    /\ posted = << >>
    /\ linked = {}
    /\ parent = [a \in Node |-> NoAccount]
    /\ deleted = {}

InLedger == {posted[i] : i \in DOMAIN posted}

\* Validation and the lock of the accounts both leave out deleted ones.
OnLiveAccounts(e) == {e.debit, e.credit} \cap deleted = {}

\* A post writes journal, lines and ledger rows in one transaction.
PostEntry(e) ==
    /\ e \notin Drafts \cup journals /\ OnLiveAccounts(e)
    /\ journals' = journals \cup {e}
    /\ posted' = Append(posted, e)
    /\ UNCHANGED <<linked, parent, deleted>>

\* A manual journal has its lines from the start, and keeps them when it is
\* rejected or cancelled.
DraftJournal(e) ==
    /\ e \in Drafts \ journals
    /\ journals' = journals \cup {e}
    /\ UNCHANGED <<posted, linked, parent, deleted>>

\* post_journal writes the ledger rows of lines already there.
PostJournal(e) ==
    /\ e \in journals \ InLedger /\ OnLiveAccounts(e)
    /\ posted' = Append(posted, e)
    /\ UNCHANGED <<journals, linked, parent, deleted>>

\* A line is named by its entry: the receivable is on one side of it.
LinkedTo(e, asOf) ==
    SumFunction([p \in {q \in linked : q.max_date <= asOf /\ e \in {q.debit, q.credit}}
                    |-> p.amount])

\* as_of_residual_expr.
ResidualAsOf(e, asOf) == e.amount - LinkedTo(e, asOf)

MaxDateOfDebit(d, c) == d.transaction \* bug: the link is dated by the invoice

\* max_date: a link settles when the later of its lines is there.
MaxDate(d, c) == Max({d.transaction, c.transaction})

LinkEntries(d, c) ==
    LET amount == Min({ResidualAsOf(d, Max(Dates)), ResidualAsOf(c, Max(Dates))}) IN
    /\ d.debit = Receivable /\ c.credit = Receivable
    /\ Receivable \notin deleted /\ amount > 0
    /\ linked' = linked \cup
           {[debit |-> d, credit |-> c, amount |-> amount, max_date |-> MaxDate(d, c)]}
    /\ UNCHANGED <<journals, posted, parent, deleted>>

\* An unlink deletes a set of partials at once.
UnlinkEntries(P) ==
    /\ linked' = linked \ P
    /\ UNCHANGED <<journals, posted, parent, deleted>>

MoveAccount(a, p) ==
    /\ parent' = [parent EXCEPT ![a] = p]
    /\ UNCHANGED <<journals, posted, linked, deleted>>

DeleteAccount(a) ==
    /\ deleted' = deleted \cup {a}
    /\ UNCHANGED <<journals, posted, linked, parent>>

ReportNext ==
    \/ \E e \in Entries : PostEntry(e) \/ DraftJournal(e) \/ PostJournal(e)
    \/ \E d, c \in InLedger : LinkEntries(d, c)
    \/ \E P \in SUBSET linked : UnlinkEntries(P)
    \/ \E m \in Parents : MoveAccount(m[1], m[2])
    \/ \E a \in Deletable : DeleteAccount(a)

ReportSpec == ReportInit /\ [][ReportNext]_reportVars

-----------------------------------------------------------------------------
(* The reports.                                                            *)

Amount(S) == SumFunction([e \in S |-> e.amount])

\* account_sums of a live detail account.
Net(a, lo, hi) ==
    LET window == {e \in InLedger : e.date \in lo..hi}
    IN  Amount({e \in window : e.debit = a}) - Amount({e \in window : e.credit = a})

Positive(n) == IF n > 0 THEN n ELSE 0

\* trial_balance, flat.
Live == Ledger \ deleted
TotalDebit(asOf) == SumFunction([a \in Live |-> Positive(Net(a, 0, asOf))])
TotalCredit(asOf) == SumFunction([a \in Live |-> Positive(-Net(a, 0, asOf))])

\* The k-th account above a in the directory, which omits deleted ones.
Above(a, k) ==
    LET up[n \in 0..k] ==
          IF n = 0 THEN a
          ELSE IF up[n - 1] = NoAccount THEN NoAccount
          ELSE IF parent[up[n - 1]] \in deleted THEN NoAccount
          ELSE parent[up[n - 1]]
    IN  up[k]

\* trial_balance_tree: every detail adds to each account on its way up, for as
\* many steps as the directory has accounts and one.
Visits(d, a) ==
    Cardinality({k \in 1..(Cardinality(Node \ deleted) + 1) : Above(d, k) = a})

RolledUp(a, value) ==
    (IF a \in Live THEN value[a] ELSE 0) +
    SumFunction([d \in Live |-> Visits(d, a) * value[d]])

Roots == {a \in Node \ deleted : parent[a] = NoAccount}

\* balance_sheet: assets, and what is against them.
Side(types, asOf) ==
    SumFunction([a \in {x \in Live : TypeOf[x] \in types} |-> Net(a, 0, asOf)])
Assets(asOf) == Side({"asset"}, asOf)
LiabilitiesAndEquity(asOf) == -Side({"liability", "equity", "revenue", "expense"}, asOf)

\* income_statement of a window.
NetIncome(lo, hi) ==
    -SumFunction([a \in {x \in Live : TypeOf[x] \in {"revenue", "expense"}}
                     |-> Net(a, lo, hi)])

-----------------------------------------------------------------------------
(* The general ledger of one account.                                      *)

\* The order of every read; the sequence number decides within a date.
InDateOrder(i, j) ==
    \/ posted[i].date < posted[j].date
    \/ posted[i].date = posted[j].date /\ i < j

GLRows(a) == {i \in DOMAIN posted : a \in {posted[i].debit, posted[i].credit}}
Signed(a, i) == IF posted[i].debit = a THEN posted[i].amount ELSE -posted[i].amount

StoredBefore(a, i) ==          \* bug: the running balance of the row is read
    SumFunction([j \in {k \in GLRows(a) : k < i} |-> Signed(a, j)])

\* The running balance is computed in the order of the read.
BalanceBefore(a, i) ==
    SumFunction([j \in {k \in GLRows(a) : InDateOrder(k, i)} |-> Signed(a, j)])

\* gl_lines of a window, and its n-th row.
Window(a, lo, hi) == {i \in GLRows(a) : posted[i].date \in lo..hi}
Nth(rows, n) ==
    CHOOSE i \in rows : Cardinality({j \in rows : InDateOrder(j, i)}) = n - 1

\* A section opens before its first row and closes after its last one.
Opening(a, rows) == BalanceBefore(a, Nth(rows, 1))
Closing(a, rows) ==
    LET last == Nth(rows, Cardinality(rows)) IN BalanceBefore(a, last) + Signed(a, last)

-----------------------------------------------------------------------------
(* Open items of the one party.                                            *)

\* journal_lines JOIN journals: of any status, by transaction date.
Items(asOf) ==
    {e \in journals : e.transaction <= asOf /\ Receivable \in {e.debit, e.credit}}
Residuals(S, asOf) == SumFunction([e \in S |-> ResidualAsOf(e, asOf)])

\* partner_ledger adds up every line, aged_report those with a residual; both
\* without the side of the line.
OpenResidual(asOf) == Residuals(Items(asOf), asOf)
AgedTotal(asOf) == Residuals({e \in Items(asOf) : ResidualAsOf(e, asOf) > 0}, asOf)

-----------------------------------------------------------------------------
\* No cycle of parents, and no deleted account that still has ledger rows or
\* live accounts below it.
WholeChart ==
    /\ \A a \in Node : Above(a, Cardinality(Node)) = NoAccount
    /\ \A a \in deleted :
          /\ \A e \in InLedger : a \notin {e.debit, e.credit}
          /\ \A b \in Node \ deleted : parent[b] # a

\* "A backdated posting makes the stored columns inconsistent with any
\* date-ordered read": whatever was backdated, the general ledger of a window
\* opens and closes on the balances of its dates, and wherever it is cut into
\* pages the next one opens where the last one closed.
LedgerPagesChain ==
    \A a \in Ledger, lo, hi \in Dates :
        LET rows == Window(a, lo, hi)
            size == Cardinality(rows)
            Page(m, n) == {Nth(rows, k) : k \in m..n}
        IN  size > 0 =>
              /\ Opening(a, rows) = Net(a, 0, lo - 1)
              /\ Closing(a, rows) = Net(a, 0, hi)
              /\ \A cut \in 1..(size - 1) :
                    Closing(a, Page(1, cut)) = Opening(a, Page(cut + 1, size))

\* "A Trial Balance always foots and a Balance Sheet always balances", at every
\* date; the roots of the tree add up to the flat totals and the earnings of
\* the windows to those of the sheet.
StatementsAgree ==
    posted # << >> /\ WholeChart => \A asOf \in Dates :
        LET debit == [a \in Live |-> Positive(Net(a, 0, asOf))]
            credit == [a \in Live |-> Positive(-Net(a, 0, asOf))]
        IN  /\ TotalDebit(asOf) = TotalCredit(asOf)
            /\ Assets(asOf) = LiabilitiesAndEquity(asOf)
            /\ SumFunction([r \in Roots |-> RolledUp(r, debit)]) = TotalDebit(asOf)
            /\ SumFunction([r \in Roots |-> RolledUp(r, credit)]) = TotalCredit(asOf)
            /\ \A mid \in Dates : mid < asOf =>
                  NetIncome(0, mid) + NetIncome(mid + 1, asOf) = NetIncome(0, asOf)

\* Every report over the ledger tells the same story, in whatever order the
\* entries came.
ReportsAgree == StatementsAgree /\ LedgerPagesChain

\* Lines of journals that are posted under a later date, or not at all; lines with
\* a ledger row of the date, of journals with a later date; what lines come to.
NotYetBooked(asOf) ==
    {e \in journals : /\ Receivable \in {e.debit, e.credit} /\ e.transaction <= asOf
                      /\ e \in InLedger => e.date > asOf}
BookedBefore(asOf) ==
    {e \in InLedger : Receivable \in {e.debit, e.credit} /\ e.date <= asOf /\ asOf < e.transaction}
OnReceivable(S) ==
    Amount({e \in S : e.debit = Receivable}) - Amount({e \in S : e.credit = Receivable})

\* "Computes every report from the immutable ledger" is not so of the open items,
\* which take unposted journals and another date.  They differ from the ledger by
\* that and by nothing else: at every date, debit residuals less credit residuals
\* are the balance of the receivable, plus the lines not yet booked, less those
\* booked before.  Links take the same from either side at every date, whenever
\* they were made or undone, since no report counts one before it has both its
\* lines; and no line is below zero, so the aging, which skips such, misses nothing.
ResidualsTie ==
    \A asOf \in Dates :
        LET items == Items(asOf)
            owed == {e \in items : e.debit = Receivable}
        IN  /\ Residuals(owed, asOf) - Residuals(items \ owed, asOf)
                  = Net(Receivable, 0, asOf) + OnReceivable(NotYetBooked(asOf))
                                             - OnReceivable(BookedBefore(asOf))
            /\ \A p \in linked : p.max_date <= asOf => {p.debit, p.credit} \subseteq items
            /\ AgedTotal(asOf) = OpenResidual(asOf)
=============================================================================
