------------------------- MODULE BankReconciliation -------------------------
(***************************************************************************)
(* BankReconciliationService: a statement is matched greedily with the     *)
(* unreconciled ledger rows of a bank account, in two transactions: the    *)
(* rows are read, matched in memory, and flagged.                          *)
(***************************************************************************)
EXTENDS Integers, FiniteSets, FiniteSetsExt, Sequences

CONSTANTS
    Statement,     \* calls of reconcile
    Entry,         \* ledger rows in the window, numbered by date and sequence
    EntryAmount,   \* debit less credit
    EntryRef,      \* comparable form of the reference, NoRef if it is blank
    NoRef,
    StatementLine, \* [amount, ref] a statement may have
    MaxStatement   \* bound: lines of a statement

ASSUME BankAssumption ==
    /\ IsFiniteSet(Entry) /\ \A e \in Entry : e \in Int
    /\ \A l \in StatementLine : l = [amount |-> l.amount, ref |-> l.ref]
    /\ MaxStatement \in Nat

VARIABLES
    phase,         \* of each call: "new", "read", "done"
    sLines,        \* its statement
    bookRead,      \* rows it read as unreconciled
    pairs,         \* [line, entry] it matched
    clearedBy      \* ledgers.reconciliation_id, NoRef while not reconciled

bankVars == <<phase, sLines, bookRead, pairs, clearedBy>>

BankInit ==
    /\ phase = [s \in Statement |-> "new"]
    /\ sLines = [s \in Statement |-> << >>]
    /\ bookRead = [s \in Statement |-> {}]
    /\ pairs = [s \in Statement |-> {}]
    /\ clearedBy = [e \in Entry |-> NoRef]

\* find_unreconciled_book.
ReadBook(s, ls) ==
    /\ phase[s] = "new"
    /\ phase' = [phase EXCEPT ![s] = "read"]
    /\ sLines' = [sLines EXCEPT ![s] = ls]
    /\ bookRead' = [bookRead EXCEPT ![s] = {e \in Entry : clearedBy[e] = NoRef}]
    /\ UNCHANGED <<pairs, clearedBy>>

\* Entries not yet taken that have the amount, and those that also have the
\* reference of the line.
Candidates(free, l) == {e \in free : EntryAmount[e] = l.amount}
SameReference(free, l) == {e \in Candidates(free, l) : l.ref # NoRef /\ EntryRef[e] = l.ref}

HitByAmount(free, l) ==        \* bug: the first entry of the amount
    Candidates(free, l)

\* Reference first, the amount alone otherwise.
Hit(free, l) ==
    IF SameReference(free, l) # {} THEN SameReference(free, l) ELSE Candidates(free, l)

\* The loop over the statement's lines; the first entry that fits is taken.
Matched(book, ls) ==
    LET step[n \in 0..Len(ls)] ==
          IF n = 0 THEN {}
          ELSE LET before == step[n - 1]
                   fits == Hit(book \ {p.entry : p \in before}, ls[n])
               IN  before \cup IF fits = {} THEN {} ELSE {[line |-> n, entry |-> Min(fits)]}
    IN  step[Len(ls)]

\* commit_reconciliation flags the rows without asking what they are by now.
CommitMatches(s) ==
    /\ phase[s] = "read"
    /\ LET M == Matched(bookRead[s], sLines[s])
       IN  /\ pairs' = [pairs EXCEPT ![s] = M]
           /\ clearedBy' = [e \in Entry |->
                  IF \E p \in M : p.entry = e THEN s ELSE clearedBy[e]]
    /\ phase' = [phase EXCEPT ![s] = "done"]
    /\ UNCHANGED <<sLines, bookRead>>

BankNext ==
    \E s \in Statement :
        \/ \E n \in 0..MaxStatement : \E ls \in [1..n -> StatementLine] : ReadBook(s, ls)
        \/ CommitMatches(s)

BankSpec == BankInit /\ [][BankNext]_bankVars

-----------------------------------------------------------------------------
\* "Greedy match by exact signed amount", and "the reference says which is
\* which": whatever else comes first on the statement, it never leaves a line
\* and an entry of one amount both open and takes no entry twice; and where
\* each of its lines names an entry of its own, each gets the one it names.
MatchIsMaximal ==
    \A s \in Statement : phase[s] = "done" =>
        LET ls == sLines[s]
            Names(n, e) == EntryAmount[e] = ls[n].amount /\ EntryRef[e] = ls[n].ref
            open == {n \in DOMAIN ls : \A p \in pairs[s] : p.line # n}
            left == {e \in bookRead[s] : \A p \in pairs[s] : p.entry # e}
        IN  /\ \A n \in open, e \in left : EntryAmount[e] # ls[n].amount
            /\ Cardinality(left) + Cardinality(pairs[s]) = Cardinality(bookRead[s])
            /\ \A p \in pairs[s] : EntryAmount[p.entry] = ls[p.line].amount
            /\ (\A n \in DOMAIN ls :
                    /\ ls[n].ref # NoRef /\ \E e \in bookRead[s] : Names(n, e)
                    /\ \A k \in DOMAIN ls : k # n => ls[k] # ls[n])
               => \A p \in pairs[s] : Names(p.line, p.entry)
=============================================================================
