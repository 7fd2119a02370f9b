------------------------------- MODULE GLBook -------------------------------
(***************************************************************************)
(* What the GL-posting contract promises, with the reads, the locks and    *)
(* the transactions taken away: a book of balanced entries.  An entry goes *)
(* in whole, moves every account by its net effect in the same instant,    *)
(* and is the only one with its identity; a caller is told either that     *)
(* its own entry is in the book, or which entry with its identity is, or   *)
(* that something went wrong.  Posting is shown to implement it.           *)
(***************************************************************************)
EXTENDS LedgerRules

CONSTANTS Call, Req, Opening, Nil

VARIABLES
    entries,    \* [id, lines] of every entry recorded
    worth,      \* the balance of every account
    reply       \* what each caller was told

vars == <<entries, worth, reply>>

Pending == [how |-> "pending", post |-> Nil]

Init ==
    /\ entries = {}
    /\ worth = Opening
    /\ reply = [c \in Call |-> Pending]

SameSource(c, d) ==
    Req[c].source = Req[d].source /\ Req[c].kind = Req[d].kind

\* Two requests that may not both be in the book.
SameIdentity(c, d) ==
    /\ Req[c].key = Req[d].key
    /\ Req[c].key = Nil => SameSource(c, d)

\* What a caller may be pointed at instead of a new entry.
Stands(c, d) ==
    IF Req[c].key # Nil THEN Req[c].key = Req[d].key ELSE SameSource(c, d)

\* A reversal mirrors an entry that is in the book.
LinesFor(c) ==
    IF Req[c].kind = "original" THEN {Req[c].lines}
    ELSE {Swap(e.lines) : e \in {x \in entries : x.id = Req[c].reverses}}

Record(c) ==
    /\ reply[c] = Pending
    /\ \A e \in entries : ~SameIdentity(c, e.id)
    /\ \E ls \in LinesFor(c) :
          /\ DebitTotal(ls) = CreditTotal(ls)
          /\ entries' = entries \cup {[id |-> c, lines |-> ls]}
          /\ worth' = [a \in Account |-> worth[a] + Net(ls, a)]
    /\ UNCHANGED reply

Tell(c, how, p) ==
    /\ reply[c] = Pending
    /\ reply' = [reply EXCEPT ![c] = [how |-> how, post |-> p]]
    /\ UNCHANGED <<entries, worth>>

Recorded(c) == \E e \in entries : e.id = c

TellFresh(c) == Recorded(c) /\ Tell(c, "posted", c)

TellReused(c) ==
    /\ ~Recorded(c)
    /\ \E e \in entries :
          Stands(c, e.id) /\ Tell(c, "reused", e.id)

\* A refusal says nothing was recorded; an error leaves it open.
TellFailure(c) ==
    \/ Tell(c, "error", Nil)
    \/ ~Recorded(c) /\ \E how \in {"refused", "conflict"} : Tell(c, how, Nil)

Next == \E c \in Call :
    Record(c) \/ TellFresh(c) \/ TellReused(c) \/ TellFailure(c)

Spec == Init /\ [][Next]_vars
=============================================================================
