----------------------------- MODULE PeriodClose -----------------------------
(***************************************************************************)
(* PeriodCloseService over one fiscal period: closes, the lock and reopen  *)
(* verbs and ordinary postings, all concurrent.  Every status move is one  *)
(* conditional UPDATE; what lies between them is not in any transaction:   *)
(* a close reads the period, claims it, sums its P&L, posts the closing    *)
(* entry through the posting contract and only then closes it.             *)
(*                                                                         *)
(* A posting is what Posting shows it to be: a check of the period and,    *)
(* some time later, one atomic entry which a unique key may refuse.  P&L   *)
(* balances are kept in the sense the close gives them: credit - debit for *)
(* revenue, debit - credit for expense.  reopened_at is the number of the  *)
(* last reopen, 0 while NULL (two reopens never share a microsecond).      *)
(***************************************************************************)
EXTENDS Integers, FiniteSets, FiniteSetsExt

CONSTANTS
    Closer,      \* calls of close_period
    Admin,       \* calls of lock_period and reopen_period
    Verb,        \* which of the two each admin call is
    Writer,      \* postings into the period by other producers
    PL,          \* the period's P&L accounts
    Effect,      \* what each posting does to the P&L balances
    Starting,    \* the P&L balances when the run begins
    Faulty,      \* closes whose posting or connection may fail
    Mortal       \* closes whose process may die

ASSUME SetAssumption ==
    /\ Faulty \subseteq Closer /\ Mortal \subseteq Closer
    /\ Verb \in [Admin -> {"lock", "reopen"}]
    /\ Effect \in [Writer -> [PL -> Int]]
    /\ Starting \in [PL -> Int]

VARIABLES
    status,      \* fiscal_periods.status
    reopened,    \* fiscal_periods.reopened_at
    pl,          \* the balance of each P&L account in the period
    entries,     \* closing entries: key, the cycle they fell in, the amounts
    cpc,         \* where each close is
    key,         \* the reopened_at its first read returned
    prior,       \* the status its claim replaced
    sums,        \* the P&L balances it summed
    told,        \* what it answered
    apc,         \* where each admin call is, or its answer
    wpc          \* where each posting is, or its answer

periodVars == <<status, reopened>>
bookVars == <<pl, entries>>
closeVars == <<cpc, key, prior, sums, told>>
vars == <<periodVars, bookVars, closeVars, apc, wpc>>

Status == {"open", "adjusting", "closing", "closed", "locked"}
Zero == [a \in PL |-> 0]

Answer == {"none", "closed", "already_closed", "in_progress",
           "posting_error", "internal", "crashed"}

TypeOK ==
    /\ status \in Status /\ reopened \in Nat
    /\ pl \in [PL -> Int]
    /\ entries \subseteq [key : Nat, cycle : Nat, amounts : [PL -> Int]]
    /\ cpc \in [Closer -> {"read", "claim", "lost", "sum", "find", "check",
                           "commit", "finish", "abort", "done"}]
    /\ key \in [Closer -> Nat]
    /\ prior \in [Closer -> {"open", "adjusting"}]
    /\ sums \in [Closer -> [PL -> Int]]
    /\ told \in [Closer -> Answer]
    /\ apc \in [Admin -> {"check", "move", "recheck", "moved", "refused", "internal"}]
    /\ wpc \in [Writer -> {"check", "commit", "posted", "refused"}]

Init ==
    /\ status \in {"open", "adjusting"}
    /\ reopened = 0
    /\ pl = Starting
    /\ entries = {}
    /\ cpc = [c \in Closer |-> "read"]
    /\ key = [c \in Closer |-> 0]
    /\ prior = [c \in Closer |-> "open"]
    /\ sums = [c \in Closer |-> Zero]
    /\ told = [c \in Closer |-> "none"]
    /\ apc = [a \in Admin |-> "check"]
    /\ wpc = [w \in Writer |-> "check"]

-----------------------------------------------------------------------------
Goto(c, there) == cpc' = [cpc EXCEPT ![c] = there]

Tell(c, what) ==
    /\ Goto(c, "done")
    /\ told' = [told EXCEPT ![c] = what]

\* From the claim to the end of the close.
Working(c) == cpc[c] \in {"sum", "find", "check", "commit", "finish", "abort"}

ReadPeriod(c) ==
    /\ cpc[c] = "read"
    /\ \/ /\ status \in {"open", "adjusting"}
          /\ key' = [key EXCEPT ![c] = reopened]
          /\ Goto(c, "claim")
          /\ UNCHANGED told
       \/ /\ status = "closing" /\ Tell(c, "in_progress")
          /\ UNCHANGED key
       \/ /\ status \in {"closed", "locked"} /\ Tell(c, "already_closed")
          /\ UNCHANGED key
    /\ UNCHANGED <<periodVars, bookVars, prior, sums, apc, wpc>>

BeginCloseUnguarded(c) ==        \* bug: the UPDATE does not look at the status
    /\ cpc[c] = "claim"
    /\ status' = "closing"
    /\ prior' = [prior EXCEPT ![c] = status]
    /\ Goto(c, "sum")
    /\ UNCHANGED <<reopened, bookVars, key, sums, told, apc, wpc>>

BeginCloseSaysClosing(c) ==      \* bug: RETURNING the status it has just set
    /\ cpc[c] = "claim" /\ status \in {"open", "adjusting"}
    /\ status' = "closing"
    /\ prior' = [prior EXCEPT ![c] = status']
    /\ Goto(c, "sum")
    /\ UNCHANGED <<reopened, bookVars, key, sums, told, apc, wpc>>

BeginClose(c) ==
    /\ cpc[c] = "claim"
    /\ \/ /\ status \in {"open", "adjusting"}
          /\ status' = "closing"
          /\ prior' = [prior EXCEPT ![c] = status]
          /\ Goto(c, "sum")
       \/ /\ status \notin {"open", "adjusting"}
          /\ Goto(c, "lost")
          /\ UNCHANGED <<status, prior>>
    /\ UNCHANGED <<reopened, bookVars, key, sums, told, apc, wpc>>

\* Lost the claim between the read and the write: read again, say what won.
SayWhatWon(c) ==
    /\ cpc[c] = "lost"
    /\ Tell(c, IF status = "closing" THEN "in_progress" ELSE "already_closed")
    /\ UNCHANGED <<periodVars, bookVars, key, prior, sums, apc, wpc>>

\* sum_pl_balances; a period without P&L activity is closed without an entry.
SumBalances(c) ==
    /\ cpc[c] = "sum"
    /\ sums' = [sums EXCEPT ![c] = pl]
    /\ Goto(c, IF pl = Zero THEN "finish" ELSE "find")
    /\ UNCHANGED <<periodVars, bookVars, key, prior, told, apc, wpc>>

Existing(k) == {e \in entries : e.key = k}

FindEntry(c) ==
    /\ cpc[c] = "find"
    /\ Goto(c, IF Existing(key[c]) # {} THEN "finish" ELSE "check")
    /\ UNCHANGED <<periodVars, bookVars, key, prior, sums, told, apc, wpc>>

\* A balance on the wrong side becomes a negative line, which R1a refuses.
CheckEntry(c) ==
    /\ cpc[c] = "check"
    /\ \/ /\ \A a \in PL : sums[c][a] >= 0
          /\ status \notin {"closed", "locked"}
          /\ Goto(c, "commit")
       \/ /\ (\E a \in PL : sums[c][a] < 0) \/ status \in {"closed", "locked"}
          /\ Goto(c, "abort")
    /\ UNCHANGED <<periodVars, bookVars, key, prior, sums, told, apc, wpc>>

CommitEntryRetried(c) ==         \* bug: a lost answer is retried without a key
    /\ cpc[c] = "commit"
    /\ entries' = entries \cup {[key |-> key[c], cycle |-> reopened, amounts |-> sums[c]]}
    /\ pl' = [a \in PL |-> pl[a] - sums[c][a]]
    /\ \/ Goto(c, "finish")
       \/ c \in Faulty /\ UNCHANGED cpc
    /\ UNCHANGED <<periodVars, key, prior, sums, told, apc, wpc>>

\* The key's unique index decides; the answer to a commit that took effect
\* may still be an error.
CommitEntry(c) ==
    /\ cpc[c] = "commit"
    /\ \/ /\ Existing(key[c]) # {}
          /\ Goto(c, "finish")
          /\ UNCHANGED bookVars
       \/ /\ Existing(key[c]) = {}
          /\ entries' = entries \cup
                {[key |-> key[c], cycle |-> reopened, amounts |-> sums[c]]}
          /\ pl' = [a \in PL |-> pl[a] - sums[c][a]]
          /\ \/ Goto(c, "finish")
             \/ c \in Faulty /\ Goto(c, "abort")
    /\ UNCHANGED <<periodVars, key, prior, sums, told, apc, wpc>>

PostFailsStuck(c) ==             \* bug: the claim is not given back
    /\ c \in Faulty /\ cpc[c] \in {"sum", "find", "check", "commit"}
    /\ Tell(c, "posting_error")
    /\ UNCHANGED <<periodVars, bookVars, key, prior, sums, apc, wpc>>

PostFailsClosed(c) ==            \* bug: the period is closed whatever post said
    /\ c \in Faulty /\ cpc[c] \in {"sum", "find", "check", "commit"}
    /\ Goto(c, "finish")
    /\ UNCHANGED <<periodVars, bookVars, key, prior, sums, told, apc, wpc>>

\* The posting is refused for another reason (an account, the budget), or one
\* of its statements fails; nothing was written.
PostFails(c) ==
    /\ c \in Faulty /\ cpc[c] \in {"sum", "find", "check", "commit"}
    /\ Goto(c, "abort")
    /\ UNCHANGED <<periodVars, bookVars, key, prior, sums, told, apc, wpc>>

FinishClose(c) ==
    /\ cpc[c] = "finish"
    /\ status' = IF status = "closing" THEN "closed" ELSE status
    /\ Tell(c, IF status = "closing" THEN "closed" ELSE "internal")
    /\ UNCHANGED <<reopened, bookVars, key, prior, sums, apc, wpc>>

AbortCloseToOpen(c) ==           \* bug: the prior status is forgotten
    /\ cpc[c] = "abort"
    /\ status' = IF status = "closing" THEN "open" ELSE status
    /\ Tell(c, "posting_error")
    /\ UNCHANGED <<reopened, bookVars, key, prior, sums, apc, wpc>>

AbortClose(c) ==
    /\ cpc[c] = "abort"
    /\ status' = IF status = "closing" THEN prior[c] ELSE status
    /\ Tell(c, "posting_error")
    /\ UNCHANGED <<reopened, bookVars, key, prior, sums, apc, wpc>>

\* The process dies, or the statement that should end the close fails: the
\* claim stays, and nothing in the code takes it back.
Crash(c) ==
    /\ c \in Mortal /\ cpc[c] # "done"
    /\ Tell(c, "crashed")
    /\ UNCHANGED <<periodVars, bookVars, key, prior, sums, apc, wpc>>

-----------------------------------------------------------------------------
(* lock_period and reopen_period.                                          *)

Answered(a, what) == apc' = [apc EXCEPT ![a] = what]

RequireClosed(a) ==
    /\ apc[a] = "check"
    /\ Answered(a, IF status = "closed" THEN "move" ELSE "refused")
    /\ UNCHANGED <<periodVars, bookVars, closeVars, wpc>>

MoveUnguarded(a) ==              \* bug: only the first read looks at the status
    /\ apc[a] = "move"
    /\ status' = IF Verb[a] = "lock" THEN "locked" ELSE "open"
    /\ reopened' = IF Verb[a] = "lock" THEN reopened ELSE reopened + 1
    /\ Answered(a, "moved")
    /\ UNCHANGED <<bookVars, closeVars, wpc>>

Move(a) ==
    /\ apc[a] = "move"
    /\ \/ /\ status = "closed" /\ Verb[a] = "lock"
          /\ status' = "locked"
          /\ Answered(a, "moved")
          /\ UNCHANGED reopened
       \/ /\ status = "closed" /\ Verb[a] = "reopen"
          /\ status' = "open"
          /\ reopened' = reopened + 1
          /\ Answered(a, "moved")
       \/ /\ status # "closed"
          /\ Answered(a, "recheck")
          /\ UNCHANGED periodVars
    /\ UNCHANGED <<bookVars, closeVars, wpc>>

RequireAgain(a) ==
    /\ apc[a] = "recheck"
    /\ Answered(a, IF status = "closed" THEN "internal" ELSE "refused")
    /\ UNCHANGED <<periodVars, bookVars, closeVars, wpc>>

-----------------------------------------------------------------------------
(* Postings by other producers: the check, then the entry.                 *)

CheckPeriod(w) ==
    /\ wpc[w] = "check"
    /\ wpc' = [wpc EXCEPT ![w] =
                 IF status \in {"closed", "locked"} THEN "refused" ELSE "commit"]
    /\ UNCHANGED <<periodVars, bookVars, closeVars, apc>>

CommitPosting(w) ==
    /\ wpc[w] = "commit"
    /\ wpc' = [wpc EXCEPT ![w] = "posted"]
    /\ pl' = [a \in PL |-> pl[a] + Effect[w][a]]
    /\ UNCHANGED <<periodVars, entries, closeVars, apc>>

CloseStep(c) ==
    \/ ReadPeriod(c) \/ BeginClose(c) \/ SayWhatWon(c) \/ SumBalances(c)
    \/ FindEntry(c) \/ CheckEntry(c) \/ CommitEntry(c)
    \/ FinishClose(c) \/ AbortClose(c)

Done ==
    /\ \A c \in Closer : cpc[c] = "done"
    /\ \A a \in Admin : apc[a] \notin {"check", "move", "recheck"}
    /\ \A w \in Writer : wpc[w] \in {"posted", "refused"}

Next ==
    \/ \E c \in Closer : CloseStep(c) \/ PostFails(c) \/ Crash(c)
    \/ \E a \in Admin : RequireClosed(a) \/ Move(a) \/ RequireAgain(a)
    \/ \E w \in Writer : CheckPeriod(w) \/ CommitPosting(w)
    \/ Done /\ UNCHANGED vars

Spec == Init /\ [][Next]_vars

\* The task of every close goes on being run.
FairSpec == Spec /\ \A c \in Closer : WF_vars(CloseStep(c) \/ PostFails(c))

-----------------------------------------------------------------------------
(* Properties.                                                             *)

\* "The period is claimed before the closing entry is posted, so a second
\* close of the same period is refused": at most one close is past its claim,
\* and while it is, nobody else moves the period.
ClaimExclusive ==
    \A c \in Closer : Working(c) =>
        /\ status = "closing"
        /\ \A d \in Closer : Working(d) => c = d

\* However many closes race, fail, die and are retried, across any reopens, no
\* P&L is rolled into retained earnings twice: an account off which nothing
\* but a close ever takes something is never over-closed.
NothingRolledTwice ==
    \A a \in PL :
        Starting[a] >= 0 /\ (\A w \in Writer : Effect[w][a] >= 0) => pl[a] >= 0

NobodyPosted == \A w \in Writer : wpc[w] # "posted"

\* PCG-1 and PLG-4: until another producer's posting has landed in it, a
\* period that is closed or locked has all its P&L at zero, whatever failed,
\* died or was reopened on the way.
ClosedIsZero ==
    NobodyPosted /\ status \in {"closed", "locked"} => pl = Zero

\* "A locked period is final", also for the verbs and closes already under way.
LockedIsFinal ==
    [][status = "locked" => status' = "locked"]_vars

\* "If posting fails the claim is given back and the period returns to the
\* status it had": a period is adjusting again after a failed close of an
\* adjusting period, unless it was closed and reopened since.
AdjustingIsRestored ==
    [][\A c \in Closer : cpc[c] = "abort" /\ cpc'[c] = "done" /\ told'[c] = "posting_error"
          => status' = prior[c]]_vars

\* A claim does not outlive a close whose process lives: when that close is
\* over, a period still closing is in the hands of another close, or of one
\* that died.
ClaimReleased ==
    \A c \in Closer \ Mortal : Working(c) ~> (cpc[c] = "done" /\ (status = "closing" =>
        \E d \in Closer \ {c} : Working(d) \/ told[d] = "crashed"))

\* Claims of the documents that the code does not keep (see the README).

\* "One closing entry per close cycle ... the close after a reopen would get
\* the first close's entry back and leave the reopened P&L unclosed": a close
\* that had something to close ends with an entry of its own cycle.
EntryOfThisCycle ==
    \A c \in Closer : cpc[c] = "finish" /\ sums[c] # Zero =>
        \E e \in entries : e.cycle = reopened
=============================================================================
