------------------------------ MODULE Posting ------------------------------
(***************************************************************************)
(* PostingService::post over SqlxPostingRepository: concurrent producers   *)
(* ask the general ledger to record a balanced set of lines.  A call reads *)
(* (idempotency, accounts, period) outside any transaction, then writes in *)
(* one READ COMMITTED transaction: row locks on the accounts in id order,  *)
(* one ledger row per line, the accounting_posts row on which the partial  *)
(* unique indexes arbitrate, commit, and only then the event.              *)
(*                                                                         *)
(* A step is one SQL statement (or one run of statements that only touch   *)
(* rows the transaction has locked).  A post is named by the call that     *)
(* wrote it, so posts is a set of calls and lines[p] are its journal lines.*)
(***************************************************************************)
EXTENDS LedgerRules

CONSTANTS
    Call,            \* invocations of post(): first attempts and retries
    Opening,         \* current_balance before the first ledger row
    Key, Source,     \* idempotency keys; (source_type, source_id) pairs
    Period,          \* fiscal periods a posting_date may fall in
    Req,             \* the request each call carries
    Verdict,         \* outcomes the budget port may give
    StatusMoves,     \* <<account, status>> edits of account master data
    PeriodMoves,     \* <<from, to>> status moves of a fiscal period
    Nil

Request == [key : Key \cup {Nil}, source : Source,
            kind : {"original", "reversal"}, reverses : Call \cup {Nil},
            period : Period \cup {Nil}, lines : Seq(Line)]

PeriodStatus == {"open", "adjusting", "closing", "closed", "locked"}

ASSUME NilAssumption == Nil \notin Call \cup Key \cup Period
ASSUME RequestAssumption ==
    /\ Req \in [Call -> Request]
    /\ Opening \in [Account -> Int]
ASSUME MovesAssumption ==
    /\ StatusMoves \subseteq Account \X AccountStatus
    /\ PeriodMoves \subseteq PeriodStatus \X PeriodStatus
    /\ Verdict \subseteq {"within", "warned", "blocked", "error"}

VARIABLES
    pc,          \* where each call is
    lines,       \* its lines: given, or derived from the reversed journal
    seen,        \* account statuses its validation read
    outcome,     \* what it returned
    holder,      \* which transaction holds each account row FOR UPDATE
    visited,     \* accounts the transaction's lock statement is past
    run, seq,    \* its running balances and last sequence numbers
    pos,         \* the line it writes next
    rows,        \* ledger rows it has written and not committed
    ledger,      \* committed ledger rows
    balance,     \* accounts.current_balance
    posts,       \* committed accounting_posts rows with status posted
    reversedBy,  \* accounting_posts.reversed_by_post_id
    failed,      \* accounting_posts rows with status failed
    emitted,     \* AccountingPostPosted events published, per post
    status,      \* account master data
    period       \* fiscal_periods.status

callVars == <<pc, lines, seen, outcome>>
txVars == <<holder, visited, run, seq, pos, rows>>
glVars == <<ledger, balance, posts, reversedBy>>
logVars == <<failed, emitted>>
envVars == <<status, period>>
vars == <<callVars, txVars, glVars, logVars, envVars>>

Row == [account : Account, seq : Nat, before : Int, change : Int,
        after : Int, post : Call, line : Nat]

PC == {"find", "source", "accounts", "period", "refused", "locking",
       "append", "commit", "resolve", "emit", "done"}

\* What a caller gets: its fresh post, an existing one, or a failure.
Outcome == [how : {"pending", "refused", "conflict", "error", "posted", "reused"},
            post : Call \cup {Nil}]
Pending == [how |-> "pending", post |-> Nil]

TypeOK ==
    /\ pc \in [Call -> PC]
    /\ lines \in [Call -> Seq(Line)]
    /\ seen \in [Call -> [Account -> AccountStatus]]
    /\ outcome \in [Call -> Outcome]
    /\ holder \in [Account -> Call \cup {Nil}]
    /\ visited \in [Call -> SUBSET Account]
    /\ run \in [Call -> [Account -> Int]]
    /\ seq \in [Call -> [Account -> Nat]]
    /\ pos \in [Call -> Nat]
    /\ rows \in [Call -> SUBSET Row]
    /\ ledger \subseteq Row
    /\ balance \in [Account -> Int]
    /\ posts \subseteq Call
    /\ reversedBy \in [Call -> Call \cup {Nil}]
    /\ failed \subseteq Call
    /\ emitted \in [Call -> Nat]
    /\ status \in [Account -> AccountStatus]
    /\ period \in [Period -> PeriodStatus]

Init ==
    /\ pc = [c \in Call |-> "find"]
    /\ lines = [c \in Call |-> Req[c].lines]
    /\ seen = [c \in Call |-> [a \in Account |-> "active"]]
    /\ outcome = [c \in Call |-> Pending]
    /\ holder = [a \in Account |-> Nil]
    /\ visited = [c \in Call |-> {}]
    /\ run = [c \in Call |-> [a \in Account |-> 0]]
    /\ seq = [c \in Call |-> [a \in Account |-> 0]]
    /\ pos = [c \in Call |-> 0]
    /\ rows = [c \in Call |-> {}]
    /\ ledger = {}
    /\ balance = Opening
    /\ posts = {}
    /\ reversedBy = [c \in Call |-> Nil]
    /\ failed = {}
    /\ emitted = [c \in Call |-> 0]
    /\ status = [a \in Account |-> "active"]
    /\ period = [p \in Period |-> "open"]

-----------------------------------------------------------------------------
\* A period that is absent, open, adjusting or closing accepts a posting.
PeriodClosed(p) == p \in Period /\ period[p] \in {"closed", "locked"}

-----------------------------------------------------------------------------
(* Idempotency: the read, and the two partial unique indexes.              *)

SameSource(c, d) ==
    Req[c].source = Req[d].source /\ Req[c].kind = Req[d].kind

\* find_existing_post: by key if there is one, else by the source tuple, and
\* the tuple read does not ask that the row it finds be keyless.
Existing(c) ==
    IF Req[c].key # Nil
    THEN {p \in posts : Req[p].key = Req[c].key}
    ELSE {p \in posts : SameSource(p, c)}

\* The unique indexes: one posted row per key, one keyless one per tuple.
Clash(c, d) ==
    /\ Req[c].key = Req[d].key
    /\ Req[c].key = Nil => SameSource(c, d)

LineAccounts(c) == {lines[c][i].account : i \in DOMAIN lines[c]}
Awaited(c) == LineAccounts(c) \ visited[c]
NextInLineOrder(c, a) ==       \* bug: no ORDER BY
    \E i \in DOMAIN lines[c] :
        /\ lines[c][i].account = a /\ a \in Awaited(c)
        /\ \A j \in 1..(i - 1) : lines[c][j].account \notin Awaited(c)

\* ORDER BY id: the account whose row the lock statement comes to next.
NextToLock(c, a) ==
    /\ a \in Awaited(c)
    /\ \A b \in Awaited(c) : a <= b

AccountRows(a) == {r \in ledger : r.account = a}
LastSeqFromNull(a) ==          \* bug: no COALESCE
    IF AccountRows(a) = {} THEN -1 ELSE Max({r.seq : r \in AccountRows(a)})
LastSeq(a) ==
    IF AccountRows(a) = {} THEN 0 ELSE Max({r.seq : r \in AccountRows(a)})

Goto(c, there) == pc' = [pc EXCEPT ![c] = there]

Return(c, how, p) ==
    /\ Goto(c, "done")
    /\ outcome' = [outcome EXCEPT ![c] = [how |-> how, post |-> p]]

ReuseAnnounced(c, p) ==        \* bug: emit does not look at commit.reused
    Goto(c, "emit") /\ UNCHANGED outcome
Reuse(c, p) == Return(c, "reused", p)

\* Commit and rollback both let the row locks go and end the private state.
EndTx(c) ==
    /\ holder' = [a \in Account |-> IF holder[a] = c THEN Nil ELSE holder[a]]
    /\ visited' = [visited EXCEPT ![c] = {}]
    /\ run' = [run EXCEPT ![c] = [a \in Account |-> 0]]
    /\ seq' = [seq EXCEPT ![c] = [a \in Account |-> 0]]
    /\ pos' = [pos EXCEPT ![c] = 0]
    /\ rows' = [rows EXCEPT ![c] = {}]

-----------------------------------------------------------------------------
(* Reads before the transaction.                                           *)

\* LIMIT 1 without an ORDER BY: any matching row may be the one returned.
Find(c) ==
    /\ pc[c] = "find"
    /\ \/ \E p \in Existing(c) : Reuse(c, p)
       \/ /\ Existing(c) = {}
          /\ Goto(c, IF Req[c].kind = "reversal" THEN "source" ELSE "accounts")
          /\ UNCHANGED outcome
    /\ UNCHANGED <<lines, seen, txVars, glVars, logVars, envVars>>

\* build_reversal_lines: swapped lines of the journal of a posted post; an
\* unknown original is a conflict, and no failed row is written for it.
ReadSource(c) ==
    /\ pc[c] = "source"
    /\ \/ /\ Req[c].reverses \in posts
          /\ lines' = [lines EXCEPT ![c] = Swap(lines[Req[c].reverses])]
          /\ Goto(c, "accounts")
          /\ UNCHANGED outcome
       \/ /\ Req[c].reverses \notin posts
          /\ Return(c, "conflict", Nil)
          /\ UNCHANGED lines
    /\ UNCHANGED <<seen, txVars, glVars, logVars, envVars>>

ReadAccounts(c) ==
    /\ pc[c] = "accounts"
    /\ seen' = [seen EXCEPT ![c] = status]
    /\ Goto(c, "period")
    /\ UNCHANGED <<lines, outcome, txVars, glVars, logVars, envVars>>

\* is_period_closed, the pure rules, then the budget port (warn only logs).
\* A read that fails is an error of validation like any other.
Validate(c) ==
    /\ pc[c] = "period"
    /\ \/ /\ ValidLines(lines[c], seen[c])
          /\ ~PeriodClosed(Req[c].period)
          /\ \E v \in Verdict :
                Goto(c, IF v \in {"within", "warned"} THEN "locking" ELSE "refused")
       \/ /\ ~ValidLines(lines[c], seen[c]) \/ PeriodClosed(Req[c].period)
          /\ Goto(c, "refused")
    /\ UNCHANGED <<lines, seen, outcome, txVars, glVars, logVars, envVars>>

ReadFails(c) ==
    /\ pc[c] \in {"accounts", "period"}
    /\ Goto(c, "refused")
    /\ UNCHANGED <<lines, seen, outcome, txVars, glVars, logVars, envVars>>

RecordFailedGoesOn(c) ==       \* bug: no return after the refusal
    /\ pc[c] = "refused"
    /\ Goto(c, "locking")
    /\ UNCHANGED <<lines, seen, outcome, txVars, glVars, logVars, envVars>>

\* The failed row is written best effort: its own error is dropped.
RecordFailed(c) ==
    /\ pc[c] = "refused"
    /\ failed' \in {failed \cup {c}, failed}
    /\ Return(c, "refused", Nil)
    /\ UNCHANGED <<lines, seen, txVars, glVars, emitted, envVars>>

-----------------------------------------------------------------------------
(* The transaction: commit_posting_on.                                     *)

LockNextUnlocked(c) ==         \* bug: a plain SELECT, which waits for nobody
    /\ pc[c] = "locking"
    /\ \E a \in Account :
        /\ NextToLock(c, a)
        /\ visited' = [visited EXCEPT ![c] = @ \cup {a}]
        /\ holder' = [holder EXCEPT ![a] = c]
        /\ run' = [run EXCEPT ![c][a] = balance[a]]
    /\ UNCHANGED <<seq, pos, rows, callVars, glVars, logVars, envVars>>

\* SELECT ... ORDER BY id FOR UPDATE, a row at a time: wait for the holder,
\* then read the row as it now is.  A soft-deleted account is not returned.
LockNext(c) ==
    /\ pc[c] = "locking"
    /\ \E a \in Account :
        /\ NextToLock(c, a)
        /\ visited' = [visited EXCEPT ![c] = @ \cup {a}]
        /\ \/ /\ status[a] # "deleted" /\ holder[a] = Nil
              /\ holder' = [holder EXCEPT ![a] = c]
              /\ run' = [run EXCEPT ![c][a] = balance[a]]
           \/ /\ status[a] = "deleted"
              /\ UNCHANGED <<holder, run>>
    /\ UNCHANGED <<seq, pos, rows, callVars, glVars, logVars, envVars>>

ReadSequences(c) ==
    /\ pc[c] = "locking" /\ Awaited(c) = {}
    /\ seq' = [seq EXCEPT ![c] =
                 [a \in Account |-> IF holder[a] = c THEN LastSeq(a) ELSE 0]]
    /\ pos' = [pos EXCEPT ![c] = 1]
    /\ Goto(c, "append")
    /\ UNCHANGED <<lines, seen, outcome, holder, visited, run, rows,
                   glVars, logVars, envVars>>

AppendLineUnchained(c) ==      \* bug: the running balance is not carried on
    /\ pc[c] = "append" /\ pos[c] <= Len(lines[c])
    /\ LET l == lines[c][pos[c]]
           a == l.account
       IN  /\ holder[a] = c
           /\ rows' = [rows EXCEPT ![c] = @ \cup
                 {[account |-> a, seq |-> seq[c][a] + 1, before |-> run[c][a],
                   change |-> Change(l), after |-> run[c][a] + Change(l),
                   post |-> c, line |-> pos[c]]}]
           /\ seq' = [seq EXCEPT ![c][a] = @ + 1]
    /\ pos' = [pos EXCEPT ![c] = @ + 1]
    /\ UNCHANGED <<holder, visited, run, callVars, glVars, logVars, envVars>>

\* One iteration of append_ledger_entries.
AppendLine(c) ==
    /\ pc[c] = "append" /\ pos[c] <= Len(lines[c])
    /\ LET l == lines[c][pos[c]]
           a == l.account
           row == [account |-> a, seq |-> seq[c][a] + 1, before |-> run[c][a],
                   change |-> Change(l), after |-> run[c][a] + Change(l),
                   post |-> c, line |-> pos[c]]
       IN  /\ holder[a] = c
           /\ rows' = [rows EXCEPT ![c] = @ \cup {row}]
           /\ run' = [run EXCEPT ![c][a] = row.after]
           /\ seq' = [seq EXCEPT ![c][a] = row.seq]
    /\ pos' = [pos EXCEPT ![c] = @ + 1]
    /\ UNCHANGED <<holder, visited, callVars, glVars, logVars, envVars>>

SkipMissing(c) ==              \* bug: a line whose account is gone is skipped
    /\ pc[c] = "append" /\ pos[c] <= Len(lines[c])
    /\ holder[lines[c][pos[c]].account] # c
    /\ pos' = [pos EXCEPT ![c] = @ + 1]
    /\ UNCHANGED <<holder, visited, run, seq, rows, callVars, glVars, logVars, envVars>>

\* An account deleted since validation is missing from the locked map, and
\* indexing the map with it panics: the task dies and its transaction with it.
PanicOnMissing(c) ==
    /\ pc[c] = "append" /\ pos[c] <= Len(lines[c])
    /\ holder[lines[c][pos[c]].account] # c
    /\ EndTx(c)
    /\ Return(c, "error", Nil)
    /\ UNCHANGED <<lines, seen, glVars, logVars, envVars>>

InsertPostUnarbitrated(c) ==   \* bug: no unique index, only the first read
    /\ pc[c] = "append" /\ pos[c] > Len(lines[c])
    /\ Goto(c, "commit")
    /\ UNCHANGED <<lines, seen, outcome, txVars, glVars, logVars, envVars>>

InsertPostHasty(c) ==          \* bug: an uncommitted rival already counts as the winner
    /\ pc[c] = "append" /\ pos[c] > Len(lines[c])
    /\ \/ /\ \E d \in posts \cup {x \in Call : pc[x] = "commit"} : Clash(c, d)
          /\ Goto(c, "resolve")
          /\ EndTx(c)
       \/ /\ \A d \in posts \cup {x \in Call : pc[x] = "commit"} : ~Clash(c, d)
          /\ Goto(c, "commit")
          /\ UNCHANGED txVars
    /\ UNCHANGED <<lines, seen, outcome, glVars, logVars, envVars>>

InsertPostRetries(c) ==        \* bug: the loser starts its transaction again
    /\ pc[c] = "append" /\ pos[c] > Len(lines[c])
    /\ \A d \in Call : pc[d] = "commit" => ~Clash(c, d)
    /\ \/ /\ \E p \in posts : Clash(c, p)
          /\ Goto(c, "locking")
          /\ EndTx(c)
       \/ /\ \A p \in posts : ~Clash(c, p)
          /\ Goto(c, "commit")
          /\ UNCHANGED txVars
    /\ UNCHANGED <<lines, seen, outcome, glVars, logVars, envVars>>

\* INSERT INTO accounting_posts: wait for a rival that has inserted and not
\* committed; lose to one that has.
InsertPost(c) ==
    /\ pc[c] = "append" /\ pos[c] > Len(lines[c])
    /\ \A d \in Call : pc[d] = "commit" => ~Clash(c, d)
    /\ \/ /\ \E p \in posts : Clash(c, p)
          /\ Goto(c, "resolve")
          /\ EndTx(c)
       \/ /\ \A p \in posts : ~Clash(c, p)
          /\ Goto(c, "commit")
          /\ UNCHANGED txVars
    /\ UNCHANGED <<lines, seen, outcome, glVars, logVars, envVars>>

CommitWithoutBalances(c) ==    \* bug: accounts.current_balance is not written
    /\ pc[c] = "commit"
    /\ ledger' = ledger \cup rows[c]
    /\ posts' = posts \cup {c}
    /\ EndTx(c)
    /\ Goto(c, "emit")
    /\ UNCHANGED <<balance, reversedBy, lines, seen, outcome, logVars, envVars>>

\* The reversal links of the original are overwritten without a look at them.
Commit(c) ==
    /\ pc[c] = "commit"
    /\ ledger' = ledger \cup rows[c]
    /\ balance' = [a \in Account |-> IF holder[a] = c THEN run[c][a] ELSE balance[a]]
    /\ posts' = posts \cup {c}
    /\ reversedBy' = IF Req[c].kind = "reversal"
                     THEN [reversedBy EXCEPT ![Req[c].reverses] = c]
                     ELSE reversedBy
    /\ EndTx(c)
    /\ Goto(c, "emit")
    /\ UNCHANGED <<lines, seen, outcome, logVars, envVars>>

ResolveAsOwn(c) ==             \* bug: the rolled-back post is answered
    /\ pc[c] = "resolve"
    /\ Return(c, "posted", c)
    /\ UNCHANGED <<lines, seen, txVars, glVars, logVars, envVars>>

\* After a lost race: answer with the winner, or fail if there is none.
Resolve(c) ==
    /\ pc[c] = "resolve"
    /\ \/ \E p \in Existing(c) : Reuse(c, p)
       \/ Existing(c) = {} /\ Return(c, "error", Nil)
    /\ UNCHANGED <<lines, seen, txVars, glVars, logVars, envVars>>

\* The bus sink spawns the publication and only logs its failure.
Emit(c) ==
    /\ pc[c] = "emit"
    /\ emitted' \in {emitted, [emitted EXCEPT ![c] = @ + 1]}
    /\ Return(c, "posted", c)
    /\ UNCHANGED <<lines, seen, txVars, glVars, failed, envVars>>

\* A statement fails, the connection or the process dies.  Before the commit
\* everything is rolled back; after it only the event and the answer are lost.
Abort(c) ==
    /\ pc[c] # "done"
    /\ EndTx(c)
    /\ Return(c, "error", Nil)
    /\ UNCHANGED <<lines, seen, glVars, logVars, envVars>>

-----------------------------------------------------------------------------
(* What others do meanwhile.                                               *)

\* Account edits are UPDATEs of the row: they wait for a FOR UPDATE holder.
EditAccount(a, s) ==
    /\ holder[a] = Nil /\ status[a] \notin {s, "deleted"}
    /\ status' = [status EXCEPT ![a] = s]
    /\ UNCHANGED <<callVars, txVars, glVars, logVars, period>>

MovePeriod(p, s) ==
    /\ <<period[p], s>> \in PeriodMoves
    /\ period' = [period EXCEPT ![p] = s]
    /\ UNCHANGED <<callVars, txVars, glVars, logVars, status>>

Step(c) ==
    \/ Find(c) \/ ReadSource(c) \/ ReadAccounts(c) \/ Validate(c)
    \/ RecordFailed(c) \/ LockNext(c) \/ ReadSequences(c) \/ AppendLine(c)
    \/ PanicOnMissing(c) \/ InsertPost(c) \/ Commit(c) \/ Resolve(c) \/ Emit(c)

Quiescent == (\A c \in Call : pc[c] = "done") /\ UNCHANGED vars

Next ==
    \/ \E c \in Call : Step(c) \/ ReadFails(c) \/ Abort(c)
    \/ \E m \in StatusMoves : EditAccount(m[1], m[2])
    \/ \E p \in Period, s \in PeriodStatus : MovePeriod(p, s)
    \/ Quiescent

Spec == Init /\ [][Next]_vars

\* The runtime keeps scheduling a call's task; nothing forces a failure.
FairSpec == Spec /\ \A c \in Call : WF_vars(Step(c))

-----------------------------------------------------------------------------
(* Properties.                                                             *)

\* R is a gap-free history of account a: rows numbered 1..n once each, every
\* one starting from the balance its predecessor left, the last one ending at b.
History(R, a, n, b) ==
    /\ n \in Nat
    /\ \A r \in R : /\ r.account = a /\ r.seq \in 1..n
                    /\ r.after = r.before + r.change
                    /\ r.seq = 1 => r.before = Opening[a]
                    /\ r.seq > 1 => \E q \in R : q.seq = r.seq - 1 /\ q.after = r.before
    /\ \A q, r \in R : q.seq = r.seq => q = r
    /\ n = 0 => b = Opening[a]
    /\ n > 0 => \E r \in R : r.seq = n /\ r.after = b

\* R9, golden-case invariant 4: the committed rows of an account are such a
\* history and accounts.current_balance is where it ends, so that no posting
\* is lost or numbered twice whatever the other calls do.
RunningBalance ==
    \A a \in Account : History(AccountRows(a), a, LastSeq(a), balance[a])

\* "No partial writes" and global balance (golden-case invariants 1 and 2): the
\* ledger is made of whole entries of posted posts, one row per line, and the
\* rows of each entry balance.
WholeEntries ==
    /\ \A r \in ledger : r.post \in posts
    /\ \A p \in posts : LET R == {r \in ledger : r.post = p} IN
        /\ {[account |-> r.account, line |-> r.line, change |-> r.change] : r \in R}
             = {[account |-> lines[p][i].account, line |-> i,
                 change |-> Change(lines[p][i])] : i \in DOMAIN lines[p]}
        /\ Cardinality(R) = Len(lines[p])
        /\ SumFunction([r \in R |-> IF r.account \in NormalDebit
                                    THEN r.change ELSE -r.change]) = 0

\* ADR-002: the database arbitrates, so concurrent double posting of one
\* identity (same key, or same keyless source tuple) is impossible, also while
\* the winner is between its INSERT and its COMMIT.
OneEntryPerIdentity ==
    \A c, d \in posts \cup {x \in Call : pc[x] = "commit"} :
        Clash(c, d) => c = d

\* R6 of the GL-posting flow: however first attempts and retries interleave,
\* everybody who is answered for one key is told of the same, recorded, post.
AnswersAgree ==
    \A c, d \in Call :
        /\ outcome[c].how \in {"posted", "reused"} => outcome[c].post \in posts
        /\ /\ outcome[c].post # Nil /\ outcome[d].post # Nil
           /\ Req[c].key # Nil /\ Req[c].key = Req[d].key
           => outcome[c].post = outcome[d].post

\* The fallback "concurrent posting conflict with no existing winner" never
\* happens: whoever loses on an index finds the row it lost to.
LoserFindsWinner ==
    \A c \in Call : pc[c] = "resolve" => Existing(c) # {}

\* GC-4: a reversal nets its original to zero on every account.
ReversalNetsZero ==
    \A p \in posts : Req[p].kind = "reversal" =>
        LET both == {r \in ledger : r.post \in {p, Req[p].reverses}} IN
        \A a \in Account :
            SumFunction([r \in {x \in both : x.account = a} |-> r.change]) = 0

\* What call c waits for: the next account row, or a rival's index entry.
WaitsFor(c, d) ==
    /\ c # d
    /\ \/ pc[c] = "locking" /\ \E a \in Account : NextToLock(c, a) /\ holder[a] = d
       \/ pc[c] = "append" /\ pos[c] > Len(lines[c]) /\ pc[d] = "commit" /\ Clash(c, d)

\* Locking in id order leaves no set of calls that wait only for each other.
NoWaitCycle ==
    \A S \in (SUBSET Call) \ {{}} : \E c \in S : \A d \in S : ~WaitsFor(c, d)

\* At most one event per post, and none for a post that was not committed or
\* that was only found again (ADR-002: "at-most-once").
AtMostOneEvent ==
    \A c \in Call : emitted[c] > 0 => /\ emitted[c] = 1 /\ c \in posts
                                       /\ outcome[c] = [how |-> "posted", post |-> c]

\* Why RunningBalance is inductive: only a call in its transaction holds rows,
\* it read the balance it builds on under the lock, and its private rows
\* continue the committed history of each account it holds.
InTx(c) == pc[c] \in {"locking", "append", "commit"}
OwnRows(c, a) == {r \in rows[c] : r.account = a}

TxInv(c) ==
    /\ \A a \in Account : holder[a] = c => InTx(c)
    /\ \A r \in rows[c] : r.post = c /\ holder[r.account] = c
    /\ pc[c] \notin {"append", "commit"} => rows[c] = {}
    /\ pc[c] = "append" => pos[c] > 0
    /\ pc[c] = "locking" => \A a \in Account : holder[a] = c => run[c][a] = balance[a]
    /\ pc[c] \in {"append", "commit"} => \A a \in Account : holder[a] = c =>
          History(AccountRows(a) \cup OwnRows(c, a), a, seq[c][a], run[c][a])

IInv ==
    /\ TypeOK
    /\ RunningBalance
    /\ \A c \in Call : TxInv(c)

\* No caller is left without an answer, by locks, rivals or retries.
EveryCallAnswered == \A c \in Call : <>(pc[c] = "done")

\* What is posted was acceptable on the account statuses its own call read,
\* and a call that was refused left no ledger row, post or event behind.
OnlyValidated ==
    /\ \A p \in posts : ValidLines(lines[p], seen[p])
    /\ \A c \in Call : outcome[c].how \in {"refused", "conflict"} =>
          /\ c \notin posts /\ emitted[c] = 0
          /\ \A r \in ledger : r.post # c

\* Claims of the documents that the code does not keep (see the README).

\* R4/R5: "once closed, no new posts into the period".
NoPostIntoClosed ==
    [][\A p \in posts' \ posts : ~PeriodClosed(Req[p].period)]_vars

\* The reversal flow's precondition, "posted and not already reversed", and
\* its postcondition that the two posts point at each other.
ReversedOnce ==
    \A p \in posts : Req[p].kind = "reversal" => reversedBy[Req[p].reverses] = p

\* "The pre-transaction SELECT is only a fast path": it answers only what
\* the unique indexes would have answered.
ReuseIsArbitrated ==
    \A c \in Call : outcome[c].how = "reused" => Clash(c, outcome[c].post)

\* The GL-posting contract with all concurrency removed.
Book == INSTANCE GLBook WITH
    entries <- {[id |-> p, lines |-> lines[p]] : p \in posts},
    worth <- balance,
    reply <- outcome
ImplementsBook == Book!Spec
=============================================================================
