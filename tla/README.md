# Backbone Accounting in TLA+

Formal models of the accounting module in `src/`: a Rust service layer over
PostgreSQL (sqlx, READ COMMITTED) that keeps a double-entry general ledger.
The models follow the code; where a document, a comment or a test of the
repository says something else, a run shows the disagreement (see
[Where the documents and the code differ](#where-the-documents-and-the-code-differ)).

Contents: [the system](#the-system) · [modules](#the-modules) ·
[runs](#the-runs) · [fairness](#fairness) · [proofs](#the-proofs) ·
[differences](#where-the-documents-and-the-code-differ) ·
[not modelled](#what-is-not-modelled) · [plan](#plan)

## The system

All state is in PostgreSQL. Services are stateless and run in any number of
tokio tasks and processes; they interact through rows, row locks, unique
indexes and triggers, and through direct calls of one service by another. The
only asynchronous message is the event published after a posting.

| Component | State | Operations | What makes it correct | Modelled |
|---|---|---|---|---|
| **GL posting** (`posting_service.rs`, `posting_repository.rs`, `posting_rules.rs`) | `ledgers`, `accounts.current_balance`, `journals`, `journal_lines`, `accounting_posts` (posted and failed rows, reversal links) | `post` (original, reversal, adjustment, correction), `post_journal` | entries whole and balanced; running balances unbroken under concurrency; one entry per identity; retries get the same answer; no deadlock; no post into a closed period | partly |
| **Period close** (`period_close_service.rs`) | `fiscal_periods.status`, `closed_at`, `reopened_at` | `close_period_as`, `lock_period`, `reopen_period` | one close at a time; P&L rolled exactly once per cycle; a failed close gives the period back; locked is final | yes |
| **Manual-journal workflow** (`journal_workflow_service.rs`) | `journals.status` and its metadata stamps | `submit_as`, `approve`, `reject`, `void` | ledger and status agree; one posting and one reversal; segregation of duties | yes |
| **Reconciliation graph** (`reconcile_write_service.rs`, `reconcile_rules.rs`, `reconcile_graph_repository.rs`) | `partial_reconciles`, `full_reconciles`, group stamps of journal lines | `reconcile_pair`, `unreconcile_pair`, `unreconcile`, generated exchange-difference and cash-basis journals | no line applied beyond its face; a stamp only on settled lines; undo restores books and reversals; no verb waits for ever | partly |
| **Bank reconciliation** (`bank_reconciliation_service.rs`) | `reconciliations`, `reconciliation_items`, `ledgers.is_reconciled` | `reconcile` (greedy matching of a statement) | nothing matchable left open, references respected | yes |
| **Check printing** (`check_printing_service.rs`) | `bank_check_sequences`, `printed_checks` | `register_sequence`, `allocate_check_numbers`, `record_printed_check`, `void_printed_check` | numbers consecutive, refusals consume none | yes |
| **Tax-tag repair** (`tax_tag_repair_service.rs`) | tags on posted journal lines, repair runs | `recompute`, `list_runs` | no retagging in a locked period, in a closed one only by override | yes |
| **Chart install** (`chart_install_service.rs`) | `accounts` | `install` | absorbs no account it does not own | partly |
| **Reporting** (`reporting_service.rs`, `reporting_repository.rs`) | none (read queries) | trial balance, statements, general ledger, partner ledger, aging | reports agree with the ledger and with each other; open items differ from it by unposted and otherwise dated lines only | partly |
| **EMV / QRIS** (`emv_qr.rs`) | configuration rows | encode a payload | TLV lengths and checksum | no |
| **Hierarchy listing** | none | one recursive query | | no |
| **HTTP surface** (`presentation/http`) | none | routes, permission guards, error mapping | which writes are reachable | no |
| **Generated CRUD, schema, composition** | every table | generic repositories, migrations, wiring | the indexes and triggers the services rely on | only where met |

How they interact:

* Period close, the journal workflow and the generated journals of the
  reconciliation graph *call* GL posting. It is the only writer of `ledgers`
  rows; bank reconciliation only flags them.
* Posting *reads* the period that period close moves, outside its transaction;
  tax-tag repair and the generated journals read it too.
* Posting and account maintenance share `accounts` rows, arbitrated by row
  locks. The unique indexes on `accounting_posts` arbitrate identities.
* Two verbs of the reconciliation graph meet on the row locks of journal lines.
  Those locks are taken in more than one order, so PostgreSQL's deadlock
  detector is part of the design.
* The budget port and the event sink are callbacks supplied by the embedding
  service.

The hard behaviour is therefore: check-then-act across transactions, row locks
taken in an order, unique indexes met in the middle of a transaction, commits
whose answer is lost, processes that die between two transactions, retries.
`PROJECT.json` lists each place ("hazards") with the property that watches it.

## The modules

| Module | Models | Kind |
|---|---|---|
| `LedgerRules` | lines, `posting_rules::validate`, reversal lines, a line's balance change | pure operators |
| `GLBook` | what a caller may rely on: a book of whole, balanced, uniquely identified entries | abstract specification |
| `Posting` | `PostingService::post` over `SqlxPostingRepository`, concurrent | component, implements `GLBook` |
| `PeriodClose` | `PeriodCloseService` with postings racing it | component composed with posting's contract |
| `JournalWorkflow` | `JournalWorkflowService` and `post_journal` over one journal | component composed with posting's contract |
| `ReconcileGraph` | edges, residuals, groups and line locks of `ReconcileWriteService` | component, concurrent |
| `SettlementMoves` | the journals a pair generates and what unlinking does to them | component, one verb a step |
| `BankReconciliation` | matching of statements with ledger rows in two transactions | component and pure matching |
| `CheckPrinting` | check numbers of one bank journal | component |
| `TaxTagRepair` | re-tagging runs across periods that move | component |
| `ChartInstall` | versions of a chart written over what managers made of it | component |
| `Reports` | the reports as operators over a ledger that grows out of date order | pure operators over a small state machine |
| `MC*` | instances for TLC; `MCBackOffice` also composes the six modules before it | constants |
| `SumTheorems` | lemmas about sums over finite sets, least and greatest numbers, recursion over numbers | TLAPS |
| `*_proofs` (seven) | theorems about `Posting` (three modules), `PeriodClose`, `JournalWorkflow`, `ReconcileGraph`, and the six components of `BackOffice` in one | TLAPS |

Definitions whose comment begins with `bug:` are not part of any
specification. They are plausible mistakes in the definition below them, used
to see that a property notices.

### Granularity

A step is one SQL statement, or a run of statements that only touch rows the
transaction has already locked. Under READ COMMITTED each statement sees the
rows committed when it starts, so everything other tasks do falls between steps.
Uncommitted writes are private variables of the call (`run`, `seq`, `rows` in
`Posting`, `made` and `gone` in `ReconcileGraph`) and are published by the step
that commits. Where every transaction of a component begins by locking one and
the same row (`CheckPrinting`), or whoever touches a document holds its line
(`SettlementMoves`), a transaction is one step.

### `LedgerRules` and `Posting`

| In the code | In `Posting` |
|---|---|
| `find_existing_post` before anything else | `Find`, over `Existing` |
| `build_reversal_lines` | `ReadSource`, with `Swap` |
| `load_accounts`, `is_period_closed`, `validate`, the budget port | `ReadAccounts`, `Validate` (the verdict is chosen), `ReadFails` |
| `record_failed_best_effort` | `RecordFailed`: the row may or may not be written |
| `SELECT ... ORDER BY id FOR UPDATE` | `LockNext`, one account a step, in id order, waiting for the holder and reading the row after the wait |
| `MAX(sequence_number)` per account | `ReadSequences` |
| the loop of `append_ledger_entries` | `AppendLine`; `PanicOnMissing` where the locked map is indexed with an account soft-deleted meanwhile |
| `INSERT INTO accounting_posts` under the partial unique indexes | `InsertPost`: waits for an uncommitted rival, loses to a committed one |
| `COMMIT` (balances, ledger, post, reversal links) | `Commit` |
| the lookup after a unique violation | `Resolve` |
| `AccountingPostPosted` through the sink | `Emit`: the publication may be lost |
| a failing statement, a lost connection, a killed process, at any point | `Abort` |

The environment edits accounts (`EditAccount`, which waits for the row lock like
any UPDATE) and moves the period (`MovePeriod`). A post is named by the call
that wrote it. The accounts are integers whose order is the order of the ids,
since deadlock freedom depends on it. Amounts are integers: the code's decimals
are exact, so no rounding is lost. Two lines on one account, accounts with
debit and credit normal balance and a party account all occur in the instances.

### `PeriodClose`

One period, one tenant. A close is `ReadPeriod`, `BeginClose` (the conditional
UPDATE that claims), `SumBalances`, `FindEntry`, `CheckEntry`, `CommitEntry`,
`FinishClose` or `AbortClose`; `PostFails` and `Crash` are its failures. The
verbs are `RequireClosed`, `Move` (the conditional UPDATE) and `RequireAgain`
(the read that words the refusal). `CheckPeriod` and `CommitPosting` are other
producers. A posting is one atomic, keyed entry some time after its check of
the period: `Posting_rivals` and the theorems of `Posting_identity_proofs` are
what entitles the model to that. `reopened_at` is a counter, as only its
equality matters.

### `JournalWorkflow`

One journal, several calls: `Submit`, `Reject`, `ReadAuthors` and `Approve`,
`LoadJournal` / `CommitJournal` / `RefuseJournal` (`post_journal`, reached from
the approval and, being public, directly by an embedding service), and `ReadStatus`, `OriginalPost`,
`FindReversal`, `CommitReversal` / `RefuseReversal`, `MarkVoided` for a void.
The transition trigger on `journals` is `MayBecome`. `Die` is a process or
connection lost between two statements.

### `ReconcileGraph`

| In the code | In `ReconcileGraph` |
|---|---|
| `reconcile_pair_on`, `unreconcile_pair_on`, `unreconcile_on` up to the first lock | `StartLink`, `StartUnlinkPair`, `StartUnlink` (which has read the partial before any lock) |
| `SELECT ... FOR UPDATE` of the pair, debit first; of the rest of a component, in id order | `LockLine`, one line a step |
| guards G2 to G6, the clamp G7, `insert_partial`, `component_line_ids` | `Link` over `Pairable`, `Clamp`, `Component` |
| `unlink_partials` up to its component | `Unlink` |
| `complete_group_for`, `distinct_group_stamps`, `attach_group` | `GroupFor`, `Stamps`, `AttachPartials` in `CommitLink` and `CommitUnlink` |
| the dissolve of emptied groups, with the foreign key of the lines | `Emptied`, `DissolveAllowed`, `LookForReversals` |
| `pair_reversal_counterparts` | `PairReversal`, which locks the reversal line while it holds the first |
| a failing statement, a deadlock victim | `Abort`, `Victim` |

A residual is never stored, in the code as in the model: it is the face less the
edges (`RESIDUAL_EXPR`). The stamps of lines (`flag`) are stored, and that they
agree with the residuals is what has to be shown. `unlink_partials` reads the
survivors of the groups it empties before it locks the component; the model does
both after the lock. Rates are equal and nothing is
deferred here; that is the subject of `SettlementMoves`.

### `SettlementMoves`

`LinkPair` is a whole `reconcile_pair_on` with `post_exchange_move` and
`post_cash_basis_move`: the pair's partial, an exchange partial on the line that
keeps the rate difference, and a tax partial up to the share now paid, each with
its journal. `UnlinkOne` and `UnlinkBetween` delete a closure of partials and
reverse the journals stamped with its pairs. `ShutMonth` closes the period the
journals would fall in. Rounding is `round2`, half away from zero, in cents.

### `BankReconciliation`, `CheckPrinting`, `TaxTagRepair`

`ReadBook` and `CommitMatches` are the two transactions of `reconcile`;
`Matched` is the greedy loop as a recursive function. `Register`, `Allocate`,
`RecordAuto`, `RecordManual` and `Void` are the transactions of check printing;
a transaction that is refused rolls back and is no step, so that a refusal consumes
no number is the rollback of PostgreSQL and not a result of the model. `Void` is one
step; the code does not lock the sequence row there, which changes
nothing here, since a number stays taken whether it is voided or not. A repair is
`BeginRepair` (the read of the locked periods), `ReadClosed`, one `ApplyRule` for
each rule and `CommitRepair`; `MoveTagPeriod` moves periods in between.

### `ChartInstall`

`PassGates` is the validation of the dataset, the refusal over live books and
the refusal of foreign overlaps; `WriteChart` is the upsert of each row.
`CreateAccount`, `Renumber`, `DeleteSoftly` and `FirstPosting` are the
environment. An id is derived from the chart and the code, which is the number
without its dots, so "1.1" and "11" are one account with two numbers. Deletions
and a first posting may fall between the gates and the upserts. Creations,
renumberings and other installs are kept out of that window, so
`InstallAbsorbsNothing` says nothing of a race in it: see the observations.

### `Reports`

The state machine only makes what the reports read. `PostEntry` is a post: journal,
lines and ledger rows at once, in any order of dates. `DraftJournal` is a manual
journal, whose lines are stored from the start (by the host, or the generated
CRUD of `all_crud_routes`) and stay when it is rejected or cancelled;
`PostJournal` adds its ledger rows, later or never. `LinkEntries` needs posted
lines of a live account, `UnlinkEntries` deletes a set of partials; then
`MoveAccount` and `DeleteAccount`. The reports are operators over it.

They do not read the same thing, and the model keeps them apart. The statements and
the general ledger (`Net`, `TotalDebit`, `RolledUp`, `Assets`, `NetIncome`,
`Opening`, `Closing`) read ledger rows by `posting_date` (`e.date`). The open
items (`Items`, `OpenResidual`, `AgedTotal`) read `journal_lines JOIN journals`,
of any status, by `transaction_date` (`e.transaction`), which is also what
`max_date` is taken from. A generated journal has one date for both; the header of
a manual one has two. So the open items do not tie to the ledger as such, and
`ResidualsTie` says by exactly what they differ: the lines of `NotYetBooked` (not
posted, or posted under a later date) and of `BookedBefore` (in the ledger by a
date before their own). Where both are empty, the signed residuals are the balance
of the receivable.

## The runs

Every run explores its whole state space. Deadlock checking is on in every
passing run but `BackOffice`: each next-state relation has a disjunct for
"everything has ended", so a set of calls that cannot go on is an error. In
`BackOffice` it is off: its scenes have bounded inputs and really may stop.

| Run | Question | Properties |
|---|---|---|
| `Posting_rivals` | Do two posts under one key, a reversal and an unrelated post ever lose an update, wait for each other for ever, or disagree? | `TypeOK`, `IInv`, `RunningBalance`, `NoWaitCycle`, `AtMostOneEvent`, `AnswersAgree`, `OneEntryPerIdentity`, `ReversalNetsZero`, `ImplementsBook`, `EveryCallAnswered` |
| `Posting_refuse` | Does a refusal, at whichever point, leave anything, and does a loser on the tuple index find the winner? | `WholeEntries`, `OnlyValidated`, `LoserFindsWinner` |
| `PeriodClose_claims` | Can closes, verbs and postings step on each other, through failures and deaths, and does every claim end? | `TypeOK`, `ClaimExclusive`, `NothingRolledTwice`, `ClosedIsZero`, `LockedIsFinal`, `AdjustingIsRestored`, `ClaimReleased` |
| `JournalWorkflow_races` | Do status and ledger agree whoever races and dies? | `TypeOK`, `LedgerFollowsStatus`, `PostedOnce`, `AnswersStand`, `VoidResumes` |
| `ReconcileGraph_races` | Can links and unlinks over shared lines over-apply, mis-stamp, or hang? | `TypeOK`, `NothingOverApplied`, `StampedIsSettled`, `HeldIsStable`, `LinkStampsSettled`, `FreedIsReversed`, `EveryVerbEnds` |
| `BackOffice` | Do the six components that do not race with posting keep their promises? | `TaxFollowsPayment`, `BooksFollowPartials`, `NumbersUnbroken`, `MatchIsMaximal`, `ReportsAgree`, `ResidualsTie`, `LockedLinesKeepTags`, `InstallAbsorbsNothing` |
| `Posting_closed_period`, `Posting_twice_reversed`, `Posting_swallowed`, `PeriodClose_stale_cycle`, `JournalWorkflow_self_approval`, `Settlement_double_tax` | documented claims the code does not keep | one each |

Bounds, and why they are enough:

* **Four calls of `post`** in `Posting_rivals`, three in `Posting_refuse`.
  Identities are a relation between two calls; a third is what can turn a wait
  into a cycle, a fourth reverses one of the rivals. The rivals share a key but
  no account, since with a shared account the row lock would serialise them
  before the index is reached; the unrelated post names the accounts in the
  opposite order, so the lock order matters, and one post has two lines on one
  account. `Posting_refuse` adds what refuses: an unbalanced request, budget
  verdicts, deactivated and deleted accounts, a period that moves. Its two
  keyless posts of one source meet on the tuple index.
* **Three accounts, with non-zero opening balances** (`SomeOpening`), so a first
  ledger row that ignores the opening balance shows.
* **One period**: a post looks at one.
* **Three closes, a reopen, a lock and two postings**: a close that succeeds, a
  second after the reopen, and a stale third is the longest chain the key of
  the closing entry can distinguish. Two closes may fail and one may die; the
  third lives, so that a failure is followed by a success. The period begins with an
  expense that one of the postings refunds, so a close with nothing to roll, a
  close of two lines and a close with a line on its other side all occur.
* **Six calls on a journal**: each verb once and the void twice, since
  the resumed void is the point; three of them may die.
* **Two sessions, four lines, two partials** (`MaxEdge`) in
  `ReconcileGraph_races`, with verbs without number: lines 1 and 2 settle line 3 between
  them, which is the smallest component that grows, and line 4 reverses line 1.
  A session that unlinks and links again uses up ids, so two partials are two
  inserts. `MaxEdge = 3` was explored once, outside the recorded runs (352,040
  distinct states), with the same result.
* **One scene at a time** in `BackOffice`: the components share no state in the
  code, so a scene is chosen at the start and the state spaces add up. An
  invoice of 9 cents that deferred 5, four links (`MaxLinks`), receipts that
  pay it in parts, one of them at another rate and one that deferred tax itself,
  so shares round up and down. Three check numbers (`MaxCheckNumber`), allocated
  by one and by two, so the ceiling is met from either side. Two statements of up to two
  lines (`MaxStatement`) over three entries, two of one amount: the smallest
  where the first hit is the wrong one. Two periods of two days, windows that cut
  them, rules that overlap, two runs (`MaxRuns`). Four versions of a chart (one
  invalid) and another chart, with a dot moved, an account added and one
  dropped. Three entries posted and two drafted over three dates, in any order: of
  the drafts one sale has its ledger rows two days after its own date, one
  write-off the day before, and either may never be posted.

Nothing else grows without bound: each call runs once, so the calls are the
bound, and a retry is a call of its own. No symmetry is used.

## Fairness

`FairSpec` of each module gives weak fairness to the steps of each call: a tokio
task that can go on is polled again. Nothing forces a failure: `Abort`,
`ReadFails`, `Crash` and `Die` are in no fairness condition, with one exception,
`PostFails`, which is in disjunction with the ordinary steps of a close and so
only says that the close goes one way or the other. In `Posting` a call that
waits for a row lock has no enabled step while the holder lives, and the lock is
eventually released because the holder too is fair; weak fairness suffices
because each call runs once, so no holder comes back for ever. Period verbs and
other producers have no fairness.

Sessions of `ReconcileGraph` run one verb after the other, so a line can be
taken again and again while someone waits for it. There `Locking` has strong
fairness, which is what PostgreSQL's queue of waiters for a row gives, and
`Victim` has weak fairness, which is what its deadlock detector gives: a
transaction in a cycle of waits is failed. Without `Victim`, `EveryVerbEnds` is
false, since the locks of a component are taken after those of the pair.
`BackOffice` states no liveness.

## The proofs

The theorems hold for every value of the constants that satisfies the named
`ASSUME`s; TLC evaluates those on every run. Every safety property that a
passing run checks, of states or of steps, is stated by a theorem, and so is the
refinement of `GLBook` by `Posting`. The larger inductive invariants were
first checked by TLC on the instance of the run.

**Sums and recursion** (`SumTheorems`). Amounts are added up with
`SumFunction`, a recursive function that takes the elements of a set in an order
of its own. The provers cannot use an induction theorem that takes an operator,
so each induction is by the smallest counterexample, a number
(`SmallestNumber`) or a subset (`SmallestSubset`), which exists because the
orders are well founded. `SumsExist` shows that the recursion defines something,
`SumsAgree` and `SumsRemove` that the order of the elements does not matter; the
rest follows: adding an element, splitting a domain, renaming it (`SumRename`),
adding up by groups (`SumFibers`), bounds. `Iterates` does the same for
a recursive function over `0..n` (the rounds of a matching, the way up a tree,
the growth of a component): the function that the model's `LET` chooses exists.

**Posting, balances** (`Posting_proofs`). `RunningBalance` alone is not
inductive: between reading a balance and committing, a call has to know that
nobody else has moved it. `IInv` adds `TxInv` for each call: only a call in its
transaction holds rows; its private rows are on accounts it holds; while it is
locking, the balance it has read for an account it holds is the committed one;
afterwards the committed rows of such an account together with its private rows
are an unbroken `History` ending at its running balance. The proof has one step
per action; `AppendLine` extends a history by a row and `Commit` replaces the
committed history by the extended one on exactly the accounts held. Theorems:
`Inductive`, `TypeCorrect`, `BalanceUnbroken`.

**Posting, identities** (`Posting_identity_proofs`). `IdInv` says where in its
life a posted or about-to-be-committed call can be, and that no two such calls
clash; it is preserved because `InsertPost` looks at both committed and
uncommitted rivals. From it follow `OneEntry`, `LoserHasWinner` (a loser's
winner is committed, and posts are never removed), `RetriesAgree` and
`OneEventAtMost`. `ValidatedOnly` adds that a call past validation has a valid
request. `NobodyDeadlocks` is about waiting: `WaitInv` says that a locking call
is past every account it holds, and that what it is past comes before the
account it awaits. Of the calls of a circle that wait for an account, the one that
waits for the last account would have to wait for a call holding a later one,
and there is none; a call that waits for a unique index entry waits only for a
call about to commit, which waits for nobody. The furthest call exists because
the number of accounts above the one awaited has a least value.

**Posting, the book** (`Posting_book_proofs`). `BookInv` relates the rows of a
call to its lines: the first `n` lines have one row each and nothing else has,
the running balance of an account it holds is the committed one plus what those
lines move, and the lines of a reversal are the swapped lines of a post recorded
before it. `EntriesWhole` follows since the changes of balanced lines, taken by
side, cancel out; `ReversalsNet` since swapping negates each change.
`BookImplemented` is the refinement, step by step: `Commit` records one whole
entry and moves each balance by the sum over its rows, `Find` and `Resolve` tell
a caller of an entry that is there, every other step stutters.

**Period close** (`PeriodClose_proofs`). `ClaimExclusive` is nearly inductive:
with types, a close past its claim keeps the period `closing`, and
every verb and claim asks for another status. `AdjustingIsRestored` and
`LockedIsFinal` follow from it as properties of steps. `QuietCloseIsZero` holds
with any writers: its invariant `QuietInv` says that until one of them has
posted, the sums of a close between the sum and the commit are still what is in
the accounts, that a close about to finish leaves the P&L at zero, and that once
any closing entry exists the P&L is zero. `RolledOnce` rests on `RollInv`: in
a P&L account where everything only accrues, the sums a close holds between its
sum and its commit never exceed what is in the account when it subtracts them.

**Journal workflow** (`JournalWorkflow_proofs`). The invariant ties each
call's program counter to what must already be in the ledger (a call at `mark`
has a reversal to point to, and so on). Theorems: `TypeCorrect`,
`LedgerAgrees`, `Once`, `TruthTold`.

**Reconciliation graph** (`ReconcileGraph_proofs`), in three layers.

* *Locks.* `HeldIsStable` needs the whole lock protocol, `GraphInv`: in each
  phase of a verb, which lines it holds or has still to lock, that both ends of
  every row it will insert or delete and every line it will stamp are among
  those, and that a row id names the same two lines in the table and in every
  copy of a row read before a lock (ids are handed out once). A commit by one
  session then cannot touch a line another holds. Theorems: `ProtocolKept`,
  `HeldStable`.
* *Amounts.* `MoneyInv` says of the committed rows, and of what each session
  sees with its own uncommitted ones, that no line is applied beyond its face
  and none with something left is stamped. A commit by another session leaves
  what a session sees of its own lines as it was and gives it the committed
  state on all others, so the two halves support each other. Theorems:
  `GraphTyped`, `NeverOverApplied`, `StampsSettled`.
* *Components.* `ScopeInv` says that the component a verb has read is closed
  under the edges that will be there after its commit, with no part cut off from
  its seeds, and stays so while others commit: of two verbs that grow side by
  side, the one that commits first touches nothing of the other's. That the
  component query returns the least such set is an induction over its rounds.
  Theorems: `LinkStampsComponent`, `FreedReversed`.

**Back office** (`BackOffice_proofs`), one section per component.

* *Check printing.* `CheckInv` types the cursor and ties `handed` to it.
  `Unbroken`, for any ceiling and any counts.
* *Tax-tag repair.* `RepairInv` says that the locked and closed periods a run
  remembers do not overlap its window (closed ones unless overridden), and that the
  tags it is about to write differ from the committed ones only inside the
  window. `LockedKept`, for any periods, windows and rules.
* *Chart install.* The invariant says that while an install is past its gates,
  its dataset is valid and every live account it overlaps is its own; ids do not
  collide by `HashAssumption`. `AbsorbsNothing`.
* *Settlement moves.* `MoveInv`: a derived partial hangs on the lines of its pair
  (so whatever takes out the pair takes it along), the journals not reversed are
  those of the live partials, and of each document the tax flipped is within what
  it deferred and is all of it once it is paid. The arithmetic is that of
  `round2`: a share of the tax rounds to at most the tax, and the share of the
  whole is the tax. `BooksFollow`, `TaxFollows` and `TaxOnce` have the premise
  `Unlinkable \subseteq {"pair"}`, that callers take out pairs and not what was
  derived from them. Nothing in the code ensures it, and without it the last one
  is false: that is difference 6 below.
* *Bank reconciliation.* `Greedy` is the invariant of the matching loop: nothing
  left over fits a line already passed, nothing is taken twice, and a reference
  is honoured wherever every line names an entry of its own, since then no line
  has taken the entry of a later one. `MatchMaximal`, for statements and books of
  any size.
* *Reports.* `ReportInv` says that entries are posted once each, with a stored
  journal, and that every link is on a posted debit and a posted credit line of
  transaction dates up to its own, none linked beyond its amount. `ResidualsAgree`:
  what is linked to the debit side is what is linked to the credit side, since each
  link is on one line of either and in the report with both (`LinksWithinItems`);
  the faces of the report and of the ledger differ by the lines that only one of
  them has (`BookedLater`).
  `ReportsAreOne`: debits and credits are one sum grouped two ways
  (`SumFibers`); the way up from a live account of a whole chart passes no
  account twice, so it ends at one root within the steps the code takes, and the
  tree is the flat total grouped by root; the rows of a window are numbered by
  how many come before them in the order of their dates, so a page that ends
  at row `n` and one that begins at `n + 1` have no row of the account between
  them.

The assumptions are types of the constants and finiteness of what the database
holds, with these exceptions that say something of the world: `HashAssumption`
(derived ids do not collide), the order on accounts and lines (uuids are compared
by PostgreSQL as the model compares integers), `MoveAssumption` and
`EntryAssumption` (faces and amounts are positive, a receivable line has one
side, an entry of the reports is between two accounts, as posting's
validation and the two-line entries of the model make them; a journal that was never
a draft has one date, as `commit_posting_on` writes it), and
`DirectoryAssumption` (entries are on detail accounts, which have one of the five
types).

Only model-checked: liveness (`EveryCallAnswered`, `ClaimReleased`,
`VoidResumes`, `EveryVerbEnds`), which rests on fairness and so on `ENABLED`,
and the proof system handles neither.

## Where the documents and the code differ

Each of these has a run whose counterexample shows it.

1. **A post can land in a closed period** (`Posting_closed_period`). The period
   is read once, before the transaction (`posting_service.rs:310`); `docs/brd.md:80`
   says no new posts once closed.
2. **A post can be reversed twice** (`Posting_twice_reversed`) by reversals with
   different identities; the second overwrites the link
   (`posting_repository.rs:449`). `docs/brd.md:66` asks that the original is not
   already reversed.
3. **A keyless post can be swallowed** (`Posting_swallowed`): the lookup by source
   tuple also returns keyed rows (`posting_repository.rs:113`), which the unique
   index would not have stopped.
4. **A stale close can leave reopened P&L unclosed** (`PeriodClose_stale_cycle`):
   the key of the closing entry comes from the read before the claim
   (`period_close_service.rs:125`).
5. **The submitter can end up as approver** (`JournalWorkflow_self_approval`) when
   the submission falls between the read of the authors and the approval
   (`journal_workflow_service.rs:162`).
6. **Deferred tax can be posted twice** (`Settlement_double_tax`): `unreconcile`
   takes the derived partial of a tax flip by its own id
   (`reconcile_write_service.rs:868`), reverses no journal, and the next payment
   flips the same share again; lines 520-521 say that the flips telescope to the
   face.

Other observations, without a run of their own.

Posting, periods and journals:

* While a period is `closing` postings are accepted, so one that falls between
  the sum and the end of the close stays in the closed period's P&L. This is
  why `ClosedIsZero` speaks of the time until another posting has landed.
* A period with a P&L account on its other side (a refund larger than the
  spending) cannot be closed: the closing line gets a negative amount
  (`period_close_service.rs:233`) and posting refuses it. `PeriodClose_claims`
  takes that branch.
* A close that lost the claim reads the period again and may answer "already
  closed" about a period whose winner has failed meanwhile (`SayWhatWon`).
* A process that dies between the claim and the end of a close leaves the
  period `closing`; no verb takes it out.
* The event of a committed post may never be published; delivery is at most
  once (`AtMostOneEvent`), as ADR-002 says.
* An approved journal whose posting was refused stays `approved`; approve and
  reject then refuse it and no route calls `post_journal`.
* The loser of two concurrent `post_journal` calls gets an internal error and
  not the winner's post (`CommitJournal`, second disjunct).
* `accounts.current_balance` has no write protection in the generated CRUD.

Reconciliation:

* Verbs of one component can deadlock (locks of the pair, then of the component,
  then of a reversal); the service does not retry the victim.
* A component whose lines carry two different stamps is reachable: unlink one
  partial of each of two groups and link the freed lines with each other. The comment
  at `reconcile_write_service.rs:719` calls it unreachable; such a component is
  never grouped.
* Unlinking the partial between a line and its reversal frees both, so the same
  verb links them again.
* In an unlink whose partial is not stale, completing a group never succeeds:
  the freed line leaves the component unsettled.
* An unlink that loaded its partial before another verb deleted it clears the
  stamps of lines grouped since, or fails on the foreign key of their group.
* A settlement at another rate leaves part of the deferred tax unflipped, since
  the exchange partial is no payment; a test of the repository pins the amounts.
* The reversal counterpart is the first line of the opposite journal on the
  account; with several such lines it may be another line, or one on the same side.

Back office:

* Two statements may match one ledger row: the row then points to the later
  one, and the earlier one still lists it.
* Registering a check sequence below numbers already printed stops automatic
  printing: each refusal rolls the cursor back. "007" and "7" are two numbers.
* A period closed at the first read of a repair and locked before the second
  passes both without the override; one locked after both is re-tagged.
* Between the gates and the upserts of a chart install, a manager may create or
  renumber an account, another install may write, and a first posting may commit.
  No unique index on numbers or codes is left to stop the result.
* `trial_balance` leaves out soft-deleted accounts, so one deleted with ledger
  rows makes it not foot (`WholeChart` is the premise of `StatementsAgree`). Sums
  and directory are read on two connections. `OpenResidual` and `AgedTotal` have no sign.
* The partner ledger and the aging count the lines of draft, pending, rejected and
  cancelled manual journals, and date all lines by `transaction_date`
  (`reporting_repository.rs:215-228`, `263-274`); the ledger row of a manual
  journal carries its `posting_date`. `reporting_service.rs:5` says that every
  report is computed from the immutable ledger, and `docs/brd.md:88` that aging is
  computed off the ledger. `ResidualsTie` states the difference.
* A link made later between older lines lowers `OpenResidual` and `AgedTotal` of
  every date from its `max_date` on; only the sum with signs, and dates before
  `max_date`, are as they were. An aging printed once cannot be had again.
* The recursive query of the hierarchy listing does not end on a cycle of
  parents, which the account routes do not refuse.

## What is not modelled

* *GL posting*: adjustment and correction take the path of an original post;
  dimensions, currencies and texts do not steer anything and are left out;
  multi-tenancy (row-level security) is left out, all calls are of one tenant.
* *Reconciliation graph*: guards G2 to G6 are one set of admissible pairs; each
  generated journal is a whole entry; group and journals are in two modules, since
  the state they share is the lines that both lock.
* *Chart install*: paths, levels, names, settings, and the window above.
* *Reporting*: the buckets of the aging and the currency columns; base amounts of
  manual lines that differ from the amounts (the face of a residual is the base amount,
  which the writer of the line supplies); changes to a draft once it is stored.
* *EMV / QRIS*: a stateless encoder of strings; its only properties are about
  the characters it writes.
* *Hierarchy listing*: one read query.
* *HTTP surface, composition, generated CRUD, schema*: no logic of
  their own beyond guards and wiring; the indexes and triggers that matter are
  translated where the services meet them.

The models cover the hand-written services and their repositories, a small
part of the repository's lines. About five lines in six are generated: entities with
builders and field patches, DTOs, exports, handlers, seeders and routes, one set
for each table, over a generic repository that is a library. They hold no
transition, guard or order of steps of their own. A model of them would restate
field lists, so the share of lines the models stand for stays low by design.

## Plan

Done: every module above, and a theorem for every safety property. Left, in this
order:

1. The window of `ChartInstall`, with the property weakened to what holds in it.
2. The buckets of the aging against a reference definition.
3. Retries of deadlock victims by callers of the reconciliation graph.
4. `BooksFollow` and its companions under the weakest premise on what callers may
   take out.
