--------------------------- MODULE Posting_proofs ---------------------------
(***************************************************************************)
(* Theorems of Posting, for every set of calls, accounts and requests.     *)
(***************************************************************************)
EXTENDS Posting, TLAPS

-----------------------------------------------------------------------------
(* The operators the posting is built from.                                *)

\* The change a line makes is a number.
LEMMA ChangeType == \A l \in Line : Change(l) \in Int
BY DEF Change, Line

\* Exchanging the sides of lines gives as many lines.
LEMMA SwapType ==
    ASSUME NEW ls \in Seq(Line)
    PROVE  Swap(ls) \in Seq(Line) /\ Len(Swap(ls)) = Len(ls)
<1>1. Len(ls) \in Nat /\ DOMAIN ls = 1..Len(ls) /\ \A i \in 1..Len(ls) : ls[i] \in Line
  OBVIOUS
<1>2. Swap(ls) = [i \in 1..Len(ls) |->
        [ls[i] EXCEPT !.debit = ls[i].credit, !.credit = ls[i].debit]]
  BY <1>1 DEF Swap
<1>3. \A i \in 1..Len(ls) :
        [ls[i] EXCEPT !.debit = ls[i].credit, !.credit = ls[i].debit] \in Line
  BY <1>1 DEF Line
<1>4. Swap(ls) \in [1..Len(ls) -> Line]
  BY <1>2, <1>3
<1>5. QED
  BY <1>1, <1>4

\* The next row carries a history on by one.
LEMMA HistoryExtends ==
    ASSUME NEW R \in SUBSET Row, NEW a, NEW n, NEW b \in Int, NEW x \in Int,
           History(R, a, n, b),
           NEW row \in Row, row.account = a, row.seq = n + 1,
           row.before = b, row.change = x, row.after = b + x
    PROVE  History(R \cup {row}, a, n + 1, b + x)
<1>1. n \in Nat /\ n + 1 \in Nat /\ n + 1 > 0 /\ n + 1 # 0
  BY DEF History
<1>2. \A r \in R : r.seq \in 1..n /\ r.seq # n + 1 /\ r.seq \in Nat
  BY <1>1 DEF History, Row
<1>3. ASSUME NEW r \in R \cup {row}
      PROVE  /\ r.account = a /\ r.seq \in 1..(n + 1)
             /\ r.after = r.before + r.change
             /\ r.seq = 1 => r.before = Opening[a]
             /\ r.seq > 1 => \E q \in R \cup {row} : q.seq = r.seq - 1 /\ q.after = r.before
  <2>1. CASE r \in R
    BY <2>1, <1>1, <1>2 DEF History
  <2>2. CASE r = row
    <3>1. r.seq = 1 => n = 0
      BY <2>2, <1>1
    <3>2. r.seq > 1 => \E q \in R : q.seq = r.seq - 1 /\ q.after = r.before
      BY <2>2, <1>1 DEF History
    <3>3. QED
      BY <2>2, <3>1, <3>2, <1>1 DEF History
  <2>3. QED
    BY <2>1, <2>2
<1>4. ASSUME NEW q \in R \cup {row}, NEW r \in R \cup {row}, q.seq = r.seq
      PROVE  q = r
  BY <1>2, <1>4 DEF History
<1>5. \E r \in R \cup {row} : r.seq = n + 1 /\ r.after = b + x
  OBVIOUS
<1>6. QED
  BY <1>1, <1>3, <1>4, <1>5 DEF History

\* COALESCE(MAX(sequence_number), 0) finds the end of a history.
LEMMA EndOfHistory ==
    ASSUME NEW R, NEW a, NEW n, NEW b, History(R, a, n, b)
    PROVE  (IF R = {} THEN 0 ELSE Max({r.seq : r \in R})) = n
<1>1. CASE R = {}
  BY <1>1 DEF History
<1>2. CASE R # {}
  <2> DEFINE S == {r.seq : r \in R}
  <2>1. n \in Nat /\ n \in S /\ \A s \in S : s \in 1..n
    BY <1>2 DEF History
  <2>2. \A x \in S : (\A y \in S : x >= y) => x = n
    BY <2>1
  <2>3. \A y \in S : n >= y
    BY <2>1
  <2>4. Max(S) = n
    BY <2>1, <2>2, <2>3 DEF Max
  <2>5. QED
    BY <1>2, <2>4
<1>3. QED
  BY <1>1, <1>2

-----------------------------------------------------------------------------
(* Type correctness: it needs RunningBalance, which is what makes the last *)
(* sequence number of an account a number.                                 *)

LEMMA TypeInit == Init => TypeOK
BY RequestAssumption, NilAssumption
   DEF Init, TypeOK, Request, Outcome, Pending, PC, AccountStatus, PeriodStatus

\* A step that only moves its call on and perhaps answers it.
LEMMA GotoType ==
    ASSUME TypeOK, NEW c \in Call, NEW there \in PC, Goto(c, there)
    PROVE  pc' \in [Call -> PC]
BY DEF Goto, TypeOK

LEMMA ReturnType ==
    ASSUME TypeOK, NEW c \in Call, NEW how \in {"refused", "conflict", "error", "posted", "reused"},
           NEW p \in Call \cup {Nil}, Return(c, how, p)
    PROVE  pc' \in [Call -> PC] /\ outcome' \in [Call -> Outcome]
<1>1. pc' \in [Call -> PC]
  BY GotoType DEF Return, PC
<1>2. outcome' \in [Call -> Outcome]
  BY DEF Return, TypeOK, Outcome
<1>3. QED
  BY <1>1, <1>2

\* What commit and rollback do to the locks and to the private state.
LEMMA EndTxType ==
    ASSUME TypeOK, NEW c \in Call, EndTx(c)
    PROVE  /\ holder' \in [Account -> Call \cup {Nil}]
           /\ visited' \in [Call -> SUBSET Account]
           /\ run' \in [Call -> [Account -> Int]]
           /\ seq' \in [Call -> [Account -> Nat]]
           /\ pos' \in [Call -> Nat]
           /\ rows' \in [Call -> SUBSET Row]
BY DEF EndTx, TypeOK

LEMMA ExistingType == \A c \in Call : Existing(c) \subseteq posts
BY DEF Existing

LEMMA FindType ==
    ASSUME TypeOK, NEW c \in Call, Find(c)
    PROVE  TypeOK'
<1>1. pc' \in [Call -> PC] /\ outcome' \in [Call -> Outcome]
  <2>1. CASE \E p \in Existing(c) : Reuse(c, p)
    BY <2>1, ExistingType, ReturnType DEF Reuse, TypeOK
  <2>2. CASE /\ Goto(c, IF Req[c].kind = "reversal" THEN "source" ELSE "accounts")
             /\ UNCHANGED outcome
    BY <2>2, GotoType DEF TypeOK, PC
  <2>3. QED
    BY <2>1, <2>2 DEF Find
<1>2. QED
  BY <1>1 DEF Find, TypeOK, txVars, glVars, logVars, envVars

LEMMA ReadSourceType ==
    ASSUME TypeOK, NEW c \in Call, ReadSource(c)
    PROVE  TypeOK'
<1>1. CASE /\ Req[c].reverses \in posts
           /\ lines' = [lines EXCEPT ![c] = Swap(lines[Req[c].reverses])]
           /\ Goto(c, "accounts")
           /\ UNCHANGED outcome
  <2>1. Swap(lines[Req[c].reverses]) \in Seq(Line)
    BY <1>1, SwapType DEF TypeOK
  <2>2. lines' \in [Call -> Seq(Line)]
    BY <1>1, <2>1 DEF TypeOK
  <2>3. pc' \in [Call -> PC]
    BY <1>1, GotoType DEF PC
  <2>4. QED
    BY <1>1, <2>2, <2>3 DEF ReadSource, TypeOK, txVars, glVars, logVars, envVars
<1>2. CASE Return(c, "conflict", Nil) /\ UNCHANGED lines
  <2>1. pc' \in [Call -> PC] /\ outcome' \in [Call -> Outcome]
    BY <1>2, ReturnType
  <2>2. QED
    BY <1>2, <2>1 DEF ReadSource, TypeOK, txVars, glVars, logVars, envVars
<1>3. QED
  BY <1>1, <1>2 DEF ReadSource

LEMMA ReadsType ==
    ASSUME TypeOK, NEW c \in Call,
           ReadAccounts(c) \/ Validate(c) \/ ReadFails(c)
    PROVE  TypeOK'
<1>1. pc' \in [Call -> PC]
  BY GotoType DEF ReadAccounts, Validate, ReadFails, PC
<1>2. CASE ReadAccounts(c)
  BY <1>1, <1>2 DEF ReadAccounts, TypeOK, txVars, glVars, logVars, envVars
<1>3. CASE Validate(c) \/ ReadFails(c)
  BY <1>1, <1>3 DEF Validate, ReadFails, TypeOK, txVars, glVars, logVars, envVars
<1>4. QED
  BY <1>2, <1>3

LEMMA AnswersType ==
    ASSUME TypeOK, NEW c \in Call, RecordFailed(c) \/ Resolve(c) \/ Emit(c)
    PROVE  TypeOK'
<1>1. CASE RecordFailed(c)
  <2>1. pc' \in [Call -> PC] /\ outcome' \in [Call -> Outcome]
    BY <1>1, ReturnType DEF RecordFailed
  <2>2. QED
    BY <1>1, <2>1 DEF RecordFailed, TypeOK, txVars, glVars, envVars
<1>2. CASE Resolve(c)
  <2>1. pc' \in [Call -> PC] /\ outcome' \in [Call -> Outcome]
    BY <1>2, ExistingType, ReturnType DEF Resolve, Reuse, TypeOK
  <2>2. QED
    BY <1>2, <2>1 DEF Resolve, TypeOK, txVars, glVars, logVars, envVars
<1>3. CASE Emit(c)
  <2>1. pc' \in [Call -> PC] /\ outcome' \in [Call -> Outcome]
    BY <1>3, ReturnType DEF Emit
  <2>2. QED
    BY <1>3, <2>1 DEF Emit, TypeOK, txVars, glVars, envVars
<1>4. QED
  BY <1>1, <1>2, <1>3

LEMMA LockNextType ==
    ASSUME TypeOK, NEW c \in Call, LockNext(c)
    PROVE  TypeOK'
<1> PICK a \in Account :
        /\ visited' = [visited EXCEPT ![c] = @ \cup {a}]
        /\ \/ /\ holder' = [holder EXCEPT ![a] = c]
              /\ run' = [run EXCEPT ![c][a] = balance[a]]
           \/ UNCHANGED <<holder, run>>
  BY DEF LockNext
<1>1. visited' \in [Call -> SUBSET Account]
  BY DEF TypeOK
<1>2. holder' \in [Account -> Call \cup {Nil}]
  BY DEF TypeOK
<1>3. [run[c] EXCEPT ![a] = balance[a]] \in [Account -> Int]
  BY DEF TypeOK
<1>4. run' = [run EXCEPT ![c] = [run[c] EXCEPT ![a] = balance[a]]] \/ run' = run
  OBVIOUS
<1>5. run' \in [Call -> [Account -> Int]]
  BY <1>3, <1>4 DEF TypeOK
<1>6. QED
  BY <1>1, <1>2, <1>5 DEF LockNext, TypeOK, callVars, glVars, logVars, envVars

LEMMA ReadSequencesType ==
    ASSUME TypeOK, RunningBalance, NEW c \in Call, ReadSequences(c)
    PROVE  TypeOK'
<1>1. \A a \in Account : LastSeq(a) \in Nat
  BY DEF RunningBalance, History
<1>2. seq' \in [Call -> [Account -> Nat]]
  BY <1>1 DEF ReadSequences, TypeOK
<1>3. pos' \in [Call -> Nat]
  BY DEF ReadSequences, TypeOK
<1>4. pc' \in [Call -> PC]
  BY GotoType DEF ReadSequences, PC
<1>5. QED
  BY <1>2, <1>3, <1>4 DEF ReadSequences, TypeOK, glVars, logVars, envVars

\* The row one iteration of append_ledger_entries writes.
NextRow(c) ==
    [account |-> lines[c][pos[c]].account,
     seq |-> seq[c][lines[c][pos[c]].account] + 1,
     before |-> run[c][lines[c][pos[c]].account],
     change |-> Change(lines[c][pos[c]]),
     after |-> run[c][lines[c][pos[c]].account] + Change(lines[c][pos[c]]),
     post |-> c, line |-> pos[c]]

LEMMA NextRowFacts ==
    ASSUME TypeOK, NEW c \in Call, TxInv(c), AppendLine(c)
    PROVE  LET a == lines[c][pos[c]].account IN
           /\ a \in Account /\ holder[a] = c /\ pc[c] = "append"
           /\ NextRow(c) \in Row
           /\ Change(lines[c][pos[c]]) \in Int
           /\ rows' = [rows EXCEPT ![c] = @ \cup {NextRow(c)}]
           /\ run' = [run EXCEPT ![c][a] = NextRow(c).after]
           /\ seq' = [seq EXCEPT ![c][a] = NextRow(c).seq]
<1> DEFINE l == lines[c][pos[c]]
<1>1. /\ holder[l.account] = c /\ pc[c] = "append"
      /\ pos[c] > 0 /\ pos[c] <= Len(lines[c])
  BY DEF AppendLine, TxInv
<1>2. holder \in [Account -> Call \cup {Nil}] /\ pos[c] \in Nat /\ lines[c] \in Seq(Line)
  BY DEF TypeOK
<1>4. rows' = [rows EXCEPT ![c] = @ \cup {NextRow(c)}]
  BY DEF AppendLine, NextRow
<1>5. run' = [run EXCEPT ![c][l.account] = NextRow(c).after]
  BY DEF AppendLine, NextRow
<1>6. seq' = [seq EXCEPT ![c][l.account] = NextRow(c).seq]
  BY DEF AppendLine, NextRow
<1>7. l \in Line
  BY <1>1, <1>2
<1>8. l.account \in Account /\ Change(l) \in Int
  BY <1>7, ChangeType DEF Line
<1>9. NextRow(c) \in Row
  BY <1>2, <1>8 DEF NextRow, Row, TypeOK
<1>10. QED
  BY <1>1, <1>4, <1>5, <1>6, <1>8, <1>9

LEMMA AppendLineType ==
    ASSUME TypeOK, NEW c \in Call, TxInv(c), AppendLine(c)
    PROVE  TypeOK'
<1> DEFINE a == lines[c][pos[c]].account
<1>1. /\ a \in Account /\ NextRow(c) \in Row
      /\ rows' = [rows EXCEPT ![c] = @ \cup {NextRow(c)}]
      /\ run' = [run EXCEPT ![c] = [run[c] EXCEPT ![a] = NextRow(c).after]]
      /\ seq' = [seq EXCEPT ![c] = [seq[c] EXCEPT ![a] = NextRow(c).seq]]
  BY NextRowFacts
<1>2. rows' \in [Call -> SUBSET Row]
  BY <1>1 DEF TypeOK
<1>3. [run[c] EXCEPT ![a] = NextRow(c).after] \in [Account -> Int]
  BY <1>1 DEF TypeOK, Row
<1>4. [seq[c] EXCEPT ![a] = NextRow(c).seq] \in [Account -> Nat]
  BY <1>1 DEF TypeOK, Row
<1>5. run' \in [Call -> [Account -> Int]] /\ seq' \in [Call -> [Account -> Nat]]
  BY <1>1, <1>3, <1>4 DEF TypeOK
<1>6. pos' \in [Call -> Nat]
  BY DEF AppendLine, TypeOK
<1>7. QED
  BY <1>2, <1>5, <1>6 DEF AppendLine, TypeOK, callVars, glVars, logVars, envVars

LEMMA InsertPostType ==
    ASSUME TypeOK, NEW c \in Call, InsertPost(c)
    PROVE  TypeOK'
<1>1. pc' \in [Call -> PC]
  BY GotoType DEF InsertPost, PC
<1>2. CASE EndTx(c)
  BY <1>1, <1>2, EndTxType DEF InsertPost, TypeOK, glVars, logVars, envVars
<1>3. CASE UNCHANGED txVars
  BY <1>1, <1>3 DEF InsertPost, TypeOK, txVars, glVars, logVars, envVars
<1>4. QED
  BY <1>2, <1>3 DEF InsertPost

LEMMA CommitType ==
    ASSUME TypeOK, NEW c \in Call, Commit(c)
    PROVE  TypeOK'
<1>1. pc' \in [Call -> PC]
  BY GotoType DEF Commit, PC
<1>2. ledger' \subseteq Row /\ posts' \subseteq Call
  BY DEF Commit, TypeOK
<1>3. balance' \in [Account -> Int]
  BY DEF Commit, TypeOK
<1>4. reversedBy' \in [Call -> Call \cup {Nil}]
  BY DEF Commit, TypeOK
<1>5. QED
  BY <1>1, <1>2, <1>3, <1>4, EndTxType DEF Commit, TypeOK, logVars, envVars

LEMMA AbortType ==
    ASSUME TypeOK, NEW c \in Call, PanicOnMissing(c) \/ Abort(c)
    PROVE  TypeOK'
<1>1. pc' \in [Call -> PC] /\ outcome' \in [Call -> Outcome]
  BY ReturnType DEF PanicOnMissing, Abort
<1>2. EndTx(c) /\ UNCHANGED <<lines, seen, glVars, logVars, envVars>>
  BY DEF PanicOnMissing, Abort
<1>3. QED
  BY <1>1, <1>2, EndTxType DEF TypeOK, glVars, logVars, envVars

LEMMA EnvironmentType ==
    ASSUME TypeOK,
           \/ \E m \in StatusMoves : EditAccount(m[1], m[2])
           \/ \E p \in Period, s \in PeriodStatus : MovePeriod(p, s)
    PROVE  TypeOK'
<1>1. CASE \E m \in StatusMoves : EditAccount(m[1], m[2])
  <2> PICK m \in StatusMoves : EditAccount(m[1], m[2])
    BY <1>1
  <2>1. m[1] \in Account /\ m[2] \in AccountStatus
    BY MovesAssumption
  <2>2. status' \in [Account -> AccountStatus]
    BY <2>1 DEF EditAccount, TypeOK
  <2>3. QED
    BY <2>2 DEF EditAccount, TypeOK, callVars, txVars, glVars, logVars
<1>2. CASE \E p \in Period, s \in PeriodStatus : MovePeriod(p, s)
  <2> PICK p \in Period, s \in PeriodStatus : MovePeriod(p, s)
    BY <1>2
  <2>1. period' \in [Period -> PeriodStatus]
    BY DEF MovePeriod, TypeOK
  <2>2. QED
    BY <2>1 DEF MovePeriod, TypeOK, callVars, txVars, glVars, logVars
<1>3. QED
  BY <1>1, <1>2

LEMMA TypeStep ==
    ASSUME IInv, [Next]_vars
    PROVE  TypeOK'
<1> TypeOK /\ RunningBalance /\ \A c \in Call : TxInv(c)
  BY DEF IInv
<1>1. CASE \E c \in Call : Step(c) \/ ReadFails(c) \/ Abort(c)
  <2> PICK c \in Call : Step(c) \/ ReadFails(c) \/ Abort(c)
    BY <1>1
  <2>1. QED
    BY FindType, ReadSourceType, ReadsType, AnswersType, LockNextType, ReadSequencesType,
       AppendLineType, InsertPostType, CommitType, AbortType DEF Step
<1>2. CASE \/ \E m \in StatusMoves : EditAccount(m[1], m[2])
           \/ \E p \in Period, s \in PeriodStatus : MovePeriod(p, s)
  BY <1>2, EnvironmentType
<1>3. CASE UNCHANGED vars
  BY <1>3 DEF TypeOK, vars, callVars, txVars, glVars, logVars, envVars
<1>4. QED
  BY <1>1, <1>2, <1>3 DEF Next, Quiescent

-----------------------------------------------------------------------------
(* The running balance.  Steps fall in six classes: those that leave the   *)
(* transactions' state alone, those that end a transaction without trace,  *)
(* and LockNext, ReadSequences, AppendLine and Commit.                     *)

BalanceInv == RunningBalance /\ \A c \in Call : TxInv(c)

LEMMA BalanceInit == Init => BalanceInv
<1> SUFFICES ASSUME Init PROVE BalanceInv
  OBVIOUS
<1>1. \A a \in Account : holder[a] = Nil /\ AccountRows(a) = {} /\ balance[a] = Opening[a]
  BY DEF Init, AccountRows
<1>2. RunningBalance
  BY <1>1 DEF RunningBalance, History, LastSeq
<1>3. \A c \in Call : c # Nil /\ pc[c] = "find" /\ rows[c] = {}
  BY NilAssumption DEF Init
<1>4. QED
  BY <1>1, <1>2, <1>3 DEF BalanceInv, TxInv

LEMMA QuietStep ==
    ASSUME BalanceInv, UNCHANGED <<txVars, glVars>>,
           \A d \in Call : \/ pc'[d] = pc[d]
                           \/ pc[d] = "append" /\ pc'[d] = "commit"
                           \/ ~InTx(d) /\ pc'[d] \notin {"append", "commit"}
    PROVE  BalanceInv'
<1>1. \A a \in Account : AccountRows(a)' = AccountRows(a) /\ LastSeq(a)' = LastSeq(a)
  BY DEF AccountRows, LastSeq, glVars
<1>2. RunningBalance'
  BY <1>1 DEF RunningBalance, BalanceInv, glVars
<1>3. ASSUME NEW d \in Call PROVE TxInv(d)'
  <2>1. TxInv(d)
    BY DEF BalanceInv
  <2>2. \A a \in Account : OwnRows(d, a)' = OwnRows(d, a)
    BY DEF OwnRows, txVars
  <2>3. CASE pc'[d] = pc[d]
    BY <2>1, <2>2, <2>3, <1>1 DEF TxInv, InTx, txVars, glVars
  <2>4. CASE pc[d] = "append" /\ pc'[d] = "commit"
    BY <2>1, <2>2, <2>4, <1>1 DEF TxInv, InTx, txVars, glVars
  <2>5. CASE ~InTx(d) /\ pc'[d] \notin {"append", "commit"}
    BY <2>1, <2>5, <1>1 DEF TxInv, InTx, txVars, glVars
  <2>6. QED
    BY <2>3, <2>4, <2>5
<1>4. QED
  BY <1>2, <1>3 DEF BalanceInv

LEMMA EndWithoutTrace ==
    ASSUME TypeOK, BalanceInv, NEW c \in Call, EndTx(c), UNCHANGED glVars,
           NEW there \in PC \ {"locking", "append", "commit"}, Goto(c, there)
    PROVE  BalanceInv'
<1>1. \A a \in Account : AccountRows(a)' = AccountRows(a) /\ LastSeq(a)' = LastSeq(a)
  BY DEF AccountRows, LastSeq, glVars
<1>2. RunningBalance'
  BY <1>1 DEF RunningBalance, BalanceInv, glVars
<1>3. ASSUME NEW d \in Call PROVE TxInv(d)'
  <2>1. TxInv(d)
    BY DEF BalanceInv
  <2>2. CASE d = c
    <3>1. pc'[c] = there /\ rows'[c] = {} /\ \A a \in Account : holder'[a] # c
      BY NilAssumption DEF Goto, EndTx, TypeOK
    <3>2. QED
      BY <3>1, <2>2 DEF TxInv, InTx
  <2>3. CASE d # c
    <3>1. /\ pc'[d] = pc[d] /\ rows'[d] = rows[d] /\ run'[d] = run[d]
          /\ seq'[d] = seq[d] /\ pos'[d] = pos[d]
          /\ balance' = balance
      BY <2>3 DEF Goto, EndTx, TypeOK, glVars
    <3>2. \A a \in Account : (holder'[a] = d) <=> (holder[a] = d)
      BY <2>3, NilAssumption DEF EndTx
    <3>3. \A r \in rows[d] : r.account \in Account
      BY DEF TypeOK, Row
    <3>4. \A a \in Account : OwnRows(d, a)' = OwnRows(d, a)
      BY <3>1 DEF OwnRows
    <3>5. QED
      BY <2>1, <3>1, <3>2, <3>3, <3>4, <1>1 DEF TxInv, InTx
  <2>4. QED
    BY <2>2, <2>3
<1>4. QED
  BY <1>2, <1>3 DEF BalanceInv

LEMMA LockNextBalance ==
    ASSUME TypeOK, BalanceInv, NEW c \in Call, LockNext(c)
    PROVE  BalanceInv'
<1> PICK a \in Account :
        \/ /\ holder[a] = Nil
           /\ holder' = [holder EXCEPT ![a] = c]
           /\ run' = [run EXCEPT ![c][a] = balance[a]]
        \/ UNCHANGED <<holder, run>>
  BY DEF LockNext
<1>1. /\ pc' = pc /\ pc[c] = "locking"
      /\ UNCHANGED <<seq, pos, rows, ledger, balance>>
  BY DEF LockNext, callVars, glVars
<1>2. \A b \in Account : AccountRows(b)' = AccountRows(b) /\ LastSeq(b)' = LastSeq(b)
  BY <1>1 DEF AccountRows, LastSeq
<1>3. RunningBalance'
  BY <1>1, <1>2 DEF RunningBalance, BalanceInv
<1>4. ASSUME NEW d \in Call PROVE TxInv(d)'
  <2>1. TxInv(d) /\ rows'[d] = rows[d]
    BY <1>1 DEF BalanceInv
  <2>2. \A b \in Account : OwnRows(d, b)' = OwnRows(d, b)
    BY <1>1 DEF OwnRows
  <2>3. CASE UNCHANGED <<holder, run>>
    BY <2>1, <2>2, <2>3, <1>1, <1>2 DEF TxInv, InTx
  <2>4. CASE d = c /\ holder' = [holder EXCEPT ![a] = c]
             /\ run' = [run EXCEPT ![c][a] = balance[a]]
    <3>1. \A b \in Account : holder'[b] = c => run'[c][b] = balance'[b]
      BY <2>1, <2>4, <1>1 DEF TxInv, TypeOK
    <3>2. QED
      BY <2>1, <2>4, <3>1, <1>1 DEF TxInv, InTx
  <2>5. CASE d # c /\ holder[a] = Nil /\ holder' = [holder EXCEPT ![a] = c]
             /\ run' = [run EXCEPT ![c][a] = balance[a]]
    <3>1. \A b \in Account : (holder'[b] = d) <=> (holder[b] = d)
      BY <2>5, NilAssumption DEF TypeOK
    <3>2. run'[d] = run[d]
      BY <2>5 DEF TypeOK
    <3>3. \A r \in rows[d] : r.account \in Account
      BY DEF TypeOK, Row
    <3>4. QED
      BY <2>1, <2>2, <3>1, <3>2, <3>3, <1>1, <1>2 DEF TxInv, InTx
  <2>6. QED
    BY <2>3, <2>4, <2>5
<1>5. QED
  BY <1>3, <1>4 DEF BalanceInv

LEMMA ReadSequencesBalance ==
    ASSUME TypeOK, BalanceInv, NEW c \in Call, ReadSequences(c)
    PROVE  BalanceInv'
<1>1. /\ pc[c] = "locking"
      /\ pc' = [pc EXCEPT ![c] = "append"] /\ pos' = [pos EXCEPT ![c] = 1]
      /\ UNCHANGED <<holder, run, rows, ledger, balance>>
  BY DEF ReadSequences, Goto, glVars
<1>2. \A b \in Account : AccountRows(b)' = AccountRows(b) /\ LastSeq(b)' = LastSeq(b)
  BY <1>1 DEF AccountRows, LastSeq
<1>3. RunningBalance'
  BY <1>1, <1>2 DEF RunningBalance, BalanceInv
<1>4. ASSUME NEW d \in Call PROVE TxInv(d)'
  <2>1. TxInv(d)
    BY DEF BalanceInv
  <2>2. \A b \in Account : OwnRows(d, b)' = OwnRows(d, b)
    BY <1>1 DEF OwnRows
  <2>3. CASE d = c
    <3>1. rows[c] = {} /\ pc'[c] = "append" /\ pos'[c] = 1
      BY <2>1, <2>3, <1>1 DEF TxInv, TypeOK
    <3>2. ASSUME NEW b \in Account, holder[b] = c
          PROVE  History(AccountRows(b)' \cup OwnRows(c, b)', b, seq'[c][b], run'[c][b])
      <4>1. seq'[c][b] = LastSeq(b)
        BY <3>2 DEF ReadSequences, TypeOK
      <4>2. run'[c][b] = balance[b]
        BY <2>1, <2>3, <3>2, <1>1 DEF TxInv
      <4>3. AccountRows(b)' \cup OwnRows(c, b)' = AccountRows(b)
        BY <3>1, <1>1, <1>2 DEF OwnRows
      <4>4. QED
        BY <4>1, <4>2, <4>3 DEF BalanceInv, RunningBalance
    <3>3. QED
      BY <2>1, <2>3, <3>1, <3>2, <1>1 DEF TxInv, InTx
  <2>4. CASE d # c
    <3>1. pc'[d] = pc[d] /\ pos'[d] = pos[d] /\ seq'[d] = seq[d]
      BY <2>4, <1>1 DEF ReadSequences, TypeOK
    <3>2. QED
      BY <2>1, <2>2, <3>1, <1>1, <1>2 DEF TxInv, InTx
  <2>5. QED
    BY <2>3, <2>4
<1>5. QED
  BY <1>3, <1>4 DEF BalanceInv

LEMMA AppendLineBalance ==
    ASSUME TypeOK, BalanceInv, NEW c \in Call, AppendLine(c)
    PROVE  BalanceInv'
<1> DEFINE a == lines[c][pos[c]].account
<1> DEFINE row == NextRow(c)
<1>0. TxInv(c)
  BY DEF BalanceInv
<1>1. /\ a \in Account /\ holder[a] = c /\ pc[c] = "append" /\ row \in Row
      /\ Change(lines[c][pos[c]]) \in Int
      /\ rows' = [rows EXCEPT ![c] = @ \cup {row}]
      /\ run' = [run EXCEPT ![c] = [run[c] EXCEPT ![a] = row.after]]
      /\ seq' = [seq EXCEPT ![c] = [seq[c] EXCEPT ![a] = row.seq]]
  BY <1>0, NextRowFacts
<1>2. /\ row.account = a /\ row.post = c
      /\ row.seq = seq[c][a] + 1 /\ row.before = run[c][a]
      /\ row.change = Change(lines[c][pos[c]])
      /\ row.after = run[c][a] + Change(lines[c][pos[c]])
  BY DEF NextRow
<1>3. /\ UNCHANGED <<pc, holder, ledger, balance>>
      /\ pos' = [pos EXCEPT ![c] = @ + 1]
  BY DEF AppendLine, callVars, glVars
<1>4. \A b \in Account : AccountRows(b)' = AccountRows(b) /\ LastSeq(b)' = LastSeq(b)
  BY <1>3 DEF AccountRows, LastSeq
<1>5. RunningBalance'
  BY <1>3, <1>4 DEF RunningBalance, BalanceInv
<1>6. ASSUME NEW d \in Call PROVE TxInv(d)'
  <2>1. TxInv(d)
    BY DEF BalanceInv
  <2>2. CASE d = c
    <3>1. rows'[c] = rows[c] \cup {row}
      BY <1>1 DEF TypeOK
    <3>2. pos[c] \in Nat /\ pos'[c] > 0
      BY <1>3 DEF TypeOK
    <3>3. ASSUME NEW b \in Account, holder[b] = c
          PROVE  History(AccountRows(b)' \cup OwnRows(c, b)', b, seq'[c][b], run'[c][b])
      <4>1. History(AccountRows(b) \cup OwnRows(c, b), b, seq[c][b], run[c][b])
        BY <1>0, <1>1, <3>3 DEF TxInv
      <4>2. CASE b = a
        <5>1. OwnRows(c, b)' = OwnRows(c, b) \cup {row}
          BY <3>1, <1>2, <4>2 DEF OwnRows
        <5>2. seq'[c][b] = seq[c][b] + 1
          BY <1>1, <1>2, <4>2 DEF TypeOK
        <5>3. run'[c][b] = run[c][b] + Change(lines[c][pos[c]])
          BY <1>1, <1>2, <4>2 DEF TypeOK
        <5>4. AccountRows(b) \cup OwnRows(c, b) \in SUBSET Row /\ run[c][b] \in Int
          BY DEF AccountRows, OwnRows, TypeOK
        <5>5. History((AccountRows(b) \cup OwnRows(c, b)) \cup {row}, b,
                      seq[c][b] + 1, run[c][b] + Change(lines[c][pos[c]]))
          BY <4>1, <4>2, <5>4, <1>1, <1>2, HistoryExtends
        <5>6. AccountRows(b)' \cup OwnRows(c, b)' = (AccountRows(b) \cup OwnRows(c, b)) \cup {row}
          BY <5>1, <1>4
        <5>7. QED
          BY <5>2, <5>3, <5>5, <5>6
      <4>3. CASE b # a
        <5>1. OwnRows(c, b)' = OwnRows(c, b)
          BY <3>1, <1>2, <4>3 DEF OwnRows
        <5>2. seq'[c][b] = seq[c][b] /\ run'[c][b] = run[c][b]
          BY <1>1, <4>3 DEF TypeOK
        <5>3. QED
          BY <4>1, <5>1, <5>2, <1>4
      <4>4. QED
        BY <4>2, <4>3
    <3>4. QED
      BY <2>1, <2>2, <3>1, <3>2, <3>3, <1>1, <1>2, <1>3 DEF TxInv, InTx
  <2>3. CASE d # c
    <3>1. /\ rows'[d] = rows[d] /\ run'[d] = run[d]
          /\ seq'[d] = seq[d] /\ pos'[d] = pos[d]
      BY <2>3, <1>1, <1>3 DEF TypeOK
    <3>2. \A b \in Account : OwnRows(d, b)' = OwnRows(d, b)
      BY <3>1 DEF OwnRows
    <3>3. QED
      BY <2>1, <3>1, <3>2, <1>3, <1>4 DEF TxInv, InTx
  <2>4. QED
    BY <2>2, <2>3
<1>7. QED
  BY <1>5, <1>6 DEF BalanceInv

LEMMA CommitBalance ==
    ASSUME TypeOK, BalanceInv, NEW c \in Call, Commit(c)
    PROVE  BalanceInv'
<1>1. /\ pc[c] = "commit" /\ pc' = [pc EXCEPT ![c] = "emit"]
      /\ ledger' = ledger \cup rows[c]
      /\ balance' = [a \in Account |-> IF holder[a] = c THEN run[c][a] ELSE balance[a]]
      /\ EndTx(c)
  BY DEF Commit, Goto
<1>2. TxInv(c)
  BY DEF BalanceInv
<1>3. \A a \in Account : AccountRows(a)' = AccountRows(a) \cup OwnRows(c, a)
  BY <1>1 DEF AccountRows, OwnRows
<1>4. \A a \in Account : holder[a] # c => OwnRows(c, a) = {}
  BY <1>2 DEF TxInv, OwnRows
<1>5. ASSUME NEW a \in Account
      PROVE  History(AccountRows(a)', a, LastSeq(a)', balance'[a])
  <2>1. CASE holder[a] = c
    <3>1. History(AccountRows(a)', a, seq[c][a], balance'[a])
      BY <2>1, <1>1, <1>2, <1>3 DEF TxInv
    <3>2. LastSeq(a)' = seq[c][a]
      BY <3>1, EndOfHistory DEF LastSeq
    <3>3. QED
      BY <3>1, <3>2
  <2>2. CASE holder[a] # c
    <3>1. AccountRows(a)' = AccountRows(a) /\ balance'[a] = balance[a]
      BY <2>2, <1>1, <1>3, <1>4
    <3>2. LastSeq(a)' = LastSeq(a)
      BY <3>1 DEF LastSeq
    <3>3. QED
      BY <3>1, <3>2 DEF BalanceInv, RunningBalance
  <2>3. QED
    BY <2>1, <2>2
<1>6. RunningBalance'
  BY <1>5 DEF RunningBalance
<1>7. ASSUME NEW d \in Call PROVE TxInv(d)'
  <2>1. TxInv(d)
    BY DEF BalanceInv
  <2>2. CASE d = c
    <3>1. pc'[c] = "emit" /\ rows'[c] = {} /\ \A a \in Account : holder'[a] # c
      BY NilAssumption, <1>1 DEF EndTx, TypeOK
    <3>2. QED
      BY <3>1, <2>2 DEF TxInv, InTx
  <2>3. CASE d # c
    <3>1. /\ pc'[d] = pc[d] /\ rows'[d] = rows[d] /\ run'[d] = run[d]
          /\ seq'[d] = seq[d] /\ pos'[d] = pos[d]
      BY <2>3, <1>1 DEF EndTx, TypeOK
    <3>2. \A a \in Account : (holder'[a] = d) <=> (holder[a] = d)
      BY <2>3, <1>1, NilAssumption DEF EndTx
    <3>3. \A r \in rows[d] : r.account \in Account
      BY DEF TypeOK, Row
    <3>4. \A a \in Account : OwnRows(d, a)' = OwnRows(d, a)
      BY <3>1 DEF OwnRows
    <3>5. \A a \in Account : holder[a] = d =>
             AccountRows(a)' = AccountRows(a) /\ balance'[a] = balance[a]
      BY <2>3, <1>1, <1>3, <1>4
    <3>6. QED
      BY <2>1, <3>1, <3>2, <3>3, <3>4, <3>5 DEF TxInv, InTx
  <2>4. QED
    BY <2>2, <2>3
<1>8. QED
  BY <1>6, <1>7 DEF BalanceInv

\* The pc of a call that reads, answers or gives up.
LEMMA QuietActions ==
    ASSUME TypeOK, BalanceInv, NEW c \in Call,
           \/ Find(c) \/ ReadSource(c) \/ ReadAccounts(c) \/ Validate(c)
           \/ ReadFails(c) \/ RecordFailed(c) \/ Resolve(c) \/ Emit(c)
    PROVE  BalanceInv'
<1>1. UNCHANGED <<txVars, glVars>>
  BY DEF Find, ReadSource, ReadAccounts, Validate, ReadFails, RecordFailed, Resolve, Emit
<1>2. pc[c] \notin {"locking", "append", "commit"}
  BY DEF Find, ReadSource, ReadAccounts, Validate, ReadFails, RecordFailed, Resolve, Emit
<1>3. \E there \in PC \ {"append", "commit"} : Goto(c, there)
  BY DEF Find, ReadSource, ReadAccounts, Validate, ReadFails, RecordFailed, Resolve, Emit,
         Reuse, Return, PC
<1>4. \A d \in Call : \/ pc'[d] = pc[d]
                      \/ ~InTx(d) /\ pc'[d] \notin {"append", "commit"}
  BY <1>2, <1>3 DEF Goto, TypeOK, InTx
<1>5. QED
  BY <1>1, <1>4, QuietStep

LEMMA InsertPostBalance ==
    ASSUME TypeOK, BalanceInv, NEW c \in Call, InsertPost(c)
    PROVE  BalanceInv'
<1>1. CASE Goto(c, "resolve") /\ EndTx(c)
  <2>1. UNCHANGED glVars /\ "resolve" \in PC \ {"locking", "append", "commit"}
    BY DEF InsertPost, PC
  <2>2. QED
    BY <1>1, <2>1, EndWithoutTrace
<1>2. CASE Goto(c, "commit") /\ UNCHANGED txVars
  <2>1. UNCHANGED glVars /\ pc[c] = "append"
    BY DEF InsertPost
  <2>2. \A d \in Call : pc'[d] = pc[d] \/ (pc[d] = "append" /\ pc'[d] = "commit")
    BY <1>2, <2>1 DEF Goto, TypeOK
  <2>3. QED
    BY <1>2, <2>1, <2>2, QuietStep
<1>3. QED
  BY <1>1, <1>2 DEF InsertPost

LEMMA BalanceStep ==
    ASSUME IInv, [Next]_vars
    PROVE  BalanceInv'
<1>0. TypeOK /\ BalanceInv
  BY DEF IInv, BalanceInv
<1>1. ASSUME NEW c \in Call, PanicOnMissing(c) \/ Abort(c)
      PROVE  BalanceInv'
  <2>1. /\ EndTx(c) /\ UNCHANGED glVars
        /\ Goto(c, "done") /\ "done" \in PC \ {"locking", "append", "commit"}
    BY <1>1 DEF PanicOnMissing, Abort, Return, PC
  <2>2. QED
    BY <1>0, <2>1, EndWithoutTrace
<1>2. CASE \E c \in Call : Step(c) \/ ReadFails(c) \/ Abort(c)
  BY <1>0, <1>1, <1>2, QuietActions, LockNextBalance, ReadSequencesBalance,
     AppendLineBalance, InsertPostBalance, CommitBalance DEF Step
<1>3. CASE \/ \E m \in StatusMoves : EditAccount(m[1], m[2])
           \/ \E p \in Period, s \in PeriodStatus : MovePeriod(p, s)
           \/ UNCHANGED vars
  <2>1. UNCHANGED <<txVars, glVars>> /\ pc' = pc
    BY <1>3 DEF EditAccount, MovePeriod, vars, callVars
  <2>2. QED
    BY <1>0, <2>1, QuietStep
<1>4. QED
  BY <1>2, <1>3 DEF Next, Quiescent

-----------------------------------------------------------------------------
(* The theorems.                                                           *)

\* Every reachable state is well typed, and every call that is in its
\* transaction is continuing, under its locks, the histories of its accounts.
THEOREM Inductive == Spec => []IInv
<1>1. Init => IInv
  BY TypeInit, BalanceInit DEF IInv, BalanceInv
<1>2. IInv /\ [Next]_vars => IInv'
  BY TypeStep, BalanceStep DEF IInv, BalanceInv
<1>3. QED
  BY <1>1, <1>2, PTL DEF Spec

\* The variables keep their types (the last sequence number of an account,
\* the maximum the code coalesces with zero, is a number because of Inductive).
THEOREM TypeCorrect == Spec => []TypeOK
<1>1. IInv => TypeOK
  BY DEF IInv
<1>2. QED
  BY <1>1, Inductive, PTL

\* R9: whatever calls, retries, failures and edits interleave, and however many
\* they are, the committed ledger rows of every account are numbered without
\* gap or repetition, chain from the opening balance, and end at its
\* current_balance.
THEOREM BalanceUnbroken == Spec => []RunningBalance
<1>1. IInv => RunningBalance
  BY DEF IInv
<1>2. QED
  BY <1>1, Inductive, PTL
=============================================================================
