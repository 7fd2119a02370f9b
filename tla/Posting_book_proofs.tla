------------------------- MODULE Posting_book_proofs -------------------------
(***************************************************************************)
(* What Posting writes, against the lines it was given: the rows of a post *)
(* are one per line and balance, a reversal undoes its original on every   *)
(* account, and all of it together implements the book of entries of       *)
(* GLBook, in which none of the reads, locks and transactions are left.    *)
(***************************************************************************)
EXTENDS Posting_identity_proofs, SumTheorems

\* What the first n of a list of lines do to account a.
Moved(ls, n, a) ==
    SumFunction([i \in {j \in 1..n : ls[j].account = a} |-> Change(ls[i])])

\* R holds one row for each of the first n lines of ls, and nothing else.
RowsOf(R, ls, n) ==
    /\ \A r \in R : /\ r.line \in 1..n
                    /\ r.account = ls[r.line].account
                    /\ r.change = Change(ls[r.line])
    /\ \A i \in 1..n : \E r \in R : r.line = i
    /\ \A q, r \in R : q.line = r.line => q = r

PostRows(p) == {r \in ledger : r.post = p}

\* A call has its lines once it is past its first reads; a reversal's are the
\* swapped lines of a post that was recorded before it.
LinesInv(c) ==
    /\ pc[c] = "source" => Req[c].kind = "reversal"
    /\ Req[c].kind = "original" => lines[c] = Req[c].lines
    /\ Req[c].kind = "reversal" /\ (pc[c] \notin {"find", "source", "done"} \/ c \in posts) =>
          /\ Req[c].reverses \in posts \ {c}
          /\ lines[c] = Swap(lines[Req[c].reverses])

\* How far a transaction is with its rows, and what they have added up to.
AppendInv(c) ==
    pc[c] \in {"append", "commit"} =>
        /\ pos[c] - 1 \in 0..Len(lines[c])
        /\ pc[c] = "commit" => pos[c] - 1 = Len(lines[c])
        /\ RowsOf(rows[c], lines[c], pos[c] - 1)
        /\ \A a \in Account : holder[a] = c =>
              run[c][a] = balance[a] + Moved(lines[c], pos[c] - 1, a)

PostedInv == \A p \in posts : RowsOf(PostRows(p), lines[p], Len(lines[p]))

BookInv ==
    /\ \A c \in Call : LinesInv(c) /\ AppendInv(c)
    /\ PostedInv

LEMMA BookInit == Init => BookInv
BY DEF Init, BookInv, LinesInv, AppendInv, PostedInv

-----------------------------------------------------------------------------
(* What a call may rely on while another one moves.                        *)

LEMMA OthersBook ==
    ASSUME TypeOK, BookInv, NEW d \in Call,
           pc'[d] = pc[d], lines'[d] = lines[d], pos'[d] = pos[d], rows'[d] = rows[d],
           run'[d] = run[d], d \in posts' <=> d \in posts,
           posts \subseteq posts', \A p \in posts : lines'[p] = lines[p],
           \A a \in Account : holder'[a] = d => holder[a] = d /\ balance'[a] = balance[a]
    PROVE  LinesInv(d)' /\ AppendInv(d)'
<1>1. LinesInv(d) /\ AppendInv(d)
  BY DEF BookInv
<1>2. LinesInv(d)'
  BY <1>1 DEF LinesInv
<1>3. AppendInv(d)'
  BY <1>1 DEF AppendInv
<1> QED
  BY <1>2, <1>3

LEMMA PostedStays ==
    ASSUME BookInv, ledger' = ledger, posts' = posts, \A p \in posts : lines'[p] = lines[p]
    PROVE  PostedInv'
BY DEF BookInv, PostedInv, PostRows, RowsOf

\* A step of c that moves no line, row or lock, or ends its transaction.
LEMMA PlainBook ==
    ASSUME TypeOK, BookInv, NEW c \in Call, pc[c] # "done", c \notin posts \/ pc[c] = "emit",
           lines' = lines, ledger' = ledger, posts' = posts, balance' = balance,
           \/ UNCHANGED txVars
           \/ EndTx(c),
           \A d \in Call \ {c} : pc'[d] = pc[d],
           pc'[c] \notin {"append", "commit"},
           pc[c] \in {"find", "source"} =>
              \/ pc'[c] = "done"
              \/ pc'[c] # "source" /\ Req[c].kind = "original"
              \/ pc'[c] = "source" /\ Req[c].kind = "reversal",
           pc[c] \notin {"find", "source"} => pc'[c] # "source"
    PROVE  BookInv'
<1>1. PostedInv'
  BY PostedStays
<1>2. ASSUME NEW d \in Call \ {c} PROVE LinesInv(d)' /\ AppendInv(d)'
  <2>1. pos'[d] = pos[d] /\ rows'[d] = rows[d] /\ run'[d] = run[d]
    BY DEF EndTx, txVars, TypeOK
  <2>2. \A a \in Account : holder'[a] = d => holder[a] = d
    BY NilAssumption DEF EndTx, txVars, TypeOK
  <2> QED
    BY <2>1, <2>2, OthersBook
<1>3. AppendInv(c)'
  BY DEF AppendInv
<1>4. LinesInv(c)'
  <2>1. LinesInv(c)
    BY DEF BookInv
  <2>2. CASE pc[c] \in {"find", "source", "done"}
    BY <2>1, <2>2 DEF LinesInv
  <2>3. CASE pc[c] \notin {"find", "source", "done"}
    BY <2>1, <2>3 DEF LinesInv
  <2> QED
    BY <2>2, <2>3
<1> QED
  BY <1>1, <1>2, <1>3, <1>4 DEF BookInv

-----------------------------------------------------------------------------
(* The steps.                                                              *)

LEMMA ReadSourceBook ==
    ASSUME TypeOK, ValidInv, BookInv, NEW c \in Call, ReadSource(c)
    PROVE  BookInv'
<1>1. /\ pc[c] = "source" /\ c \notin posts /\ Req[c].kind = "reversal"
      /\ UNCHANGED <<txVars, glVars>>
  BY DEF ReadSource, ValidInv, ValidCall, BookInv, LinesInv
<1>2. CASE Return(c, "conflict", Nil) /\ UNCHANGED lines
  <2>1. pc'[c] = "done" /\ \A d \in Call \ {c} : pc'[d] = pc[d]
    BY <1>2 DEF Return, Goto, TypeOK
  <2> QED
    BY <1>1, <1>2, <2>1, PlainBook DEF glVars
<1>3. CASE /\ Req[c].reverses \in posts
           /\ lines' = [lines EXCEPT ![c] = Swap(lines[Req[c].reverses])]
           /\ Goto(c, "accounts")
  <2>1. /\ pc'[c] = "accounts" /\ \A d \in Call \ {c} : pc'[d] = pc[d] /\ lines'[d] = lines[d]
        /\ lines'[c] = Swap(lines[Req[c].reverses])
    BY <1>3 DEF Goto, TypeOK
  <2>2. \A p \in posts : lines'[p] = lines[p]
    BY <1>1, <2>1 DEF TypeOK
  <2>3. PostedInv'
    BY <1>1, <2>2, PostedStays DEF glVars
  <2>4. ASSUME NEW d \in Call \ {c} PROVE LinesInv(d)' /\ AppendInv(d)'
    BY <1>1, <2>1, <2>2, OthersBook DEF txVars, glVars
  <2>5. LinesInv(c)'
    BY <1>1, <1>3, <2>1, <2>2 DEF LinesInv, glVars
  <2>6. AppendInv(c)'
    BY <2>1 DEF AppendInv
  <2> QED
    BY <2>3, <2>4, <2>5, <2>6 DEF BookInv
<1> QED
  BY <1>2, <1>3 DEF ReadSource

\* The other steps outside of the transaction, and those that end it.
LEMMA PlainSteps ==
    ASSUME TypeOK, ValidInv, IdInv, BookInv, NEW c \in Call,
           \/ Find(c) \/ ReadAccounts(c) \/ Validate(c) \/ ReadFails(c) \/ RecordFailed(c)
           \/ PanicOnMissing(c) \/ Resolve(c) \/ Emit(c) \/ Abort(c)
    PROVE  BookInv'
<1>1. /\ pc[c] # "done" /\ UNCHANGED <<lines, glVars>>
      /\ UNCHANGED txVars \/ EndTx(c)
  BY DEF Find, ReadAccounts, Validate, ReadFails, RecordFailed, PanicOnMissing, Resolve,
         Emit, Abort
<1>2. c \notin posts \/ pc[c] = "emit"
  BY <1>1 DEF ValidInv, ValidCall
<1>3. \E there \in PC \ {"append", "commit"} :
         /\ Goto(c, there)
         /\ pc[c] \in {"find", "source"} =>
              \/ there = "done"
              \/ there # "source" /\ Req[c].kind = "original"
              \/ there = "source" /\ Req[c].kind = "reversal"
         /\ pc[c] \notin {"find", "source"} => there # "source"
  <2>1. CASE Find(c)
    <3>1. Req[c].kind \in {"original", "reversal"}
      BY RequestAssumption DEF Request
    <3> QED
      BY <2>1, <3>1 DEF Find, Reuse, Return, PC
  <2>2. CASE ReadAccounts(c) \/ Validate(c) \/ ReadFails(c)
    BY <2>2 DEF ReadAccounts, Validate, ReadFails, PC
  <2>3. CASE RecordFailed(c) \/ PanicOnMissing(c) \/ Resolve(c) \/ Emit(c) \/ Abort(c)
    BY <2>3 DEF RecordFailed, PanicOnMissing, Resolve, Emit, Abort, Reuse, Return, PC
  <2> QED
    BY <2>1, <2>2, <2>3
<1>4. PICK there \in PC \ {"append", "commit"} :
         /\ Goto(c, there)
         /\ pc[c] \in {"find", "source"} =>
              \/ there = "done"
              \/ there # "source" /\ Req[c].kind = "original"
              \/ there = "source" /\ Req[c].kind = "reversal"
         /\ pc[c] \notin {"find", "source"} => there # "source"
  BY <1>3
<1>5. pc'[c] = there /\ \A d \in Call \ {c} : pc'[d] = pc[d]
  BY <1>4 DEF Goto, TypeOK
<1> QED
  BY <1>1, <1>2, <1>4, <1>5, PlainBook DEF glVars

\* Locks, and the reads under them, before any row is written.
LEMMA LockBook ==
    ASSUME TypeOK, BookInv, NEW c \in Call, LockNext(c)
    PROVE  BookInv'
<1>1. PICK a \in Account :
        \/ /\ holder[a] = Nil
           /\ holder' = [holder EXCEPT ![a] = c]
           /\ run' = [run EXCEPT ![c][a] = balance[a]]
        \/ UNCHANGED <<holder, run>>
  BY DEF LockNext
<1>2. /\ pc[c] = "locking" /\ UNCHANGED <<pos, rows, callVars, glVars>>
      /\ \A d \in Call \ {c} : run'[d] = run[d]
      /\ \A d \in Call \ {c}, b \in Account : holder'[b] = d => holder[b] = d
  BY <1>1 DEF LockNext, TypeOK
<1>3. PostedInv'
  BY <1>2, PostedStays DEF glVars, callVars
<1>4. ASSUME NEW d \in Call \ {c} PROVE LinesInv(d)' /\ AppendInv(d)'
  BY <1>2, OthersBook DEF glVars, callVars
<1>5. LinesInv(c)' /\ AppendInv(c)'
  BY <1>2 DEF BookInv, LinesInv, AppendInv, glVars, callVars
<1> QED
  BY <1>3, <1>4, <1>5 DEF BookInv

LEMMA NothingMoved == ASSUME NEW ls, NEW a PROVE Moved(ls, 0, a) = 0
<1>1. DOMAIN [i \in {j \in 1..0 : ls[j].account = a} |-> Change(ls[i])] = {}
  OBVIOUS
<1> QED
  BY <1>1, SumEmpty DEF Moved

LEMMA SequencesBook ==
    ASSUME TypeOK, BalanceInv, BookInv, NEW c \in Call, ReadSequences(c)
    PROVE  BookInv'
<1>1. /\ pc[c] = "locking" /\ pos'[c] = 1 /\ pc'[c] = "append"
      /\ \A d \in Call \ {c} : pos'[d] = pos[d] /\ pc'[d] = pc[d]
      /\ UNCHANGED <<lines, holder, run, rows, glVars>>
  BY DEF ReadSequences, Goto, TypeOK
<1>2. PostedInv'
  BY <1>1, PostedStays DEF glVars
<1>3. ASSUME NEW d \in Call \ {c} PROVE LinesInv(d)' /\ AppendInv(d)'
  BY <1>1, OthersBook DEF glVars
<1>4. LinesInv(c)'
  BY <1>1 DEF BookInv, LinesInv, glVars
<1>5. rows[c] = {} /\ \A a \in Account : holder[a] = c => run[c][a] = balance[a]
  BY <1>1 DEF BalanceInv, TxInv
<1>6. RowsOf(rows[c], lines[c], 0)
  BY <1>5 DEF RowsOf
<1>7. Len(lines[c]) \in Nat
  BY DEF TypeOK
<1>8. AppendInv(c)'
  <2>1. \A a \in Account : balance[a] \in Int /\ Moved(lines[c], 0, a) = 0
    BY NothingMoved DEF TypeOK
  <2>2. 1 - 1 = 0
    OBVIOUS
  <2> QED
    BY <1>1, <1>5, <1>6, <1>7, <2>1, <2>2 DEF AppendInv, glVars
<1> QED
  BY <1>2, <1>3, <1>4, <1>8 DEF BookInv

LEMMA MovedSummable ==
    ASSUME NEW ls \in Seq(Line), NEW n \in 0..Len(ls), NEW a
    PROVE  Summable([i \in {j \in 1..n : ls[j].account = a} |-> Change(ls[i])])
<1>1. IsFiniteSet(1..n)
  BY FS_Interval
<1>2. IsFiniteSet({j \in 1..n : ls[j].account = a})
  BY <1>1, FS_Subset
<1>3. \A i \in 1..n : ls[i] \in Line
  OBVIOUS
<1>4. \A i \in 1..n : Change(ls[i]) \in Int
  BY <1>3, ChangeType
<1> QED
  BY <1>2, <1>4 DEF Summable

\* One line more.
LEMMA MovedOne ==
    ASSUME NEW ls \in Seq(Line), NEW n \in 1..Len(ls), NEW a
    PROVE  /\ Moved(ls, n - 1, a) \in Int
           /\ Moved(ls, n, a) = IF ls[n].account = a THEN Moved(ls, n - 1, a) + Change(ls[n])
                                ELSE Moved(ls, n - 1, a)
<1> DEFINE f == [i \in {j \in 1..(n - 1) : ls[j].account = a} |-> Change(ls[i])]
           g == [i \in {j \in 1..n : ls[j].account = a} |-> Change(ls[i])]
<1>1. Summable(f) /\ Summable(g)
  <2>1. n - 1 \in 0..Len(ls) /\ n \in 0..Len(ls)
    OBVIOUS
  <2>2. Summable(f)
    BY <2>1, MovedSummable
  <2>3. Summable(g)
    BY <2>1, MovedSummable
  <2> QED
    BY <2>2, <2>3
<1>2. n \notin DOMAIN f /\ Agree(f, g, DOMAIN f)
  BY DEF Agree
<1>3. ls[n].account = a => DOMAIN g = DOMAIN f \cup {n} /\ g[n] = Change(ls[n])
  OBVIOUS
<1>4. ls[n].account # a => DOMAIN g = DOMAIN f
  OBVIOUS
<1>5. Moved(ls, n - 1, a) = SumFunction(f) /\ Moved(ls, n, a) = SumFunction(g)
  BY DEF Moved
<1> HIDE DEF f, g
<1>6. SumFunction(f) \in Int
  BY <1>1, SumType
<1>7. CASE ls[n].account = a
  <2>1. SumFunction(g) = SumFunction(f) + g[n]
    BY <1>1, <1>2, <1>3, <1>7, SumAdd
  <2> QED
    BY <1>3, <1>5, <1>6, <1>7, <2>1
<1>8. CASE ls[n].account # a
  <2>1. SumFunction(f) = SumFunction(g)
    BY <1>1, <1>2, <1>4, <1>8, SumSame
  <2> QED
    BY <1>5, <1>6, <1>8, <2>1
<1> QED
  BY <1>7, <1>8

LEMMA AppendLineBook ==
    ASSUME TypeOK, BalanceInv, BookInv, NEW c \in Call, AppendLine(c)
    PROVE  BookInv'
<1> DEFINE a == lines[c][pos[c]].account
           row == NextRow(c)
           n == pos[c]
<1>1. TxInv(c) /\ LinesInv(c) /\ AppendInv(c)
  BY DEF BalanceInv, BookInv
<1>2. /\ a \in Account /\ holder[a] = c /\ pc[c] = "append" /\ row \in Row
      /\ Change(lines[c][n]) \in Int
      /\ rows' = [rows EXCEPT ![c] = @ \cup {row}]
      /\ run' = [run EXCEPT ![c] = [run[c] EXCEPT ![a] = row.after]]
  BY <1>1, NextRowFacts
<1>3. /\ row.account = a /\ row.line = n /\ row.change = Change(lines[c][n])
      /\ row.after = run[c][a] + Change(lines[c][n])
  BY DEF NextRow
<1>4. /\ UNCHANGED <<pc, lines, holder, glVars>>
      /\ pos' = [pos EXCEPT ![c] = @ + 1] /\ pos[c] <= Len(lines[c])
  BY DEF AppendLine, callVars
<1>5. lines[c] \in Seq(Line) /\ n \in 1..Len(lines[c])
  BY <1>1, <1>2, <1>4 DEF TypeOK, TxInv
<1>6. PostedInv'
  BY <1>4, PostedStays DEF glVars
<1>7. ASSUME NEW d \in Call \ {c} PROVE LinesInv(d)' /\ AppendInv(d)'
  <2>1. pos'[d] = pos[d] /\ rows'[d] = rows[d] /\ run'[d] = run[d]
    BY <1>2, <1>4 DEF TypeOK
  <2> QED
    BY <1>4, <2>1, OthersBook DEF glVars
<1>8. LinesInv(c)'
  BY <1>1, <1>4 DEF LinesInv, glVars
<1>9. /\ pos'[c] - 1 = n /\ rows'[c] = rows[c] \cup {row}
      /\ run'[c] = [run[c] EXCEPT ![a] = row.after]
  BY <1>2, <1>4, <1>5 DEF TypeOK
<1>10. /\ RowsOf(rows[c], lines[c], n - 1)
       /\ \A b \in Account : holder[b] = c =>
             run[c][b] = balance[b] + Moved(lines[c], n - 1, b)
  BY <1>1, <1>2 DEF AppendInv
<1>11. RowsOf(rows'[c], lines[c], n)
  <2>1. \A r \in rows[c] : r.line \in 1..(n - 1)
    BY <1>10 DEF RowsOf
  <2>2. \A r \in rows[c] : r.line \in 1..n /\ r.line # n
    BY <1>5, <2>1
  <2>3. \A i \in 1..n : i # n => i \in 1..(n - 1)
    BY <1>5
  <2> HIDE DEF row, a, n
  <2>4. \A r \in rows'[c] : /\ r.line \in 1..n
                            /\ r.account = lines[c][r.line].account
                            /\ r.change = Change(lines[c][r.line])
    BY <1>3, <1>5, <1>9, <1>10, <2>2 DEF RowsOf, a, n
  <2>5. \A i \in 1..n : \E r \in rows'[c] : r.line = i
    BY <1>3, <1>9, <1>10, <2>3 DEF RowsOf
  <2>6. \A q, r \in rows'[c] : q.line = r.line => q = r
    BY <1>3, <1>9, <1>10, <2>2 DEF RowsOf
  <2> QED
    BY <2>4, <2>5, <2>6 DEF RowsOf
<1>12. ASSUME NEW b \in Account, holder[b] = c
       PROVE  run'[c][b] = balance[b] + Moved(lines[c], n, b)
  <2>1. /\ Moved(lines[c], n - 1, b) \in Int
        /\ Moved(lines[c], n, b) =
             IF a = b THEN Moved(lines[c], n - 1, b) + Change(lines[c][n])
             ELSE Moved(lines[c], n - 1, b)
    BY <1>5, MovedOne
  <2>2. run[c][b] = balance[b] + Moved(lines[c], n - 1, b) /\ balance[b] \in Int
    BY <1>10, <1>12 DEF TypeOK
  <2>3. run'[c][b] = IF a = b THEN run[c][b] + Change(lines[c][n]) ELSE run[c][b]
    <3>1. run[c] \in [Account -> Int]
      BY DEF TypeOK
    <3> QED
      BY <1>2, <1>3, <1>9, <3>1
  <2> HIDE DEF a, n, row
  <2> QED
    BY <1>2, <2>1, <2>2, <2>3
<1>13. AppendInv(c)'
  <2>1. n \in 0..Len(lines[c])
    BY <1>5
  <2>2. balance' = balance
    BY <1>4 DEF glVars
  <2> HIDE DEF n
  <2> QED
    BY <1>2, <1>4, <1>9, <1>11, <1>12, <2>1, <2>2 DEF AppendInv
<1> QED
  BY <1>6, <1>7, <1>8, <1>13 DEF BookInv

LEMMA InsertBook ==
    ASSUME TypeOK, ValidInv, BookInv, NEW c \in Call, InsertPost(c)
    PROVE  BookInv'
<1>1. /\ pc[c] = "append" /\ pos[c] > Len(lines[c]) /\ UNCHANGED <<lines, glVars>>
      /\ c \notin posts
  BY DEF InsertPost, ValidInv, ValidCall
<1>2. CASE Goto(c, "resolve") /\ EndTx(c)
  <2>1. pc'[c] = "resolve" /\ \A d \in Call \ {c} : pc'[d] = pc[d]
    BY <1>2 DEF Goto, TypeOK
  <2> QED
    BY <1>1, <1>2, <2>1, PlainBook DEF glVars
<1>3. CASE Goto(c, "commit") /\ UNCHANGED txVars
  <2>1. pc'[c] = "commit" /\ \A d \in Call \ {c} : pc'[d] = pc[d]
    BY <1>3 DEF Goto, TypeOK
  <2>2. PostedInv'
    BY <1>1, PostedStays DEF glVars
  <2>3. ASSUME NEW d \in Call \ {c} PROVE LinesInv(d)' /\ AppendInv(d)'
    BY <1>1, <1>3, <2>1, OthersBook DEF glVars, txVars
  <2>4. LinesInv(c)'
    BY <1>1, <2>1 DEF BookInv, LinesInv, glVars
  <2>5. pos[c] - 1 = Len(lines[c])
    BY <1>1 DEF BookInv, AppendInv, TypeOK
  <2>6. AppendInv(c)'
    BY <1>1, <1>3, <2>1, <2>5 DEF BookInv, AppendInv, glVars, txVars
  <2> QED
    BY <2>2, <2>3, <2>4, <2>6 DEF BookInv
<1> QED
  BY <1>2, <1>3 DEF InsertPost
LEMMA CommitBook ==
    ASSUME TypeOK, BalanceInv, ValidInv, BookInv, NEW c \in Call, Commit(c)
    PROVE  BookInv'
<1>1. /\ pc[c] = "commit" /\ pc' = [pc EXCEPT ![c] = "emit"]
      /\ ledger' = ledger \cup rows[c] /\ posts' = posts \cup {c} /\ lines' = lines
      /\ balance' = [a \in Account |-> IF holder[a] = c THEN run[c][a] ELSE balance[a]]
      /\ EndTx(c)
  BY DEF Commit, Goto
<1>2. c \notin posts /\ LinesInv(c) /\ AppendInv(c) /\ TxInv(c)
  BY <1>1 DEF ValidInv, ValidCall, BookInv, BalanceInv
<1>3. PostRows(c)' = rows[c]
  BY <1>1, <1>2 DEF PostRows, ValidInv, TxInv
<1>4. \A p \in posts : PostRows(p)' = PostRows(p)
  BY <1>1, <1>2 DEF PostRows, TxInv
<1>5. PostedInv'
  <2>1. RowsOf(rows[c], lines[c], Len(lines[c]))
    BY <1>1, <1>2 DEF AppendInv
  <2> QED
    BY <1>1, <1>3, <1>4, <2>1 DEF BookInv, PostedInv, RowsOf
<1>6. pc'[c] = "emit" /\ \A d \in Call \ {c} : pc'[d] = pc[d]
  BY <1>1 DEF TypeOK
<1>7. ASSUME NEW d \in Call \ {c} PROVE LinesInv(d)' /\ AppendInv(d)'
  <2>1. pos'[d] = pos[d] /\ rows'[d] = rows[d] /\ run'[d] = run[d]
    BY <1>1 DEF EndTx, TypeOK
  <2>2. \A a \in Account : holder'[a] = d => holder[a] = d /\ balance'[a] = balance[a]
    BY <1>1, NilAssumption DEF EndTx, TypeOK
  <2>3. d \in posts' <=> d \in posts
    BY <1>1
  <2>4. posts \subseteq posts' /\ lines'[d] = lines[d] /\ \A p \in posts : lines'[p] = lines[p]
    BY <1>1
  <2> QED
    BY <1>6, <2>1, <2>2, <2>3, <2>4, OthersBook
<1>8. LinesInv(c)' /\ AppendInv(c)'
  BY <1>1, <1>2, <1>6 DEF LinesInv, AppendInv
<1> QED
  BY <1>5, <1>7, <1>8 DEF BookInv

LEMMA BookStep == IInv /\ ValidInv /\ IdInv /\ BookInv /\ [Next]_vars => BookInv'
<1> SUFFICES ASSUME IInv, ValidInv, IdInv, BookInv, [Next]_vars PROVE BookInv'
  OBVIOUS
<1>1. TypeOK /\ BalanceInv
  BY DEF IInv, BalanceInv
<1>2. CASE \E c \in Call : Step(c) \/ ReadFails(c) \/ Abort(c)
  BY <1>1, <1>2, PlainSteps, ReadSourceBook, LockBook, SequencesBook, AppendLineBook,
     InsertBook, CommitBook DEF Step
<1>3. CASE \/ \E m \in StatusMoves : EditAccount(m[1], m[2])
           \/ \E p \in Period, s \in PeriodStatus : MovePeriod(p, s)
           \/ UNCHANGED vars
  <2>1. UNCHANGED <<callVars, txVars, glVars>>
    BY <1>3 DEF EditAccount, MovePeriod, vars
  <2>2. PostedInv'
    BY <2>1, PostedStays DEF glVars, callVars
  <2>3. ASSUME NEW d \in Call PROVE LinesInv(d)' /\ AppendInv(d)'
    BY <1>1, <2>1, OthersBook DEF glVars, callVars, txVars
  <2> QED
    BY <2>2, <2>3 DEF BookInv
<1> QED
  BY <1>2, <1>3 DEF Next, Quiescent

LEMMA BookInductive == Spec => [](IInv /\ IdInv /\ ValidInv /\ BookInv)
<1>1. Init => ValidInv /\ BookInv
  BY ValidInit, BookInit
<1>2. IInv /\ ValidInv /\ [Next]_vars => ValidInv'
  BY ValidStep
<1> QED
  BY <1>1, <1>2, BookStep, Inductive, IdInductive, PTL DEF Spec

-----------------------------------------------------------------------------
(* Whole entries.                                                          *)

RowAt(R, n) == [i \in 1..n |-> CHOOSE r \in R : r.line = i]

\* Line i and its row are one-to-one.
LEMMA RowAtLine ==
    ASSUME NEW R, NEW ls, NEW n \in Nat, RowsOf(R, ls, n)
    PROVE  /\ \A i \in 1..n : RowAt(R, n)[i] \in R /\ RowAt(R, n)[i].line = i
           /\ \A r \in R : r.line \in 1..n /\ RowAt(R, n)[r.line] = r
           /\ RowAt(R, n) \in Bijection(1..n, R)
<1>1. \A i \in 1..n : RowAt(R, n)[i] \in R /\ RowAt(R, n)[i].line = i
  BY DEF RowAt, RowsOf
<1>2. \A r \in R : r.line \in 1..n /\ RowAt(R, n)[r.line] = r
  BY <1>1 DEF RowsOf
<1>3. RowAt(R, n) \in [1..n -> R]
  BY <1>1 DEF RowAt
<1>4. RowAt(R, n) \in Bijection(1..n, R)
  BY <1>1, <1>2, <1>3 DEF Bijection, Injection, Surjection, IsInjective
<1> QED
  BY <1>1, <1>2, <1>4

\* A sum over some of the rows is the sum over their lines.
LEMMA RowSum ==
    ASSUME NEW R, NEW ls, NEW n \in Nat, RowsOf(R, ls, n),
           NEW f, NEW g, DOMAIN f \subseteq 1..n, Summable(f),
           DOMAIN g = {r \in R : r.line \in DOMAIN f},
           \A r \in DOMAIN g : g[r] = f[r.line]
    PROVE  Summable(g) /\ SumFunction(g) = SumFunction(f)
<1> DEFINE h == RowAt(R, n)
<1>1. /\ \A i \in 1..n : h[i] \in R /\ h[i].line = i
      /\ \A r \in R : r.line \in 1..n /\ h[r.line] = r
  BY RowAtLine
<1> HIDE DEF h
<1>2. DOMAIN g = {h[i] : i \in DOMAIN f}
  BY <1>1
<1>3. /\ \A i, j \in DOMAIN f : h[i] = h[j] => i = j
      /\ \A i \in DOMAIN f : g[h[i]] = f[i]
  BY <1>1, <1>2
<1> QED
  BY <1>2, <1>3, SumRename

LEMMA LinesSummable ==
    ASSUME NEW ls \in Seq(Line)
    PROVE  /\ Summable([i \in DOMAIN ls |-> ls[i].debit])
           /\ Summable([i \in DOMAIN ls |-> ls[i].credit])
           /\ Len(ls) \in Nat /\ DOMAIN ls = 1..Len(ls) /\ IsFiniteSet(DOMAIN ls)
           /\ \A i \in DOMAIN ls : ls[i] \in Line
           /\ \A i \in DOMAIN ls : ls[i].debit \in Int /\ ls[i].credit \in Int
                                   /\ Change(ls[i]) \in Int
<1>1. Len(ls) \in Nat /\ DOMAIN ls = 1..Len(ls) /\ \A i \in DOMAIN ls : ls[i] \in Line
  OBVIOUS
<1>2. IsFiniteSet(DOMAIN ls)
  BY <1>1, FS_Interval
<1>3. \A i \in DOMAIN ls : ls[i].debit \in Int /\ ls[i].credit \in Int
  BY <1>1 DEF Line
<1>4. \A i \in DOMAIN ls : Change(ls[i]) \in Int
  BY <1>1, ChangeType
<1> QED
  BY <1>1, <1>2, <1>3, <1>4 DEF Summable

\* Lines that balance make rows that do, whichever side each account is on.
LEMMA RowsBalance ==
    ASSUME NEW ls \in Seq(Line), DebitTotal(ls) = CreditTotal(ls),
           NEW R, RowsOf(R, ls, Len(ls))
    PROVE  SumFunction([r \in R |-> IF r.account \in NormalDebit
                                    THEN r.change ELSE -r.change]) = 0
<1> DEFINE debits == [i \in DOMAIN ls |-> ls[i].debit]
           credits == [i \in DOMAIN ls |-> ls[i].credit]
           owed == [i \in DOMAIN ls |-> -ls[i].credit]
           f == [i \in DOMAIN ls |-> ls[i].debit - ls[i].credit]
           g == [r \in R |-> IF r.account \in NormalDebit THEN r.change ELSE -r.change]
<1>1. /\ Summable(debits) /\ Summable(credits) /\ Len(ls) \in Nat /\ DOMAIN ls = 1..Len(ls)
      /\ \A i \in DOMAIN ls : ls[i].debit \in Int /\ ls[i].credit \in Int
  BY LinesSummable
<1>2. Summable(owed) /\ Summable(f)
  BY <1>1 DEF Summable
<1>3. SumFunction(owed) = -SumFunction(credits)
  <2>1. DOMAIN owed = DOMAIN credits /\ \A i \in DOMAIN credits : owed[i] = -credits[i]
    OBVIOUS
  <2> HIDE DEF owed, credits
  <2> QED
    BY <1>1, <2>1, SumNegate
<1>4. SumFunction(f) = SumFunction(debits) + SumFunction(owed)
  <2>1. /\ DOMAIN debits = DOMAIN f /\ DOMAIN owed = DOMAIN f
        /\ \A i \in DOMAIN f : f[i] = debits[i] + owed[i]
    BY <1>1
  <2> HIDE DEF debits, owed, f
  <2> QED
    BY <1>1, <1>2, <2>1, SumPlus
<1>5. SumFunction(debits) = SumFunction(credits) /\ SumFunction(credits) \in Int
  BY <1>1, SumType DEF DebitTotal, CreditTotal
<1>6. SumFunction(g) = SumFunction(f)
  <2>1. \A r \in R : /\ r.line \in 1..Len(ls) /\ r.account = ls[r.line].account
                     /\ r.change = Change(ls[r.line])
    BY DEF RowsOf
  <2>2. \A r \in DOMAIN g : g[r] = f[r.line]
    <3> SUFFICES ASSUME NEW r \in R PROVE g[r] = f[r.line]
      OBVIOUS
    <3>1. PICK d \in Int, k \in Int : d = ls[r.line].debit /\ k = ls[r.line].credit
      BY <1>1, <2>1
    <3>2. r.change = IF r.account \in NormalDebit THEN d - k ELSE k - d
      BY <2>1, <3>1 DEF Change
    <3>3. g[r] = d - k
      BY <3>2
    <3> QED
      BY <1>1, <2>1, <3>1, <3>3
  <2>3. DOMAIN g = {r \in R : r.line \in DOMAIN f} /\ DOMAIN f \subseteq 1..Len(ls)
    BY <1>1, <2>1
  <2> HIDE DEF f, g
  <2> QED
    BY <1>1, <1>2, <2>2, <2>3, RowSum
<1> HIDE DEF debits, credits, owed, f
<1> QED
  BY <1>3, <1>4, <1>5, <1>6

\* Golden-case invariants 1 and 2, for every number of calls, accounts and
\* lines and every interleaving: no partial writes, and every entry balances.
THEOREM EntriesWhole == Spec => []WholeEntries
<1>1. IInv /\ ValidInv /\ BookInv => WholeEntries
  <2> SUFFICES ASSUME IInv, ValidInv, BookInv, NEW p \in posts
               PROVE  /\ {[account |-> r.account, line |-> r.line, change |-> r.change] :
                              r \in PostRows(p)}
                           = {[account |-> lines[p][i].account, line |-> i,
                               change |-> Change(lines[p][i])] : i \in DOMAIN lines[p]}
                      /\ Cardinality(PostRows(p)) = Len(lines[p])
                      /\ SumFunction([r \in PostRows(p) |->
                             IF r.account \in NormalDebit THEN r.change ELSE -r.change]) = 0
    BY DEF ValidInv, WholeEntries, PostRows
  <2> DEFINE R == PostRows(p)
             ls == lines[p]
  <2>1. /\ ls \in Seq(Line) /\ ValidLines(ls, seen[p]) /\ RowsOf(R, ls, Len(ls))
    BY DEF IInv, TypeOK, ValidInv, ValidCall, BookInv, PostedInv
  <2>2. Len(ls) \in Nat /\ DOMAIN ls = 1..Len(ls)
    BY <2>1
  <2> HIDE DEF R, ls
  <2>3. {[account |-> r.account, line |-> r.line, change |-> r.change] : r \in R}
          = {[account |-> ls[i].account, line |-> i, change |-> Change(ls[i])] : i \in DOMAIN ls}
    BY <2>1, <2>2 DEF RowsOf
  <2>4. Cardinality(R) = Len(ls)
    <3>1. ExistsBijection(1..Len(ls), R)
      BY <2>1, <2>2, RowAtLine DEF ExistsBijection
    <3>2. IsFiniteSet(1..Len(ls)) /\ Cardinality(1..Len(ls)) = Len(ls)
      <4>1. 1 \in Int /\ Len(ls) \in Int
        BY <2>2
      <4>2. /\ IsFiniteSet(1..Len(ls))
            /\ Cardinality(1..Len(ls)) = IF 1 > Len(ls) THEN 0 ELSE Len(ls) - 1 + 1
        BY <4>1, FS_Interval
      <4> QED
        BY <2>2, <4>2
    <3> QED
      BY <3>1, <3>2, FS_Bijection
  <2>5. SumFunction([r \in R |-> IF r.account \in NormalDebit THEN r.change ELSE -r.change]) = 0
    BY <2>1, RowsBalance DEF ValidLines
  <2> QED
    BY <2>3, <2>4, <2>5 DEF R, ls
<1> QED
  BY <1>1, BookInductive, PTL

-----------------------------------------------------------------------------
(* Reversals.                                                              *)

LEMMA NetIsMoved ==
    ASSUME NEW ls \in Seq(Line), NEW a
    PROVE  Net(ls, a) = Moved(ls, Len(ls), a)
BY DEF Net, Moved

\* The rows of an entry add up to its net effect, account by account.
LEMMA RowsNet ==
    ASSUME NEW ls \in Seq(Line), NEW R, RowsOf(R, ls, Len(ls)), NEW a
    PROVE  LET g == [r \in {x \in R : x.account = a} |-> r.change]
           IN  Summable(g) /\ SumFunction(g) = Net(ls, a)
<1> DEFINE f == [i \in {j \in DOMAIN ls : ls[j].account = a} |-> Change(ls[i])]
           g == [r \in {x \in R : x.account = a} |-> r.change]
<1>1. Len(ls) \in Nat /\ DOMAIN ls = 1..Len(ls)
  OBVIOUS
<1>2. Summable(f) /\ DOMAIN f \subseteq 1..Len(ls)
  <2>1. IsFiniteSet(DOMAIN f)
    <3>1. IsFiniteSet(DOMAIN ls) /\ DOMAIN f \in SUBSET DOMAIN ls
      BY LinesSummable
    <3> QED
      BY <3>1, FS_Subset
  <2> QED
    BY <1>1, <2>1, LinesSummable DEF Summable
<1>3. \A r \in R : /\ r.line \in 1..Len(ls) /\ r.account = ls[r.line].account
                   /\ r.change = Change(ls[r.line])
  BY DEF RowsOf
<1>4. DOMAIN g = {r \in R : r.line \in DOMAIN f} /\ \A r \in DOMAIN g : g[r] = f[r.line]
  BY <1>1, <1>3
<1>5. SumFunction(f) = Net(ls, a)
  BY DEF Net
<1> HIDE DEF f, g
<1>6. Summable(g) /\ SumFunction(g) = SumFunction(f)
  BY <1>1, <1>2, <1>4, RowSum
<1> QED
  BY <1>5, <1>6 DEF g

\* Exchanging the sides of the lines undoes what they do to an account.
LEMMA NetOfSwap ==
    ASSUME NEW ls \in Seq(Line), NEW a
    PROVE  Net(ls, a) \in Int /\ Net(Swap(ls), a) = -Net(ls, a)
<1> DEFINE f == [i \in {j \in DOMAIN ls : ls[j].account = a} |-> Change(ls[i])]
           g == [i \in {j \in DOMAIN Swap(ls) : Swap(ls)[j].account = a} |-> Change(Swap(ls)[i])]
<1>1. /\ DOMAIN ls = 1..Len(ls) /\ Len(ls) \in Nat
      /\ \A i \in DOMAIN ls : /\ ls[i] \in Line
                              /\ ls[i].debit \in Int /\ ls[i].credit \in Int
                              /\ Change(ls[i]) \in Int
  BY LinesSummable
<1>2. DOMAIN Swap(ls) = DOMAIN ls
  BY DEF Swap
<1>3. \A i \in DOMAIN ls : /\ Swap(ls)[i].account = ls[i].account
                           /\ Swap(ls)[i].debit = ls[i].credit
                           /\ Swap(ls)[i].credit = ls[i].debit
  BY <1>1 DEF Swap, Line
<1>4. \A i \in DOMAIN ls : Change(Swap(ls)[i]) = -Change(ls[i])
  <2> SUFFICES ASSUME NEW i \in DOMAIN ls PROVE Change(Swap(ls)[i]) = -Change(ls[i])
    OBVIOUS
  <2>1. PICK d \in Int, k \in Int : d = ls[i].debit /\ k = ls[i].credit
    BY <1>1
  <2>2. Change(ls[i]) = IF ls[i].account \in NormalDebit THEN d - k ELSE k - d
    BY <2>1 DEF Change
  <2>3. Change(Swap(ls)[i]) = IF ls[i].account \in NormalDebit THEN k - d ELSE d - k
    BY <1>3, <2>1 DEF Change
  <2> QED
    BY <2>2, <2>3
<1>5. Summable(f)
  <2>1. IsFiniteSet(DOMAIN f)
    <3>1. IsFiniteSet(DOMAIN ls) /\ DOMAIN f \in SUBSET DOMAIN ls
      BY LinesSummable
    <3> QED
      BY <3>1, FS_Subset
  <2> QED
    BY <1>1, <2>1 DEF Summable
<1>6. DOMAIN g = DOMAIN f
  BY <1>2, <1>3
<1>7. \A i \in DOMAIN f : g[i] = -f[i]
  BY <1>2, <1>3, <1>4
<1>8. Net(ls, a) = SumFunction(f) /\ Net(Swap(ls), a) = SumFunction(g)
  BY DEF Net
<1> HIDE DEF f, g
<1> QED
  BY <1>5, <1>6, <1>7, <1>8, SumNegate, SumType

\* GC-4, for any number of posts and reversals (of reversals too): what an
\* original and its reversal did to an account adds up to nothing.
THEOREM ReversalsNet == Spec => []ReversalNetsZero
<1>1. IInv /\ BookInv => ReversalNetsZero
  <2> SUFFICES ASSUME IInv, BookInv, NEW p \in posts, Req[p].kind = "reversal", NEW a \in Account
               PROVE  LET both == {r \in ledger : r.post \in {p, Req[p].reverses}}
                      IN  SumFunction([r \in {x \in both : x.account = a} |-> r.change]) = 0
    BY DEF ReversalNetsZero
  <2> DEFINE o == Req[p].reverses
             both == {r \in ledger : r.post \in {p, o}}
             f == [r \in {x \in both : x.account = a} |-> r.change]
             mine == {x \in PostRows(p) : x.account = a}
             its == {x \in PostRows(o) : x.account = a}
  <2>1. p \in Call /\ LinesInv(p) /\ PostedInv
    BY DEF IInv, TypeOK, BookInv
  <2>2. o \in posts \ {p} /\ lines[p] = Swap(lines[o])
    BY <2>1 DEF LinesInv
  <2>3. /\ lines[p] \in Seq(Line) /\ RowsOf(PostRows(p), lines[p], Len(lines[p]))
        /\ lines[o] \in Seq(Line) /\ RowsOf(PostRows(o), lines[o], Len(lines[o]))
    BY <2>1, <2>2 DEF IInv, TypeOK, PostedInv
  <2>4. /\ Summable([r \in mine |-> r.change])
        /\ SumFunction([r \in mine |-> r.change]) = Net(lines[p], a)
    BY <2>3, RowsNet
  <2>5. /\ Summable([r \in its |-> r.change])
        /\ SumFunction([r \in its |-> r.change]) = Net(lines[o], a)
    BY <2>3, RowsNet
  <2>6. DOMAIN f = mine \cup its /\ mine \cap its = {}
    BY <2>2 DEF PostRows
  <2>7. /\ Restrict(f, mine) = [r \in mine |-> r.change]
        /\ Restrict(f, its) = [r \in its |-> r.change]
    BY <2>6 DEF Restrict
  <2>8. Summable(f)
    <3>1. IsFiniteSet(mine) /\ IsFiniteSet(its)
      BY <2>4, <2>5 DEF Summable
    <3>2. \A r \in mine \cup its : f[r] \in Int
      BY <2>4, <2>5, <2>6 DEF Summable
    <3> HIDE DEF f, mine, its
    <3> QED
      BY <2>6, <3>1, <3>2, FS_Union DEF Summable
  <2>9. SumFunction(f) = Net(lines[p], a) + Net(lines[o], a)
    <3> HIDE DEF f, mine, its
    <3> QED
      BY <2>4, <2>5, <2>6, <2>7, <2>8, SumSplit
  <2>10. Net(lines[o], a) \in Int /\ Net(lines[p], a) = -Net(lines[o], a)
    BY <2>2, <2>3, NetOfSwap
  <2>11. SumFunction(f) = 0
    <3> HIDE DEF f, o
    <3> QED
      BY <2>9, <2>10
  <2> QED
    BY <2>11
<1> QED
  BY <1>1, BookInductive, PTL

-----------------------------------------------------------------------------
(* The book.                                                               *)

LEMMA BookSums == ASSUME NEW f PROVE Book!SumFunction(f) = SumFunction(f)
BY DEF SumFunction, SumFunctionOnSet, FoldFunctionOnSet, MapThenFoldSet, Book!SumFunction,
       Book!SumFunctionOnSet, Book!FoldFunctionOnSet, Book!MapThenFoldSet

LEMMA BookRules ==
    ASSUME NEW ls
    PROVE  /\ Book!DebitTotal(ls) = DebitTotal(ls) /\ Book!CreditTotal(ls) = CreditTotal(ls)
           /\ Book!Swap(ls) = Swap(ls)
           /\ \A a : Book!Net(ls, a) = Net(ls, a)
<1>1. Book!Swap(ls) = Swap(ls)
  BY DEF Swap, Book!Swap
<1>2. Book!DebitTotal(ls) = DebitTotal(ls)
  BY BookSums DEF DebitTotal, Book!DebitTotal
<1>3. Book!CreditTotal(ls) = CreditTotal(ls)
  BY BookSums DEF CreditTotal, Book!CreditTotal
<1>4. ASSUME NEW a PROVE Book!Net(ls, a) = Net(ls, a)
  BY BookSums DEF Net, Book!Net, Change, Book!Change
<1> QED
  BY <1>1, <1>2, <1>3, <1>4

Entries == {[id |-> p, lines |-> lines[p]] : p \in posts}

\* What the invariants say of a call that has not answered.
LEMMA Unanswered ==
    ASSUME IInv, IdInv, ValidInv, NEW c \in Call, pc[c] # "done"
    PROVE  /\ outcome[c] = Pending
           /\ pc[c] # "emit" => c \notin posts
           /\ pc[c] = "emit" => c \in posts
           /\ Book!Recorded(c) <=> c \in posts
<1>1. c \in posts => [id |-> c, lines |-> lines[c]] \in Entries
  BY DEF Entries
<1>2. \A e \in Entries : e.id \in posts
  BY DEF Entries
<1>3. Book!Recorded(c) <=> \E e \in Entries : e.id = c
  BY DEF Book!Recorded, Entries
<1>4. Book!Recorded(c) <=> c \in posts
  BY <1>1, <1>2, <1>3
<1> QED
  BY <1>4 DEF IdInv, ValidInv, ValidCall

\* An answer is one of the book's three, given once.
LEMMA AnswerIsTold ==
    ASSUME IInv, IdInv, ValidInv, NEW c \in Call, pc[c] # "done",
           UNCHANGED <<lines, glVars>>, NEW how, NEW p, Return(c, how, p),
           \/ how = "error" /\ p = Nil
           \/ how \in {"refused", "conflict"} /\ p = Nil /\ pc[c] # "emit"
           \/ how = "reused" /\ p \in Existing(c) /\ pc[c] # "emit"
           \/ how = "posted" /\ p = c /\ pc[c] = "emit"
    PROVE  Book!Next
<1>1. /\ outcome[c] = Pending
      /\ outcome' = [outcome EXCEPT ![c] = [how |-> how, post |-> p]]
      /\ UNCHANGED <<Entries, balance>>
  BY Unanswered DEF Return, Entries, glVars
<1>2. Book!Tell(c, how, p)
  BY <1>1 DEF Book!Tell, Book!Pending, Pending, Entries
<1>3. /\ pc[c] # "emit" => ~Book!Recorded(c)
      /\ pc[c] = "emit" => Book!Recorded(c)
  BY Unanswered
<1>4. CASE how \in {"error", "refused", "conflict"}
  <2>1. Book!TellFailure(c)
    BY <1>2, <1>3, <1>4 DEF Book!TellFailure
  <2> QED
    BY <2>1 DEF Book!Next
<1>5. CASE how = "reused"
  <2>1. [id |-> p, lines |-> lines[p]] \in Entries /\ Book!Stands(c, p)
    BY <1>5 DEF Existing, Entries, Book!Stands, SameSource, Book!SameSource
  <2>2. Book!TellReused(c)
    BY <1>2, <1>3, <1>5, <2>1 DEF Book!TellReused, Entries
  <2> QED
    BY <2>2 DEF Book!Next
<1>6. CASE how = "posted"
  <2>1. Book!TellFresh(c)
    BY <1>2, <1>3, <1>6 DEF Book!TellFresh
  <2> QED
    BY <2>1 DEF Book!Next
<1> QED
  BY <1>4, <1>5, <1>6

\* The commit writes every balance as if it had been moved in that instant.
LEMMA CommitMoves ==
    ASSUME TypeOK, BalanceInv, BookInv, NEW c \in Call, Commit(c)
    PROVE  balance' = [a \in Account |-> balance[a] + Net(lines[c], a)]
<1>1. /\ pc[c] = "commit"
      /\ balance' = [a \in Account |-> IF holder[a] = c THEN run[c][a] ELSE balance[a]]
  BY DEF Commit
<1>2. /\ lines[c] \in Seq(Line) /\ AppendInv(c) /\ TxInv(c)
  BY DEF TypeOK, BookInv, BalanceInv
<1>3. /\ RowsOf(rows[c], lines[c], Len(lines[c]))
      /\ \A a \in Account : holder[a] = c => run[c][a] = balance[a] + Net(lines[c], a)
  BY <1>1, <1>2, NetIsMoved DEF AppendInv
<1>4. ASSUME NEW a \in Account, holder[a] # c PROVE Net(lines[c], a) = 0
  <2>1. \A i \in 1..Len(lines[c]) : lines[c][i].account # a
    BY <1>2, <1>3, <1>4 DEF RowsOf, TxInv
  <2>2. DOMAIN [i \in {j \in DOMAIN lines[c] : lines[c][j].account = a} |->
                  Change(lines[c][i])] = {}
    BY <1>2, <2>1
  <2> QED
    BY <2>2, SumEmpty DEF Net
<1>5. \A a \in Account : balance[a] \in Int
  BY DEF TypeOK
<1> QED
  BY <1>1, <1>3, <1>4, <1>5

LEMMA CommitRecords ==
    ASSUME IInv, IdInv, ValidInv, BookInv, NEW c \in Call, Commit(c)
    PROVE  Book!Next
<1>1. /\ pc[c] = "commit" /\ posts' = posts \cup {c} /\ lines' = lines /\ outcome' = outcome
  BY DEF Commit
<1>2. outcome[c] = Pending /\ c \notin posts
  BY <1>1, Unanswered
<1>3. Entries' = Entries \cup {[id |-> c, lines |-> lines[c]]}
  BY <1>1 DEF Entries
<1>4. ASSUME NEW e \in Entries PROVE ~Book!SameIdentity(c, e.id)
  <2>1. e.id \in posts /\ e.id # c
    BY <1>2 DEF Entries
  <2>2. ~Clash(c, e.id)
    BY <1>1, <2>1 DEF IdInv, OneEntryPerIdentity
  <2> QED
    BY <2>2 DEF Clash, SameSource, Book!SameIdentity, Book!SameSource
<1>5. lines[c] \in Book!LinesFor(c)
  <2>1. Req[c].kind \in {"original", "reversal"}
    BY RequestAssumption DEF Request
  <2>2. LinesInv(c)
    BY DEF BookInv
  <2>3. CASE Req[c].kind = "original"
    BY <2>2, <2>3 DEF LinesInv, Book!LinesFor
  <2>4. CASE Req[c].kind = "reversal"
    <3>1. Req[c].reverses \in posts /\ lines[c] = Swap(lines[Req[c].reverses])
      BY <1>1, <2>2, <2>4 DEF LinesInv
    <3>2. PICK e \in Entries : e.id = Req[c].reverses /\ e.lines = lines[Req[c].reverses]
      <4>1. [id |-> Req[c].reverses, lines |-> lines[Req[c].reverses]] \in Entries
        BY <3>1 DEF Entries
      <4> QED
        BY <4>1
    <3>3. lines[c] = Book!Swap(e.lines)
      BY <3>1, <3>2, BookRules
    <3> QED
      BY <2>4, <3>2, <3>3 DEF Book!LinesFor, Entries
  <2> QED
    BY <2>1, <2>3, <2>4
<1>6. Book!DebitTotal(lines[c]) = Book!CreditTotal(lines[c])
  BY <1>1, BookRules DEF ValidInv, ValidCall, InTx, ValidLines
<1>7. balance' = [a \in Account |-> balance[a] + Book!Net(lines[c], a)]
  BY CommitMoves, BookRules DEF IInv, BalanceInv
<1>8. Book!Record(c)
  BY <1>1, <1>2, <1>3, <1>4, <1>5, <1>6, <1>7 DEF Book!Record, Book!Pending, Pending, Entries
<1> QED
  BY <1>8 DEF Book!Next

LEMMA BookSimulates ==
    ASSUME IInv, IdInv, ValidInv, BookInv, [Next]_vars
    PROVE  [Book!Next]_Book!vars
<1> USE DEF Book!vars
<1>1. ASSUME NEW c \in Call, Find(c) \/ Resolve(c)
      PROVE  Book!Next \/ UNCHANGED <<Entries, balance, outcome>>
  <2>1. pc[c] \in {"find", "resolve"} /\ UNCHANGED <<lines, glVars>>
    BY <1>1 DEF Find, Resolve
  <2>2. \/ \E p \in Existing(c) : Return(c, "reused", p)
        \/ Return(c, "error", Nil)
        \/ UNCHANGED outcome
    BY <1>1 DEF Find, Resolve, Reuse
  <2> QED
    BY <2>1, <2>2, AnswerIsTold DEF Entries, glVars
<1>2. ASSUME NEW c \in Call, ReadSource(c)
      PROVE  Book!Next \/ UNCHANGED <<Entries, balance, outcome>>
  <2>1. pc[c] = "source" /\ UNCHANGED glVars
    BY <1>2 DEF ReadSource
  <2>2. CASE Return(c, "conflict", Nil) /\ UNCHANGED lines
    BY <2>1, <2>2, AnswerIsTold
  <2>3. CASE lines' = [lines EXCEPT ![c] = Swap(lines[Req[c].reverses])] /\ UNCHANGED outcome
    <3>1. c \notin posts /\ posts \subseteq Call
      BY <2>1, Unanswered DEF IInv, TypeOK
    <3>2. \A p \in posts : lines'[p] = lines[p]
      BY <2>3, <3>1 DEF IInv, TypeOK
    <3> QED
      BY <2>1, <2>3, <3>2 DEF Entries, glVars
  <2> QED
    BY <1>2, <2>2, <2>3 DEF ReadSource
<1>3. ASSUME NEW c \in Call, RecordFailed(c) \/ PanicOnMissing(c) \/ Emit(c) \/ Abort(c)
      PROVE  Book!Next
  <2>1. pc[c] # "done" /\ UNCHANGED <<lines, glVars>>
    BY <1>3 DEF RecordFailed, PanicOnMissing, Emit, Abort
  <2>2. \/ Return(c, "error", Nil)
        \/ Return(c, "refused", Nil) /\ pc[c] # "emit"
        \/ Return(c, "posted", c) /\ pc[c] = "emit"
    BY <1>3 DEF RecordFailed, PanicOnMissing, Emit, Abort
  <2> QED
    BY <2>1, <2>2, AnswerIsTold
<1>4. ASSUME NEW c \in Call,
             \/ ReadAccounts(c) \/ Validate(c) \/ ReadFails(c) \/ LockNext(c)
             \/ ReadSequences(c) \/ AppendLine(c) \/ InsertPost(c)
      PROVE  UNCHANGED <<Entries, balance, outcome>>
  BY <1>4 DEF ReadAccounts, Validate, ReadFails, LockNext, ReadSequences, AppendLine,
              InsertPost, callVars, glVars, Entries
<1>5. CASE \E c \in Call : Step(c) \/ ReadFails(c) \/ Abort(c)
  <2>1. Book!Next \/ UNCHANGED <<Entries, balance, outcome>>
    BY <1>1, <1>2, <1>3, <1>4, <1>5, CommitRecords DEF Step
  <2> QED
    BY <2>1 DEF Entries
<1>6. CASE \/ \E m \in StatusMoves : EditAccount(m[1], m[2])
           \/ \E p \in Period, s \in PeriodStatus : MovePeriod(p, s)
           \/ UNCHANGED vars
  <2>1. UNCHANGED <<Entries, balance, outcome>>
    BY <1>6 DEF EditAccount, MovePeriod, vars, callVars, glVars, Entries
  <2> QED
    BY <2>1 DEF Entries
<1> QED
  BY <1>5, <1>6 DEF Next, Quiescent

\* The reads, locks, rivals, failures and restarts of Posting come to no more
\* than GLBook does: an entry goes in whole and once per identity, with every
\* balance, and callers are told of entries that are there.
THEOREM BookImplemented == Spec => ImplementsBook
<1>1. Init => Book!Init
  BY DEF Init, Book!Init, Book!Pending, Pending
<1>2. IInv /\ IdInv /\ ValidInv /\ BookInv /\ [Next]_vars => [Book!Next]_Book!vars
  BY BookSimulates
<1> QED
  BY <1>1, <1>2, BookInductive, PTL DEF Spec, ImplementsBook, Book!Spec
==============================================================================
