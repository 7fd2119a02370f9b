----------------------- MODULE Posting_identity_proofs -----------------------
(***************************************************************************)
(* What arbitrates between calls of Posting.  Identities: one entry each,  *)
(* a winner for every loser, one answer per key, at most one event.  Row   *)
(* locks and index entries: no set of calls waits only for each other.     *)
(***************************************************************************)
EXTENDS Posting_proofs, FiniteSetTheorems, WellFoundedInduction

\* What makes the four properties inductive together: a call that goes on to
\* publish has committed, an answer names a posted post with the key of the
\* call, and only a call that is done has an answer or an event.
IdInv ==
    /\ OneEntryPerIdentity
    /\ LoserFindsWinner
    /\ \A c \in Call :
        /\ pc[c] = "emit" => c \in posts
        /\ pc[c] # "done" => outcome[c] = Pending /\ emitted[c] = 0
        /\ outcome[c].how \in {"posted", "reused"} <=> outcome[c].post # Nil
        /\ outcome[c].post # Nil =>
              /\ outcome[c].post \in posts
              /\ Req[c].key # Nil => Req[outcome[c].post].key = Req[c].key
        /\ emitted[c] > 0 => /\ emitted[c] = 1 /\ c \in posts
                             /\ outcome[c] = [how |-> "posted", post |-> c]

LEMMA IdInit == Init => IdInv
BY DEF Init, IdInv, OneEntryPerIdentity, LoserFindsWinner, Pending

\* Clash and the two reads of find_existing_post fit together.
LEMMA ClashIsFound ==
    ASSUME NEW c \in Call, NEW p \in posts, Clash(c, p)
    PROVE  p \in Existing(c)
BY DEF Clash, Existing, SameSource

LEMMA ClashSymmetric == \A c, d \in Call : Clash(c, d) <=> Clash(d, c)
BY DEF Clash, SameSource

\* A step that touches neither posts nor answers.
LEMMA MoveKeeps ==
    ASSUME TypeOK, IdInv, UNCHANGED <<posts, emitted, outcome>>,
           \A d \in Call : \/ pc'[d] = pc[d]
                           \/ pc[d] # "done" /\ pc'[d] \notin {"commit", "resolve", "emit"}
    PROVE  IdInv'
<1>1. \A d \in Call : Existing(d)' = Existing(d)
  BY DEF Existing
<1>2. OneEntryPerIdentity'
  BY DEF IdInv, OneEntryPerIdentity
<1>3. LoserFindsWinner'
  BY <1>1 DEF IdInv, LoserFindsWinner
<1>4. QED
  BY <1>2, <1>3 DEF IdInv

\* A step that answers its call with a failure or with a post it has found.
LEMMA AnswerKeeps ==
    ASSUME TypeOK, IdInv, UNCHANGED <<posts, emitted>>,
           NEW c \in Call, pc[c] # "done", NEW how, NEW p, Return(c, how, p),
           \/ p = Nil /\ how \in {"refused", "conflict", "error"}
           \/ p \in Existing(c) /\ how = "reused"
    PROVE  IdInv'
<1>1. /\ pc' = [pc EXCEPT ![c] = "done"]
      /\ outcome' = [outcome EXCEPT ![c] = [how |-> how, post |-> p]]
  BY DEF Return, Goto
<1>2. \A d \in Call : Existing(d)' = Existing(d)
  BY DEF Existing
<1>3. \A d \in Call : d # c => pc'[d] = pc[d] /\ outcome'[d] = outcome[d]
  BY <1>1 DEF TypeOK
<1>4. pc'[c] = "done" /\ outcome'[c].how = how /\ outcome'[c].post = p
  BY <1>1 DEF TypeOK
<1>5. OneEntryPerIdentity'
  BY <1>3, <1>4 DEF IdInv, OneEntryPerIdentity
<1>6. LoserFindsWinner'
  BY <1>2, <1>3, <1>4 DEF IdInv, LoserFindsWinner
<1>7. emitted[c] = 0
  BY DEF IdInv
<1>8. p \in Existing(c) =>
        /\ p \in posts /\ p # Nil
        /\ Req[c].key # Nil => Req[p].key = Req[c].key
  BY NilAssumption DEF Existing, TypeOK
<1>9. /\ outcome'[c].how \in {"posted", "reused"} <=> outcome'[c].post # Nil
      /\ outcome'[c].post # Nil =>
            /\ outcome'[c].post \in posts'
            /\ Req[c].key # Nil => Req[outcome'[c].post].key = Req[c].key
      /\ emitted'[c] = 0
  BY <1>4, <1>7, <1>8
<1>10. QED
  BY <1>3, <1>4, <1>5, <1>6, <1>9 DEF IdInv

LEMMA InsertPostKeeps ==
    ASSUME TypeOK, IdInv, NEW c \in Call, InsertPost(c)
    PROVE  IdInv'
<1>1. /\ pc[c] = "append" /\ UNCHANGED <<posts, emitted, outcome>>
      /\ \A d \in Call : pc[d] = "commit" => ~Clash(c, d)
  BY DEF InsertPost, glVars, logVars
<1>2. \A d \in Call : Existing(d)' = Existing(d)
  BY <1>1 DEF Existing
<1>3. \A d \in Call : d # c => pc'[d] = pc[d]
  BY DEF InsertPost, Goto, TypeOK
<1>4. CASE pc' = [pc EXCEPT ![c] = "resolve"] /\ \E p \in posts : Clash(c, p)
  <2>1. pc'[c] = "resolve" /\ Existing(c) # {}
    BY <1>4, ClashIsFound DEF TypeOK
  <2>2. OneEntryPerIdentity'
    BY <2>1, <1>1, <1>3 DEF IdInv, OneEntryPerIdentity
  <2>3. LoserFindsWinner'
    BY <2>1, <1>2, <1>3 DEF IdInv, LoserFindsWinner
  <2>4. QED
    BY <2>1, <2>2, <2>3, <1>1, <1>3 DEF IdInv
<1>5. CASE pc' = [pc EXCEPT ![c] = "commit"] /\ \A p \in posts : ~Clash(c, p)
  <2>1. pc'[c] = "commit"
    BY <1>5 DEF TypeOK
  <2>2. \A d \in posts \cup {x \in Call : pc[x] = "commit"} : d \in Call /\ ~Clash(c, d)
    BY <1>1, <1>5 DEF TypeOK
  <2>3. OneEntryPerIdentity'
    BY <2>1, <2>2, <1>1, <1>3, ClashSymmetric DEF IdInv, OneEntryPerIdentity
  <2>4. LoserFindsWinner'
    BY <2>1, <1>2, <1>3 DEF IdInv, LoserFindsWinner
  <2>5. QED
    BY <2>1, <2>3, <2>4, <1>1, <1>3 DEF IdInv
<1>6. QED
  BY <1>4, <1>5 DEF InsertPost, Goto

LEMMA CommitKeeps ==
    ASSUME TypeOK, IdInv, NEW c \in Call, Commit(c)
    PROVE  IdInv'
<1>1. /\ pc[c] = "commit" /\ pc' = [pc EXCEPT ![c] = "emit"]
      /\ posts' = posts \cup {c} /\ UNCHANGED <<emitted, outcome>>
  BY DEF Commit, Goto, logVars
<1>2. pc'[c] = "emit" /\ \A d \in Call : d # c => pc'[d] = pc[d]
  BY <1>1 DEF TypeOK
<1>3. \A d \in Call : Existing(d) \subseteq Existing(d)'
  BY <1>1 DEF Existing
<1>4. OneEntryPerIdentity'
  BY <1>1, <1>2 DEF IdInv, OneEntryPerIdentity
<1>5. LoserFindsWinner'
  BY <1>2, <1>3 DEF IdInv, LoserFindsWinner
<1>6. QED
  BY <1>1, <1>2, <1>4, <1>5 DEF IdInv

LEMMA EmitKeeps ==
    ASSUME TypeOK, IdInv, NEW c \in Call, Emit(c)
    PROVE  IdInv'
<1>1. /\ pc[c] = "emit" /\ UNCHANGED posts
      /\ emitted' = emitted \/ emitted' = [emitted EXCEPT ![c] = @ + 1]
      /\ pc' = [pc EXCEPT ![c] = "done"]
      /\ outcome' = [outcome EXCEPT ![c] = [how |-> "posted", post |-> c]]
  BY DEF Emit, Return, Goto, glVars
<1>2. /\ c \in posts /\ c # Nil /\ emitted[c] = 0
      /\ pc'[c] = "done" /\ outcome'[c] = [how |-> "posted", post |-> c]
      /\ emitted'[c] \in {0, 1}
  BY <1>1, NilAssumption DEF IdInv, TypeOK
<1>3. \A d \in Call : d # c =>
        pc'[d] = pc[d] /\ outcome'[d] = outcome[d] /\ emitted'[d] = emitted[d]
  BY <1>1 DEF TypeOK
<1>4. \A d \in Call : Existing(d)' = Existing(d)
  BY <1>1 DEF Existing
<1>5. OneEntryPerIdentity'
  BY <1>1, <1>2, <1>3 DEF IdInv, OneEntryPerIdentity
<1>6. LoserFindsWinner'
  BY <1>2, <1>3, <1>4 DEF IdInv, LoserFindsWinner
<1>7. QED
  BY <1>1, <1>2, <1>3, <1>5, <1>6 DEF IdInv

LEMMA IdStep ==
    ASSUME TypeOK, IdInv, [Next]_vars
    PROVE  IdInv'
<1>1. ASSUME NEW c \in Call,
             \/ Find(c) \/ ReadSource(c) \/ RecordFailed(c) \/ Resolve(c)
             \/ PanicOnMissing(c) \/ Abort(c)
      PROVE  IdInv'
  <2>1. UNCHANGED <<posts, emitted>> /\ pc[c] # "done"
    BY <1>1 DEF Find, ReadSource, RecordFailed, Resolve, PanicOnMissing, Abort, glVars, logVars
  <2>2. \/ \E p \in Existing(c) : Return(c, "reused", p)
        \/ \E how \in {"refused", "conflict", "error"} : Return(c, how, Nil)
        \/ /\ UNCHANGED outcome
           /\ \E there \in {"source", "accounts"} : Goto(c, there)
    BY <1>1 DEF Find, ReadSource, RecordFailed, Resolve, PanicOnMissing, Abort, Reuse
  <2>3. CASE \/ \E p \in Existing(c) : Return(c, "reused", p)
             \/ \E how \in {"refused", "conflict", "error"} : Return(c, how, Nil)
    BY <2>1, <2>3, AnswerKeeps
  <2>4. CASE UNCHANGED outcome /\ \E there \in {"source", "accounts"} : Goto(c, there)
    <3>1. \A d \in Call : \/ pc'[d] = pc[d]
                          \/ pc[d] # "done" /\ pc'[d] \notin {"commit", "resolve", "emit"}
      BY <2>1, <2>4 DEF Goto, TypeOK
    <3>2. QED
      BY <2>1, <2>4, <3>1, MoveKeeps
  <2>5. QED
    BY <2>2, <2>3, <2>4
<1>2. ASSUME NEW c \in Call,
             \/ ReadAccounts(c) \/ Validate(c) \/ ReadFails(c)
             \/ LockNext(c) \/ ReadSequences(c) \/ AppendLine(c)
      PROVE  IdInv'
  <2>1. UNCHANGED <<posts, emitted, outcome>> /\ pc[c] # "done"
    BY <1>2 DEF ReadAccounts, Validate, ReadFails, LockNext, ReadSequences, AppendLine,
                callVars, glVars, logVars
  <2>2. \/ pc' = pc
        \/ \E there \in {"period", "locking", "refused", "append"} : Goto(c, there)
    BY <1>2 DEF ReadAccounts, Validate, ReadFails, LockNext, ReadSequences, AppendLine, callVars
  <2>3. \A d \in Call : \/ pc'[d] = pc[d]
                        \/ pc[d] # "done" /\ pc'[d] \notin {"commit", "resolve", "emit"}
    BY <2>1, <2>2 DEF Goto, TypeOK
  <2>4. QED
    BY <2>1, <2>3, MoveKeeps
<1>3. CASE \E c \in Call : Step(c) \/ ReadFails(c) \/ Abort(c)
  BY <1>1, <1>2, <1>3, InsertPostKeeps, CommitKeeps, EmitKeeps DEF Step
<1>4. CASE \/ \E m \in StatusMoves : EditAccount(m[1], m[2])
           \/ \E p \in Period, s \in PeriodStatus : MovePeriod(p, s)
           \/ UNCHANGED vars
  <2>1. UNCHANGED <<posts, emitted, outcome>> /\ pc' = pc
    BY <1>4 DEF EditAccount, MovePeriod, vars, callVars, glVars, logVars
  <2>2. QED
    BY <2>1, MoveKeeps
<1>5. QED
  BY <1>3, <1>4 DEF Next, Quiescent

THEOREM IdInductive == Spec => [](TypeOK /\ IdInv)
<1>1. Init => IdInv
  BY IdInit
<1>2. TypeOK /\ IdInv /\ [Next]_vars => IdInv'
  BY IdStep
<1>3. QED
  BY <1>1, <1>2, TypeCorrect, PTL DEF Spec

\* ADR-002: concurrent double posting of one identity is impossible, for any
\* number of producers and retries.
THEOREM OneEntry == Spec => []OneEntryPerIdentity
<1>1. IdInv => OneEntryPerIdentity
  BY DEF IdInv
<1>2. QED
  BY <1>1, IdInductive, PTL

\* Whoever loses on a unique index finds the post it lost to.
THEOREM LoserHasWinner == Spec => []LoserFindsWinner
<1>1. IdInv => LoserFindsWinner
  BY DEF IdInv
<1>2. QED
  BY <1>1, IdInductive, PTL

\* R6: all calls answered for one key are told of the same recorded post.
THEOREM RetriesAgree == Spec => []AnswersAgree
<1>1. TypeOK /\ IdInv => AnswersAgree
  <2> SUFFICES ASSUME TypeOK, IdInv, NEW c \in Call, NEW d \in Call
               PROVE  /\ outcome[c].how \in {"posted", "reused"} => outcome[c].post \in posts
                      /\ /\ outcome[c].post # Nil /\ outcome[d].post # Nil
                         /\ Req[c].key # Nil /\ Req[c].key = Req[d].key
                         => outcome[c].post = outcome[d].post
    BY DEF AnswersAgree
  <2>1. outcome[c].how \in {"posted", "reused"} => outcome[c].post \in posts
    BY DEF IdInv
  <2>2. ASSUME outcome[c].post # Nil, outcome[d].post # Nil,
               Req[c].key # Nil, Req[c].key = Req[d].key
        PROVE  outcome[c].post = outcome[d].post
    <3>1. /\ outcome[c].post \in posts /\ outcome[d].post \in posts
          /\ Req[outcome[c].post].key = Req[c].key
          /\ Req[outcome[d].post].key = Req[c].key
      BY <2>2 DEF IdInv
    <3>2. Clash(outcome[c].post, outcome[d].post)
      BY <2>2, <3>1 DEF Clash
    <3>3. QED
      BY <3>1, <3>2 DEF IdInv, OneEntryPerIdentity
  <2>3. QED
    BY <2>1, <2>2
<1>2. QED
  BY <1>1, IdInductive, PTL

\* ADR-002: at most one event per post, and none for a post that is not there
\* or was only found again.
THEOREM OneEventAtMost == Spec => []AtMostOneEvent
<1>1. IdInv => AtMostOneEvent
  BY DEF IdInv, AtMostOneEvent
<1>2. QED
  BY <1>1, IdInductive, PTL

-----------------------------------------------------------------------------
(* Waiting.                                                                *)

\* A call that is locking is past every account it holds, and what it is past
\* comes before what it still awaits.
OrderInv(c) ==
    /\ ~InTx(c) => visited[c] = {}
    /\ pc[c] = "locking" =>
          /\ \A a \in Account : holder[a] = c => a \in visited[c]
          /\ \A v \in visited[c], a \in Awaited(c) : v < a

WaitInv == \A c \in Call : OrderInv(c)

LEMMA WaitInit == Init => WaitInv
BY DEF Init, WaitInv, OrderInv, InTx

\* A step that takes and frees no row.
LEMMA QuietWait ==
    ASSUME IInv, WaitInv, holder' = holder, visited' = visited,
           \A d \in Call : \/ pc'[d] = pc[d] /\ (pc[d] = "locking" => lines'[d] = lines[d])
                           \/ InTx(d) /\ pc'[d] \in {"append", "commit"}
                           \/ ~InTx(d) /\ pc'[d] \notin {"append", "commit"}
    PROVE  WaitInv'
<1> SUFFICES ASSUME NEW d \in Call PROVE OrderInv(d)'
  BY DEF WaitInv
<1>1. OrderInv(d) /\ TxInv(d)
  BY DEF WaitInv, IInv
<1>2. CASE pc'[d] = pc[d] /\ (pc[d] = "locking" => lines'[d] = lines[d])
  BY <1>1, <1>2 DEF OrderInv, InTx, Awaited, LineAccounts
<1>3. CASE InTx(d) /\ pc'[d] \in {"append", "commit"}
  BY <1>3 DEF OrderInv, InTx
<1>4. CASE ~InTx(d) /\ pc'[d] \notin {"append", "commit"}
  BY <1>1, <1>4 DEF OrderInv, InTx, TxInv
<1>5. QED
  BY <1>2, <1>3, <1>4

\* The end of a transaction lets go of everything its call is past.
LEMMA EndWait ==
    ASSUME IInv, WaitInv, NEW c \in Call, EndTx(c), UNCHANGED lines,
           NEW there, there \notin {"locking", "append", "commit"}, Goto(c, there)
    PROVE  WaitInv'
<1> SUFFICES ASSUME NEW d \in Call PROVE OrderInv(d)'
  BY DEF WaitInv
<1>1. TypeOK /\ OrderInv(d)
  BY DEF WaitInv, IInv
<1>2. CASE d = c
  <2>1. pc'[c] = there /\ visited'[c] = {}
    BY <1>1 DEF Goto, EndTx, TypeOK
  <2>2. QED
    BY <1>2, <2>1 DEF OrderInv, InTx
<1>3. CASE d # c
  <2>1. pc'[d] = pc[d] /\ visited'[d] = visited[d] /\ lines' = lines
    BY <1>1, <1>3 DEF Goto, EndTx, TypeOK
  <2>2. \A a \in Account : holder'[a] = d => holder[a] = d
    BY <1>3, NilAssumption DEF EndTx
  <2>3. QED
    BY <1>1, <2>1, <2>2 DEF OrderInv, InTx, Awaited, LineAccounts
<1>4. QED
  BY <1>2, <1>3

\* The account a call comes to next is the least it awaits.
LEMMA LockNextWait ==
    ASSUME IInv, WaitInv, NEW c \in Call, LockNext(c)
    PROVE  WaitInv'
<1> SUFFICES ASSUME NEW d \in Call PROVE OrderInv(d)'
  BY DEF WaitInv
<1>1. TypeOK /\ OrderInv(d) /\ pc[c] = "locking" /\ pc' = pc /\ lines' = lines
  BY DEF WaitInv, IInv, LockNext, callVars
<1>2. PICK a \in Account :
        /\ NextToLock(c, a)
        /\ visited' = [visited EXCEPT ![c] = @ \cup {a}]
        /\ holder' = holder \/ holder' = [holder EXCEPT ![a] = c]
  BY DEF LockNext
<1>3. visited[c] \subseteq Account /\ visited[d] \subseteq Account
  BY <1>1 DEF TypeOK
<1>4. LineAccounts(c)' = LineAccounts(c) /\ LineAccounts(d)' = LineAccounts(d)
  BY <1>1 DEF LineAccounts
<1>5. CASE d = c
  <2>1. visited'[c] = visited[c] \cup {a}
    BY <1>1, <1>2 DEF TypeOK
  <2>2. Awaited(c)' = Awaited(c) \ {a}
    BY <1>4, <2>1 DEF Awaited
  <2>3. LineAccounts(c) \subseteq Account
    <3>1. lines[c] \in Seq(Line)
      BY <1>1 DEF TypeOK
    <3>2. \A i \in DOMAIN lines[c] : lines[c][i] \in Line
      BY <3>1
    <3>3. QED
      BY <3>2 DEF LineAccounts, Line
  <2>4. \A v \in visited'[c], b \in Awaited(c)' : v < b
    <3>1. \A v \in visited[c], b \in Awaited(c) : v < b
      BY <1>1, <1>5 DEF OrderInv
    <3>2. \A b \in Awaited(c) : a <= b /\ b \in Nat
      BY <1>2, <2>3, AccountAssumption DEF NextToLock, Awaited
    <3>3. a \in Nat
      BY AccountAssumption
    <3>4. \A b \in Awaited(c) \ {a} : a < b
      BY <3>2, <3>3
    <3>5. QED
      BY <2>1, <2>2, <3>1, <3>4
  <2>5. \A b \in Account : holder'[b] = c => b \in visited'[c]
    BY <1>1, <1>2, <1>5, <2>1 DEF OrderInv, TypeOK
  <2>6. QED
    BY <1>1, <1>5, <2>4, <2>5 DEF OrderInv, InTx
<1>6. CASE d # c
  <2>1. visited'[d] = visited[d]
    BY <1>1, <1>2, <1>6 DEF TypeOK
  <2>2. \A b \in Account : holder'[b] = d => holder[b] = d
    BY <1>1, <1>2, <1>6 DEF TypeOK
  <2>3. QED
    BY <1>1, <1>4, <2>1, <2>2 DEF OrderInv, InTx, Awaited
<1>7. QED
  BY <1>5, <1>6

\* Reads and answers start no transaction but the one that validation allows.
LEMMA QuietActionsWait ==
    ASSUME IInv, WaitInv, NEW c \in Call,
           \/ Find(c) \/ ReadSource(c) \/ ReadAccounts(c) \/ Validate(c)
           \/ ReadFails(c) \/ RecordFailed(c) \/ Resolve(c) \/ Emit(c)
    PROVE  WaitInv'
<1>1. TypeOK /\ holder' = holder /\ visited' = visited
  BY DEF IInv, Find, ReadSource, ReadAccounts, Validate, ReadFails, RecordFailed, Resolve,
         Emit, txVars
<1>2. ~InTx(c)
  BY DEF Find, ReadSource, ReadAccounts, Validate, ReadFails, RecordFailed, Resolve, Emit, InTx
<1>3. \E there \in PC \ {"append", "commit"} : Goto(c, there)
  BY DEF Find, ReadSource, ReadAccounts, Validate, ReadFails, RecordFailed, Resolve, Emit,
         Reuse, Return, PC
<1>4. \A d \in Call \ {c} : lines'[d] = lines[d]
  BY <1>1 DEF TypeOK, Find, ReadSource, ReadAccounts, Validate, ReadFails, RecordFailed,
              Resolve, Emit
<1>5. \A d \in Call : \/ pc'[d] = pc[d] /\ (pc[d] = "locking" => lines'[d] = lines[d])
                      \/ ~InTx(d) /\ pc'[d] \notin {"append", "commit"}
  BY <1>1, <1>2, <1>3, <1>4 DEF Goto, TypeOK
<1>6. QED
  BY <1>1, <1>5, QuietWait

LEMMA WaitStep == IInv /\ WaitInv /\ [Next]_vars => WaitInv'
<1> SUFFICES ASSUME IInv, WaitInv, [Next]_vars PROVE WaitInv'
  OBVIOUS
<1>0. TypeOK
  BY DEF IInv
<1>1. ASSUME NEW c \in Call, PanicOnMissing(c) \/ Abort(c) PROVE WaitInv'
  <2>1. EndTx(c) /\ UNCHANGED lines /\ Goto(c, "done")
    BY <1>1 DEF PanicOnMissing, Abort, Return
  <2>2. QED
    BY <2>1, EndWait
<1>2. ASSUME NEW c \in Call, Commit(c) PROVE WaitInv'
  <2>1. EndTx(c) /\ UNCHANGED lines /\ Goto(c, "emit")
    BY <1>2 DEF Commit
  <2>2. QED
    BY <2>1, EndWait
<1>3. ASSUME NEW c \in Call, ReadSequences(c) \/ AppendLine(c) PROVE WaitInv'
  <2>1. holder' = holder /\ visited' = visited /\ lines' = lines
    BY <1>3 DEF ReadSequences, AppendLine, callVars
  <2>2. InTx(c) /\ (pc' = pc \/ Goto(c, "append"))
    BY <1>3 DEF ReadSequences, AppendLine, InTx, callVars
  <2>3. \A d \in Call : pc'[d] = pc[d] \/ (InTx(d) /\ pc'[d] = "append")
    BY <1>0, <2>2 DEF Goto, TypeOK
  <2>4. QED
    BY <2>1, <2>3, QuietWait
<1>4. ASSUME NEW c \in Call, InsertPost(c) PROVE WaitInv'
  <2>1. CASE Goto(c, "resolve") /\ EndTx(c)
    <3>1. UNCHANGED lines
      BY <1>4 DEF InsertPost
    <3>2. QED
      BY <2>1, <3>1, EndWait
  <2>2. CASE Goto(c, "commit") /\ UNCHANGED txVars
    <3>1. holder' = holder /\ visited' = visited /\ lines' = lines /\ InTx(c)
      BY <1>4, <2>2 DEF InsertPost, txVars, InTx
    <3>2. \A d \in Call : pc'[d] = pc[d] \/ (InTx(d) /\ pc'[d] = "commit")
      BY <1>0, <2>2, <3>1 DEF Goto, TypeOK
    <3>3. QED
      BY <3>1, <3>2, QuietWait
  <2>3. QED
    BY <1>4, <2>1, <2>2 DEF InsertPost
<1>5. CASE \E c \in Call : Step(c) \/ ReadFails(c) \/ Abort(c)
  BY <1>1, <1>2, <1>3, <1>4, <1>5, LockNextWait, QuietActionsWait DEF Step
<1>6. CASE \/ \E m \in StatusMoves : EditAccount(m[1], m[2])
           \/ \E p \in Period, s \in PeriodStatus : MovePeriod(p, s)
           \/ UNCHANGED vars
  <2>1. UNCHANGED <<holder, visited, lines, pc>>
    BY <1>6 DEF EditAccount, MovePeriod, vars, callVars, txVars
  <2>2. QED
    BY <2>1, QuietWait
<1>7. QED
  BY <1>5, <1>6 DEF Next, Quiescent

\* In a set of calls that are all locking, one that has come furthest waits
\* for nobody in it: whoever holds what it awaits has come further.
LEMMA FurthestWaitsForNobody ==
    ASSUME IInv, WaitInv, NEW S \in SUBSET Call, S # {},
           \A c \in S : pc[c] = "locking",
           \A c \in S : \E d \in S : WaitsFor(c, d)
    PROVE  FALSE
<1> DEFINE Above(a) == {b \in Account : b > a}
           left == {n \in Nat : \E c \in S, a \in Account :
                        NextToLock(c, a) /\ n = Cardinality(Above(a))}
<1>0. TypeOK
  BY DEF IInv
<1>1. \A c \in S : \E d \in S, a \in Account : NextToLock(c, a) /\ holder[a] = d
  BY DEF WaitsFor
<1>2. ASSUME NEW a \in Account
      PROVE  IsFiniteSet(Above(a)) /\ Cardinality(Above(a)) \in Nat
  BY AccountAssumption, FS_Subset, FS_CardinalityType
<1>3. left # {}
  BY <1>1, <1>2
<1>4. PICK n \in left : \A m \in left : ~(m < n)
  <2>1. left \subseteq Nat
    OBVIOUS
  <2> HIDE DEF left
  <2>2. PICK n \in left : \A m \in left : ~ (<<m, n>> \in OpToRel(<, Nat))
    BY <1>3, <2>1, NatLessThanWellFounded, WFMin
  <2>3. QED
    BY <2>1, <2>2 DEF OpToRel
<1>5. PICK c \in S, a \in Account : NextToLock(c, a) /\ n = Cardinality(Above(a))
  OBVIOUS
<1>6. PICK d \in S : holder[a] = d
  <2>1. PICK d \in S, b \in Account : NextToLock(c, b) /\ holder[b] = d
    BY <1>1
  <2>2. a = b
    BY <1>5, <2>1, AccountAssumption DEF NextToLock
  <2>3. QED
    BY <2>1, <2>2
<1>7. PICK b \in Account : NextToLock(d, b)
  BY <1>1
<1>8. a < b
  BY <1>6, <1>7 DEF WaitInv, OrderInv, NextToLock
<1>9. Cardinality(Above(b)) < Cardinality(Above(a))
  <2> HIDE DEF left
  <2>0. Account \subseteq Nat /\ a \in Nat /\ b \in Nat
    BY AccountAssumption
  <2>1. \A x \in Account : x > b => x > a
    BY <1>8, <2>0
  <2>2. Above(b) \subseteq Above(a)
    BY <2>1
  <2>3. b \in Above(a) /\ b \notin Above(b)
    BY <1>8, <2>0
  <2>4. Cardinality(Above(b)) \in Nat /\ Cardinality(Above(a)) \in Nat
    BY <1>2
  <2> HIDE DEF Above
  <2>5. Cardinality(Above(b)) <= Cardinality(Above(a))
    BY <1>2, <2>2, FS_Subset
  <2>6. Cardinality(Above(b)) # Cardinality(Above(a))
    BY <1>2, <2>2, <2>3, FS_Subset
  <2>7. QED
    BY <2>4, <2>5, <2>6
<1>10. Cardinality(Above(b)) \in left
  BY <1>2, <1>7
<1>11. QED
  BY <1>4, <1>5, <1>9, <1>10

\* Row locks taken in id order, and index entries met only after them, leave
\* no set of calls that wait only for each other, however many calls and
\* accounts there are and whatever their lines name.
THEOREM NobodyDeadlocks == Spec => []NoWaitCycle
<1>1. IInv /\ WaitInv => NoWaitCycle
  <2> SUFFICES ASSUME IInv, WaitInv, NEW S \in SUBSET Call, S # {},
                      \A c \in S : \E d \in S : WaitsFor(c, d)
               PROVE  FALSE
    BY DEF NoWaitCycle
  <2>1. \A c \in S : pc[c] \in {"locking", "append"}
    BY DEF WaitsFor
  <2>2. \A c \in S : pc[c] = "locking"
    BY <2>1 DEF WaitsFor
  <2>3. QED
    BY <2>2, FurthestWaitsForNobody
<1>2. QED
  BY <1>1, WaitInit, WaitStep, Inductive, PTL DEF Spec

-----------------------------------------------------------------------------
(* Validation.                                                             *)

\* A call that is past its validation keeps the lines and statuses that were
\* validated; what is posted got there by that way, and what was refused did
\* not.
ValidCall(c) ==
    /\ InTx(c) \/ c \in posts => ValidLines(lines[c], seen[c])
    /\ c \in posts => pc[c] \in {"emit", "done"}
    /\ outcome[c].how \in {"refused", "conflict"} => pc[c] = "done" /\ c \notin posts

ValidInv ==
    /\ \A c \in Call : ValidCall(c)
    /\ \A r \in ledger : r.post \in posts

LEMMA ValidInit == Init => ValidInv
BY DEF Init, ValidInv, ValidCall, InTx, Pending

\* Calls other than the one that moves are left as they were.
LEMMA OthersValid ==
    ASSUME ValidInv, NEW c \in Call, NEW d \in Call \ {c},
           pc'[d] = pc[d], lines'[d] = lines[d], seen'[d] = seen[d],
           outcome'[d] = outcome[d], d \in posts' <=> d \in posts
    PROVE  ValidCall(d)'
BY DEF ValidInv, ValidCall, InTx

\* A step of one call up to its transaction.
LEMMA ReadsValid ==
    ASSUME IInv, ValidInv, NEW c \in Call,
           Find(c) \/ ReadSource(c) \/ ReadAccounts(c) \/ Validate(c) \/ ReadFails(c)
    PROVE  ValidInv'
<1>1. TypeOK /\ ValidCall(c) /\ posts' = posts /\ ledger' = ledger
  BY DEF IInv, ValidInv, Find, ReadSource, ReadAccounts, Validate, ReadFails, glVars
<1>2. \A d \in Call \ {c} : /\ pc'[d] = pc[d] /\ lines'[d] = lines[d] /\ seen'[d] = seen[d]
                            /\ outcome'[d] = outcome[d]
  BY <1>1 DEF TypeOK, Find, ReadSource, ReadAccounts, Validate, ReadFails, Goto, Return, Reuse
<1>3. c \notin posts
  BY <1>1 DEF ValidCall, Find, ReadSource, ReadAccounts, Validate, ReadFails
<1>4. ValidCall(c)'
  <2>1. CASE Find(c)
    BY <1>1, <1>3, <2>1 DEF Find, Goto, Return, Reuse, ValidCall, InTx, TypeOK
  <2>2. CASE ReadSource(c)
    BY <1>1, <1>3, <2>2 DEF ReadSource, Goto, Return, ValidCall, InTx, TypeOK
  <2>3. CASE ReadAccounts(c) \/ ReadFails(c)
    BY <1>1, <1>3, <2>3 DEF ReadAccounts, ReadFails, Goto, ValidCall, InTx, TypeOK
  <2>4. CASE Validate(c)
    <3>1. lines' = lines /\ seen' = seen /\ outcome' = outcome /\ pc[c] = "period"
      BY <2>4 DEF Validate
    <3>2. \/ pc'[c] = "refused"
          \/ pc'[c] = "locking" /\ ValidLines(lines[c], seen[c])
      BY <1>1, <2>4 DEF Validate, Goto, TypeOK
    <3>3. QED
      BY <1>1, <1>3, <3>1, <3>2 DEF ValidCall, InTx
  <2>5. QED
    BY <2>1, <2>2, <2>3, <2>4
<1>5. QED
  BY <1>1, <1>2, <1>4, OthersValid DEF ValidInv

\* A step of its transaction, and what comes after it.
LEMMA TxValid ==
    ASSUME IInv, ValidInv, NEW c \in Call,
           \/ LockNext(c) \/ ReadSequences(c) \/ AppendLine(c) \/ PanicOnMissing(c)
           \/ InsertPost(c) \/ RecordFailed(c) \/ Resolve(c) \/ Emit(c) \/ Abort(c)
    PROVE  ValidInv'
<1>1. TypeOK /\ ValidCall(c) /\ posts' = posts /\ ledger' = ledger
  BY DEF IInv, ValidInv, LockNext, ReadSequences, AppendLine, PanicOnMissing, InsertPost,
         RecordFailed, Resolve, Emit, Abort, glVars
<1>2. lines' = lines /\ seen' = seen
  BY DEF LockNext, ReadSequences, AppendLine, PanicOnMissing, InsertPost, RecordFailed,
         Resolve, Emit, Abort, callVars
<1>3. \A d \in Call \ {c} : pc'[d] = pc[d] /\ outcome'[d] = outcome[d]
  BY <1>1 DEF TypeOK, LockNext, ReadSequences, AppendLine, PanicOnMissing, InsertPost,
              RecordFailed, Resolve, Emit, Abort, callVars, Goto, Return, Reuse
<1>4. ValidCall(c)'
  <2>1. CASE LockNext(c) \/ ReadSequences(c) \/ AppendLine(c) \/ InsertPost(c)
    <3>1. InTx(c) /\ outcome' = outcome /\ pc[c] # "commit" /\ c \notin posts
      BY <1>1, <2>1 DEF LockNext, ReadSequences, AppendLine, InsertPost, InTx, callVars, ValidCall
    <3>2. pc'[c] \in {"locking", "append", "commit", "resolve"}
      BY <1>1, <2>1 DEF LockNext, ReadSequences, AppendLine, InsertPost, callVars, Goto, TypeOK
    <3>3. QED
      BY <1>1, <1>2, <3>1, <3>2 DEF ValidCall, InTx
  <2>2. CASE RecordFailed(c)
    BY <1>1, <1>2, <2>2 DEF RecordFailed, Return, Goto, ValidCall, InTx, TypeOK
  <2>3. CASE PanicOnMissing(c) \/ Resolve(c) \/ Emit(c) \/ Abort(c)
    <3>1. pc'[c] = "done" /\ outcome'[c].how \in {"error", "posted", "reused"}
      BY <1>1, <2>3 DEF PanicOnMissing, Resolve, Emit, Abort, Return, Goto, Reuse, TypeOK
    <3>2. QED
      BY <1>1, <1>2, <3>1 DEF ValidCall, InTx
  <2>4. QED
    BY <2>1, <2>2, <2>3
<1>5. QED
  BY <1>1, <1>2, <1>3, <1>4, OthersValid DEF ValidInv

\* The commit adds the call, and rows of its own only.
LEMMA CommitValid ==
    ASSUME IInv, ValidInv, NEW c \in Call, Commit(c)
    PROVE  ValidInv'
<1>1. TypeOK /\ ValidCall(c) /\ TxInv(c)
  BY DEF IInv, ValidInv
<1>2. /\ pc[c] = "commit" /\ posts' = posts \cup {c} /\ ledger' = ledger \cup rows[c]
      /\ lines' = lines /\ seen' = seen /\ outcome' = outcome
      /\ pc' = [pc EXCEPT ![c] = "emit"]
  BY DEF Commit, Goto
<1>3. ValidCall(c)'
  BY <1>1, <1>2 DEF ValidCall, InTx, TypeOK
<1>4. \A d \in Call \ {c} : ValidCall(d)'
  BY <1>1, <1>2, OthersValid DEF TypeOK
<1>5. \A r \in ledger' : r.post \in posts'
  BY <1>1, <1>2 DEF ValidInv, TxInv
<1>6. QED
  BY <1>3, <1>4, <1>5 DEF ValidInv

LEMMA ValidStep == IInv /\ ValidInv /\ [Next]_vars => ValidInv'
<1> SUFFICES ASSUME IInv, ValidInv, [Next]_vars PROVE ValidInv'
  OBVIOUS
<1>1. CASE \E c \in Call : Step(c) \/ ReadFails(c) \/ Abort(c)
  BY <1>1, ReadsValid, TxValid, CommitValid DEF Step
<1>2. CASE \/ \E m \in StatusMoves : EditAccount(m[1], m[2])
           \/ \E p \in Period, s \in PeriodStatus : MovePeriod(p, s)
           \/ UNCHANGED vars
  <2>1. UNCHANGED <<pc, lines, seen, outcome, posts, ledger>>
    BY <1>2 DEF EditAccount, MovePeriod, vars, callVars, glVars
  <2>2. QED
    BY <2>1 DEF ValidInv, ValidCall, InTx
<1>3. QED
  BY <1>1, <1>2 DEF Next, Quiescent

\* What is posted satisfied every rule on the statuses its own call read, and a
\* refused call left no row, post or event, whatever the budget port answered
\* and whatever was edited meanwhile.
THEOREM ValidatedOnly == Spec => []OnlyValidated
<1>1. TypeOK /\ IdInv /\ ValidInv => OnlyValidated
  <2> SUFFICES ASSUME TypeOK, IdInv, ValidInv PROVE OnlyValidated
    OBVIOUS
  <2>1. \A p \in posts : p \in Call /\ ValidLines(lines[p], seen[p])
    BY DEF ValidInv, ValidCall, TypeOK
  <2>2. ASSUME NEW c \in Call, outcome[c].how \in {"refused", "conflict"}
        PROVE  c \notin posts /\ emitted[c] = 0 /\ \A r \in ledger : r.post # c
    <3>1. c \notin posts
      BY <2>2 DEF ValidInv, ValidCall
    <3>2. emitted[c] = 0
      BY <3>1 DEF IdInv, TypeOK
    <3>3. QED
      BY <3>1, <3>2 DEF ValidInv
  <2>3. QED
    BY <2>1, <2>2 DEF OnlyValidated
<1>2. QED
  BY <1>1, ValidInit, ValidStep, Inductive, IdInductive, PTL DEF Spec
==============================================================================
