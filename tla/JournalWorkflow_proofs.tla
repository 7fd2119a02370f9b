------------------------ MODULE JournalWorkflow_proofs ------------------------
(***************************************************************************)
(* The manual journal's status and the ledger agree in every state, and    *)
(* what was rejected stays out of it, for any number of callers, verbs and *)
(* deaths.                                                                 *)
(***************************************************************************)
EXTENDS JournalWorkflow, TLAPS

Reversing == {"source", "find", "reverse", "mark"}

\* What each call may rely on where it is: a void past its first read works
\* on a journal that is in the ledger for good, a call about to mark it voided
\* has a reversal to show, and only posts of an approved journal are tried.
IInv ==
    /\ TypeOK
    /\ LedgerFollowsStatus
    /\ PostedOnce
    /\ \A c \in Call :
        /\ pc[c] \in Reversing => status \in {"posted", "voided"} /\ Verb[c] = "void"
        /\ pc[c] = "mark" => reversals # {}
        /\ pc[c] \in {"load", "commit", "approve"} => Verb[c] \in {"approve", "post"}
    /\ AnswersStand

\* The initial state of a drafted journal satisfies the invariant.
LEMMA InitInv == Init => IInv
BY VerbAssumption DEF Init, IInv, TypeOK, LedgerFollowsStatus, PostedOnce, AnswersStand,
   Status, Answer, Reversing

\* Steps before the journal is posted: submit, reject, approve.
LEMMA DraftSteps ==
    ASSUME IInv, NEW c \in Call,
           Submit(c) \/ Reject(c) \/ ReadAuthors(c) \/ Approve(c)
    PROVE  IInv'
<1> USE DEF IInv, TypeOK, LedgerFollowsStatus, PostedOnce, AnswersStand, Status,
            Answer, Reversing, stamps, books
<1>1. CASE Submit(c)
  BY <1>1 DEF Submit, At, Return
<1>2. CASE Reject(c)
  BY <1>2 DEF Reject, At, Return
<1>3. CASE ReadAuthors(c)
  BY <1>3 DEF ReadAuthors, At, Return, Goto
<1>4. CASE Approve(c)
  BY <1>4 DEF Approve, Return, Goto
<1> QED BY <1>1, <1>2, <1>3, <1>4

\* Posting the journal: the trigger and the key admit one posting, and only
\* of an approved journal.
LEMMA PostSteps ==
    ASSUME IInv, NEW c \in Call,
           LoadJournal(c) \/ RefuseJournal(c) \/ CommitJournal(c)
    PROVE  IInv'
<1> USE DEF IInv, TypeOK, LedgerFollowsStatus, PostedOnce, AnswersStand, Status,
            Answer, Reversing, stamps, books
<1>1. CASE LoadJournal(c)
  BY <1>1 DEF LoadJournal, Return, Goto
<1>2. CASE RefuseJournal(c)
  BY <1>2 DEF RefuseJournal, Return
<1>3. CASE CommitJournal(c)
  BY <1>3 DEF CommitJournal, Return, MayBecome, Declared
<1> QED BY <1>1, <1>2, <1>3

\* Voiding it: the reversal is posted before the status says so.
LEMMA VoidSteps ==
    ASSUME IInv, NEW c \in Call,
           \/ ReadStatus(c) \/ OriginalPost(c) \/ FindReversal(c)
           \/ RefuseReversal(c) \/ CommitReversal(c) \/ MarkVoided(c)
    PROVE  IInv'
<1> USE DEF IInv, TypeOK, LedgerFollowsStatus, PostedOnce, AnswersStand, Status,
            Answer, Reversing, stamps, books
<1>1. CASE ReadStatus(c)
  BY <1>1 DEF ReadStatus, At, Return, Goto
<1>2. CASE OriginalPost(c)
  BY <1>2 DEF OriginalPost, Return, Goto
<1>3. CASE FindReversal(c)
  BY <1>3 DEF FindReversal, Goto
<1>4. CASE RefuseReversal(c)
  BY <1>4 DEF RefuseReversal, Return
<1>5. CASE CommitReversal(c)
  BY <1>5 DEF CommitReversal, Goto
<1>6. CASE MarkVoided(c)
  BY <1>6 DEF MarkVoided, Return, MayBecome, Declared
<1> QED BY <1>1, <1>2, <1>3, <1>4, <1>5, <1>6

\* The conjunction above is an invariant of every behaviour.
THEOREM Inductive == Spec => []IInv
<1>1. ASSUME IInv, [Next]_vars PROVE IInv'
  <2>1. ASSUME NEW c \in Call, Step(c) PROVE IInv'
    BY <1>1, <2>1, DraftSteps, PostSteps, VoidSteps DEF Step
  <2>2. ASSUME NEW c \in Call, Die(c) PROVE IInv'
    BY <1>1, <2>2 DEF Die, Return, IInv, TypeOK, LedgerFollowsStatus, PostedOnce,
       AnswersStand, Status, Answer, Reversing, stamps, books
  <2>3. CASE UNCHANGED vars
    BY <1>1, <2>3 DEF vars, stamps, books, IInv, TypeOK, LedgerFollowsStatus,
       PostedOnce, AnswersStand, Reversing
  <2> QED BY <1>1, <2>1, <2>2, <2>3 DEF Next
<1> QED BY <1>1, InitInv, PTL DEF Spec

\* The variables of the workflow keep their types: whoever races, the status
\* is one the enum declares and every stamp is of somebody who called.
THEOREM TypeCorrect == Spec => []TypeOK
<1>1. IInv => TypeOK
  BY DEF IInv
<1> QED BY <1>1, Inductive, PTL

\* A manual journal has ledger rows exactly while it is posted or voided, and
\* it is voided only with a reversal, whoever dies between the two.
THEOREM LedgerAgrees == Spec => []LedgerFollowsStatus
<1>1. IInv => LedgerFollowsStatus
  BY DEF IInv
<1> QED BY <1>1, Inductive, PTL

\* However approvals, direct posts and voids race and are repeated, the
\* journal is posted once and reversed once.
THEOREM Once == Spec => []PostedOnce
<1>1. IInv => PostedOnce
  BY DEF IInv
<1> QED BY <1>1, Inductive, PTL

\* Nobody is told something about the journal that a later step undoes.
THEOREM TruthTold == Spec => []AnswersStand
<1>1. IInv => AnswersStand
  BY DEF IInv
<1> QED BY <1>1, Inductive, PTL
=============================================================================
