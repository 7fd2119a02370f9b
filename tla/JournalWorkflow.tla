--------------------------- MODULE JournalWorkflow ---------------------------
(***************************************************************************)
(* JournalWorkflowService over one manual journal: submit, approve (which  *)
(* posts), reject and void, called concurrently by several people, with    *)
(* PostingService::post_journal as the second way to post an approved one. *)
(* A step is one read, one conditional UPDATE or one posting transaction;  *)
(* between two of them the process may die and others may run.             *)
(*                                                                         *)
(* A posting is what Posting shows it to be, one atomic entry under a      *)
(* unique key: "journal:<id>" for the journal, "void:<id>" for its void.   *)
(***************************************************************************)
EXTENDS FiniteSets

CONSTANTS
    Call,        \* requests on the journal
    Verb,        \* what each of them asks for
    Person,      \* who makes it; Nil when the principal is not a uuid
    Creator,     \* metadata.created_by of the journal, or Nil
    AllowSelf,   \* accounting / journal_self_approval is "allow"
    Mortal,      \* calls whose process or connection may die
    Nil

ASSUME VerbAssumption ==
    /\ Verb \in [Call -> {"submit", "approve", "reject", "void", "post"}]
    /\ AllowSelf \in BOOLEAN
    /\ Mortal \subseteq Call

VARIABLES
    status,        \* journals.status
    submittedBy, approvedBy, voidedBy,
    posts,         \* calls whose transaction posted the journal
    reversals,     \* calls whose transaction posted its reversal
    pc,            \* where each call is
    told           \* what it answered

stamps == <<submittedBy, approvedBy, voidedBy>>
books == <<posts, reversals>>
vars == <<status, stamps, books, pc, told>>

Status == {"draft", "pending_approval", "approved", "rejected", "posted", "voided"}

\* journals_status_transition_check, which any UPDATE of the status meets.
Declared == {<<"draft", "pending_approval">>, <<"draft", "rejected">>,
             <<"pending_approval", "approved">>, <<"pending_approval", "rejected">>,
             <<"approved", "posted">>, <<"posted", "voided">>}
MayBecome(s) == status = s \/ <<status, s>> \in Declared

Answer == {"none", "ok", "self_approval", "invalid_state", "conflict",
           "not_posted", "posting_error", "internal", "died"}

TypeOK ==
    /\ status \in Status
    /\ {submittedBy, approvedBy, voidedBy} \subseteq {Person[c] : c \in Call} \cup {Nil}
    /\ posts \subseteq Call /\ reversals \subseteq Call
    /\ pc \in [Call -> {"start", "approve", "load", "commit", "source", "find",
                        "reverse", "mark", "done"}]
    /\ told \in [Call -> Answer]

Init ==
    /\ status = "draft"
    /\ submittedBy = Nil /\ approvedBy = Nil /\ voidedBy = Nil
    /\ posts = {} /\ reversals = {}
    /\ pc = [c \in Call |-> IF Verb[c] = "post" THEN "load" ELSE "start"]
    /\ told = [c \in Call |-> "none"]

-----------------------------------------------------------------------------
Goto(c, there) == pc' = [pc EXCEPT ![c] = there] /\ UNCHANGED told

Return(c, what) ==
    /\ pc' = [pc EXCEPT ![c] = "done"]
    /\ told' = [told EXCEPT ![c] = what]

At(c, verb, where) == Verb[c] = verb /\ pc[c] = where

Submit(c) ==
    /\ At(c, "submit", "start")
    /\ \/ /\ status = "draft"
          /\ status' = "pending_approval" /\ submittedBy' = Person[c]
          /\ Return(c, "ok")
       \/ /\ status # "draft" /\ Return(c, "invalid_state")
          /\ UNCHANGED <<status, submittedBy>>
    /\ UNCHANGED <<approvedBy, voidedBy, books>>

RejectCancels(c) ==              \* bug: a status the enum does not have
    /\ At(c, "reject", "start") /\ status \in {"draft", "pending_approval"}
    /\ status' = "cancelled" /\ Return(c, "ok")
    /\ UNCHANGED <<stamps, books>>

Reject(c) ==
    /\ At(c, "reject", "start")
    /\ \/ /\ status \in {"draft", "pending_approval"}
          /\ status' = "rejected" /\ Return(c, "ok")
       \/ /\ status \notin {"draft", "pending_approval"}
          /\ Return(c, "invalid_state") /\ UNCHANGED status
    /\ UNCHANGED <<stamps, books>>

\* Segregation of duties is judged on the authors as they are now.
ReadAuthors(c) ==
    /\ At(c, "approve", "start")
    /\ IF Person[c] # Nil /\ Person[c] \in {submittedBy, Creator} /\ ~AllowSelf
       THEN Return(c, "self_approval") ELSE Goto(c, "approve")
    /\ UNCHANGED <<status, stamps, books>>

ApproveUnguarded(c) ==           \* bug: neither UPDATE nor trigger look at the status
    /\ pc[c] = "approve"
    /\ status' = "approved" /\ approvedBy' = Person[c]
    /\ Goto(c, "load")
    /\ UNCHANGED <<submittedBy, voidedBy, books>>

Approve(c) ==
    /\ pc[c] = "approve"
    /\ \/ /\ status = "pending_approval"
          /\ status' = "approved" /\ approvedBy' = Person[c]
          /\ Goto(c, "load")
       \/ /\ status # "pending_approval" /\ Return(c, "invalid_state")
          /\ UNCHANGED <<status, approvedBy>>
    /\ UNCHANGED <<submittedBy, voidedBy, books>>

\* post_journal: a journal already posted is answered with its post.
LoadJournal(c) ==
    /\ pc[c] = "load"
    /\ \/ status = "approved" /\ Goto(c, "commit")
       \/ status = "posted" /\ Return(c, "ok")
       \/ status \notin {"approved", "posted"} /\ Return(c, "conflict")
    /\ UNCHANGED <<status, stamps, books>>

\* The lines, the period or the budget refuse it, or the transaction fails;
\* the journal stays approved.
RefuseJournal(c) ==
    /\ pc[c] = "commit"
    /\ Return(c, "posting_error")
    /\ UNCHANGED <<status, stamps, books>>

CommitJournalUnkeyed(c) ==       \* bug: the post has no idempotency key
    /\ pc[c] = "commit" /\ MayBecome("posted")
    /\ status' = "posted" /\ posts' = posts \cup {c}
    /\ Return(c, "ok")
    /\ UNCHANGED <<stamps, reversals>>

\* Ledger rows, status and the post with its key in one transaction, which
\* the trigger or the key may refuse; such a refusal is an internal error.
CommitJournal(c) ==
    /\ pc[c] = "commit"
    /\ \/ /\ MayBecome("posted") /\ posts = {}
          /\ status' = "posted" /\ posts' = {c}
          /\ Return(c, "ok")
       \/ /\ ~MayBecome("posted") \/ posts # {}
          /\ Return(c, "internal")
          /\ UNCHANGED <<status, posts>>
    /\ UNCHANGED <<stamps, reversals>>

ReadStatus(c) ==
    /\ At(c, "void", "start")
    /\ IF status = "posted" THEN Goto(c, "source") ELSE Return(c, "invalid_state")
    /\ UNCHANGED <<status, stamps, books>>

OriginalPost(c) ==
    /\ pc[c] = "source"
    /\ IF posts # {} THEN Goto(c, "find") ELSE Return(c, "not_posted")
    /\ UNCHANGED <<status, stamps, books>>

FindNothing(c) ==                \* bug: the void's post carries a new key
    /\ pc[c] = "find" /\ Goto(c, "reverse")
    /\ UNCHANGED <<status, stamps, books>>

\* post() finds a reversal by its key before it validates anything.
FindReversal(c) ==
    /\ pc[c] = "find"
    /\ Goto(c, IF reversals # {} THEN "mark" ELSE "reverse")
    /\ UNCHANGED <<status, stamps, books>>

RefuseReversalMarks(c) ==        \* bug: the error of the posting is not returned
    /\ pc[c] = "reverse" /\ Goto(c, "mark")
    /\ UNCHANGED <<status, stamps, books>>

\* Today's period is closed, an account is inactive, or the transaction fails.
RefuseReversal(c) ==
    /\ pc[c] = "reverse"
    /\ Return(c, "posting_error")
    /\ UNCHANGED <<status, stamps, books>>

\* A rival with the same key is resolved to the reversal that is there.
CommitReversal(c) ==
    /\ pc[c] = "reverse"
    /\ reversals' = IF reversals = {} THEN {c} ELSE reversals
    /\ Goto(c, "mark")
    /\ UNCHANGED <<status, stamps, posts>>

\* mark_voided has no condition of its own: the trigger is what guards it.
MarkVoided(c) ==
    /\ pc[c] = "mark"
    /\ status' = IF MayBecome("voided") THEN "voided" ELSE status
    /\ voidedBy' = IF MayBecome("voided") THEN Person[c] ELSE voidedBy
    /\ Return(c, IF MayBecome("voided") THEN "ok" ELSE "internal")
    /\ UNCHANGED <<submittedBy, approvedBy, books>>

Die(c) ==
    /\ c \in Mortal /\ pc[c] # "done"
    /\ Return(c, "died")
    /\ UNCHANGED <<status, stamps, books>>

Step(c) ==
    \/ Submit(c) \/ Reject(c)
    \/ ReadAuthors(c) \/ Approve(c)
    \/ LoadJournal(c) \/ RefuseJournal(c) \/ CommitJournal(c)
    \/ ReadStatus(c) \/ OriginalPost(c) \/ FindReversal(c)
    \/ RefuseReversal(c) \/ CommitReversal(c) \/ MarkVoided(c)

Done == \A c \in Call : pc[c] = "done"

Next ==
    \/ \E c \in Call : Step(c) \/ Die(c)
    \/ Done /\ UNCHANGED vars

Spec == Init /\ [][Next]_vars

\* Requests are served: the task of each goes on being polled.
FairSpec == Spec /\ \A c \in Call : WF_vars(Step(c))

-----------------------------------------------------------------------------
(* Properties.                                                             *)

\* "Ledger written on posted; no ledger effect in draft, pending_approval,
\* approved", or rejected, whoever dies where; and a voided journal has been
\* reversed, "never edited".
LedgerFollowsStatus ==
    /\ posts # {} <=> status \in {"posted", "voided"}
    /\ reversals # {} => status \in {"posted", "voided"}
    /\ status = "voided" => reversals # {}

\* However approvals, direct posts and voids race, die and are repeated, the
\* journal enters the ledger once and is reversed once.
PostedOnce ==
    \A c, d \in Call : /\ {c, d} \subseteq posts => c = d
                       /\ {c, d} \subseteq reversals => c = d

\* What people were told stays so: a journal that somebody was told is
\* rejected never reaches the ledger, one that is approved is in it, and a
\* void that was answered is in the journal.
AnswersStand ==
    \A c \in Call : told[c] = "ok" =>
        /\ Verb[c] = "reject" => posts = {} /\ status = "rejected"
        /\ Verb[c] \in {"approve", "post"} => posts # {}
        /\ Verb[c] = "void" => status = "voided"

\* A void that died after its reversal was posted is finished by a later one,
\* whatever would refuse a new reversal by then.
VoidResumes ==
    \A c \in Call \ Mortal :
        (Verb[c] = "void" /\ pc[c] = "start" /\ reversals # {}) ~> status = "voided"

\* A claim the code does not keep (see the README): "whoever submitted or
\* created the journal does not approve it, unless the installation allows it".
SegregationOfDuties ==
    approvedBy # Nil /\ ~AllowSelf => approvedBy \notin {submittedBy, Creator}
=============================================================================
