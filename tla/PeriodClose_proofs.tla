-------------------------- MODULE PeriodClose_proofs --------------------------
(***************************************************************************)
(* Proofs about PeriodClose: the claim excludes every other close and both *)
(* verbs; from that, that a failed close restores what it found, and that  *)
(* a period nobody else posts into is closed only with its P&L at zero.    *)
(***************************************************************************)
EXTENDS PeriodClose, TLAPS

\* The steps of a close, of an admin call and of a posting.
Step(c) == CloseStep(c) \/ PostFails(c) \/ Crash(c)
AdminStep(a) == RequireClosed(a) \/ Move(a) \/ RequireAgain(a)
PostingStep(w) == CheckPeriod(w) \/ CommitPosting(w)

\* The one step that writes the book keeps its type: an entry takes integers
\* off the balances.
LEMMA TypeCommit == ASSUME TypeOK, NEW c \in Closer, CommitEntry(c) PROVE TypeOK'
<1>1. cpc' = [cpc EXCEPT ![c] = "finish"] \/ cpc' = [cpc EXCEPT ![c] = "abort"]
  BY Zenon DEF CommitEntry, Goto
<1>2. cpc' \in [Closer -> {"read", "claim", "lost", "sum", "find", "check",
                           "commit", "finish", "abort", "done"}]
  BY <1>1 DEF TypeOK
<1>3. /\ key[c] \in Nat /\ reopened \in Nat
      /\ sums[c] \in [PL -> Int] /\ pl \in [PL -> Int]
  BY DEF TypeOK
<1>4. pl' \in [PL -> Int]
  BY <1>3 DEF CommitEntry, bookVars
<1>5. \/ entries' = entries
      \/ entries' = entries \cup
             {[key |-> key[c], cycle |-> reopened, amounts |-> sums[c]]}
  BY DEF CommitEntry, bookVars
<1>6. entries' \subseteq [key : Nat, cycle : Nat, amounts : [PL -> Int]]
  BY <1>3, <1>5 DEF TypeOK
<1>7. UNCHANGED <<periodVars, key, prior, sums, told, apc, wpc>>
  BY DEF CommitEntry
<1> QED BY <1>2, <1>4, <1>6, <1>7 DEF TypeOK, periodVars

\* Every step leaves the variables well-typed.
LEMMA TypeStep == ASSUME TypeOK, [Next]_vars PROVE TypeOK'
<1> USE SetAssumption DEF TypeOK, Status, Answer, Zero
<1>1. ASSUME NEW c \in Closer, ReadPeriod(c) PROVE TypeOK'
  BY <1>1 DEF ReadPeriod, Goto, Tell, periodVars, bookVars
<1>2. ASSUME NEW c \in Closer, BeginClose(c) PROVE TypeOK'
  BY <1>2 DEF BeginClose, Goto, bookVars
<1>3. ASSUME NEW c \in Closer, SayWhatWon(c) PROVE TypeOK'
  BY <1>3 DEF SayWhatWon, Goto, Tell, periodVars, bookVars
<1>4. ASSUME NEW c \in Closer, SumBalances(c) PROVE TypeOK'
  BY <1>4 DEF SumBalances, Goto, periodVars, bookVars
<1>5. ASSUME NEW c \in Closer, FindEntry(c) PROVE TypeOK'
  BY <1>5 DEF FindEntry, Goto, periodVars, bookVars
<1>6. ASSUME NEW c \in Closer, CheckEntry(c) PROVE TypeOK'
  BY <1>6 DEF CheckEntry, Goto, periodVars, bookVars
<1>7. ASSUME NEW c \in Closer, CommitEntry(c) PROVE TypeOK'
  BY <1>7, TypeCommit
<1>8. ASSUME NEW c \in Closer, FinishClose(c) PROVE TypeOK'
  BY <1>8 DEF FinishClose, Goto, Tell, bookVars
<1>9. ASSUME NEW c \in Closer, AbortClose(c) PROVE TypeOK'
  BY <1>9 DEF AbortClose, Goto, Tell, bookVars
<1>10. ASSUME NEW c \in Closer, PostFails(c) \/ Crash(c) PROVE TypeOK'
  BY <1>10 DEF PostFails, Crash, Goto, Tell, periodVars, bookVars
<1>11. ASSUME NEW a \in Admin, AdminStep(a) PROVE TypeOK'
  BY <1>11 DEF AdminStep, RequireClosed, Move, RequireAgain, Answered,
               periodVars, bookVars, closeVars
<1>12. ASSUME NEW w \in Writer, PostingStep(w) PROVE TypeOK'
  BY <1>12 DEF PostingStep, CheckPeriod, CommitPosting, periodVars, bookVars, closeVars
<1>13. CASE UNCHANGED vars
  BY <1>13 DEF vars, periodVars, bookVars, closeVars
<1> QED BY <1>1, <1>2, <1>3, <1>4, <1>5, <1>6, <1>7, <1>8, <1>9, <1>10, <1>11,
           <1>12, <1>13 DEF Next, CloseStep, AdminStep, PostingStep

\* The variables of PeriodClose always have their types: what a close reads
\* back from begin_close is a status a failed close may restore.
THEOREM TypeCorrect == Spec => []TypeOK
<1>1. Init => TypeOK
  BY SetAssumption DEF Init, TypeOK, Status, Answer, Zero
<1> QED BY <1>1, TypeStep, PTL DEF Spec

-----------------------------------------------------------------------------
\* A step of one close keeps the claim exclusive: BeginClose takes it only
\* when the status says nobody holds it, and only the end of a close frees it.
LEMMA CloseKeepsClaim ==
    ASSUME TypeOK, ClaimExclusive, NEW c \in Closer, Step(c)
    PROVE  ClaimExclusive'
<1> USE DEF TypeOK, ClaimExclusive, Working
<1>1. CASE ReadPeriod(c) \/ SayWhatWon(c)
  BY <1>1 DEF ReadPeriod, SayWhatWon, Goto, Tell, periodVars
<1>2. CASE BeginClose(c)
  BY <1>2 DEF BeginClose, Goto
<1>3. CASE SumBalances(c) \/ FindEntry(c) \/ CheckEntry(c)
  BY <1>3 DEF SumBalances, FindEntry, CheckEntry, Goto, periodVars
<1>4. CASE CommitEntry(c)
  BY <1>4 DEF CommitEntry, Goto, periodVars
<1>5. CASE FinishClose(c) \/ AbortClose(c)
  BY <1>5 DEF FinishClose, AbortClose, Goto, Tell
<1>6. CASE PostFails(c) \/ Crash(c)
  BY <1>6 DEF PostFails, Crash, Goto, Tell, periodVars
<1> QED BY <1>1, <1>2, <1>3, <1>4, <1>5, <1>6 DEF Step, CloseStep

\* The period is claimed before the closing entry is posted: however many
\* closes, locks, reopens and postings run, at most one close is past its
\* claim, and meanwhile the period is closing.
THEOREM Exclusive == Spec => []ClaimExclusive
<1>1. Init => ClaimExclusive
  BY DEF Init, ClaimExclusive, Working
<1>2. ASSUME TypeOK, ClaimExclusive, [Next]_vars PROVE ClaimExclusive'
  <2>1. ASSUME NEW c \in Closer, Step(c) PROVE ClaimExclusive'
    BY <1>2, <2>1, CloseKeepsClaim
  <2>2. ASSUME NEW a \in Admin, AdminStep(a) PROVE ClaimExclusive'
    BY <1>2, <2>2 DEF AdminStep, RequireClosed, Move, RequireAgain, ClaimExclusive,
                      Working, closeVars, periodVars
  <2>3. ASSUME NEW w \in Writer, PostingStep(w) PROVE ClaimExclusive'
    BY <1>2, <2>3 DEF PostingStep, CheckPeriod, CommitPosting, ClaimExclusive,
                      Working, closeVars, periodVars
  <2>4. CASE UNCHANGED vars
    BY <1>2, <2>4 DEF vars, closeVars, periodVars, ClaimExclusive, Working
  <2> QED BY <1>2, <2>1, <2>2, <2>3, <2>4 DEF Next, Step, AdminStep, PostingStep
<1> QED BY <1>1, <1>2, TypeCorrect, PTL DEF Spec

\* A close whose posting failed gives the period back in the status it found:
\* nothing can have moved the period while the claim was held.
THEOREM Restored == Spec => AdjustingIsRestored
<1> DEFINE Back == \A c \in Closer :
        cpc[c] = "abort" /\ cpc'[c] = "done" /\ told'[c] = "posting_error"
            => status' = prior[c]
<1>1. ASSUME TypeOK, ClaimExclusive, [Next]_vars PROVE [Back]_vars
  <2> SUFFICES ASSUME NEW c \in Closer, cpc[c] = "abort", cpc'[c] = "done",
                      told'[c] = "posting_error"
               PROVE  status' = prior[c]
    OBVIOUS
  <2>1. status = "closing"
    BY <1>1 DEF ClaimExclusive, Working
  <2>2. ASSUME NEW d \in Closer, Step(d) PROVE AbortClose(c) \/ Crash(c)
    <3>1. cpc'[c] # cpc[c]
      OBVIOUS
    <3>2. d = c
      BY <1>1, <2>2, <3>1 DEF Step, CloseStep, ReadPeriod, BeginClose, SayWhatWon,
         SumBalances, FindEntry, CheckEntry, CommitEntry, PostFails, FinishClose,
         AbortClose, Crash, Goto, Tell, TypeOK
    <3> QED BY <2>2, <3>2 DEF Step, CloseStep, ReadPeriod, BeginClose, SayWhatWon,
         SumBalances, FindEntry, CheckEntry, CommitEntry, PostFails, FinishClose
  <2>3. ASSUME NEW a \in Admin, AdminStep(a) PROVE FALSE
    BY <2>3 DEF AdminStep, RequireClosed, Move, RequireAgain, closeVars
  <2>4. ASSUME NEW w \in Writer, PostingStep(w) PROVE FALSE
    BY <2>4 DEF PostingStep, CheckPeriod, CommitPosting, closeVars
  <2>5. CASE UNCHANGED vars
    BY <2>5 DEF vars, closeVars
  <2>6. CASE AbortClose(c)
    BY <2>1, <2>6 DEF AbortClose
  <2>7. CASE Crash(c)
    BY <1>1, <2>7 DEF Crash, Tell, Goto, TypeOK
  <2> QED BY <1>1, <2>2, <2>3, <2>4, <2>5, <2>6, <2>7 DEF Next, Step, AdminStep, PostingStep
<1>2. [](TypeOK /\ ClaimExclusive) /\ [][Next]_vars => [][Back]_vars
  BY <1>1, PTL
<1> QED BY <1>2, TypeCorrect, Exclusive, PTL DEF Spec, AdjustingIsRestored

\* A locked period is final: no step of a close, a verb or a posting that is
\* still under way takes a period out of locked.
THEOREM Final == Spec => LockedIsFinal
<1>1. ASSUME [Next]_vars PROVE [status = "locked" => status' = "locked"]_vars
  <2> SUFFICES ASSUME status = "locked" PROVE status' = "locked"
    OBVIOUS
  <2>1. ASSUME NEW c \in Closer, Step(c) PROVE status' = "locked"
    BY <2>1 DEF Step, CloseStep, ReadPeriod, BeginClose, SayWhatWon, SumBalances,
       FindEntry, CheckEntry, CommitEntry, PostFails, FinishClose, AbortClose, Crash,
       periodVars
  <2>2. ASSUME NEW a \in Admin, AdminStep(a) PROVE status' = "locked"
    BY <2>2 DEF AdminStep, RequireClosed, Move, RequireAgain, periodVars
  <2>3. ASSUME NEW w \in Writer, PostingStep(w) PROVE status' = "locked"
    BY <2>3 DEF PostingStep, CheckPeriod, CommitPosting, periodVars
  <2> QED BY <1>1, <2>1, <2>2, <2>3 DEF Next, Step, AdminStep, PostingStep, vars, periodVars
<1> QED BY <1>1, PTL DEF Spec, LockedIsFinal

-----------------------------------------------------------------------------
\* Why a period that nobody else has posted into closes with its P&L at zero:
\* what the claim holder summed is still what is there, an entry once posted
\* has left nothing, and a close finishes only when nothing is left.
QuietInv == NobodyPosted =>
    /\ entries # {} => pl = Zero
    /\ \A c \in Closer : cpc[c] \in {"find", "check", "commit"} => sums[c] = pl
    /\ \A c \in Closer : cpc[c] = "finish" => pl = Zero
    /\ status \in {"closed", "locked"} => pl = Zero

\* A close's own step preserves it; only CommitEntry moves balances, and the
\* claim says nobody else is between its sum and its end.
LEMMA CloseKeepsQuiet ==
    ASSUME TypeOK, ClaimExclusive, QuietInv, NEW c \in Closer, Step(c)
    PROVE  QuietInv'
<1>0. wpc' = wpc
  BY DEF Step, CloseStep, ReadPeriod, BeginClose, SayWhatWon, SumBalances, FindEntry,
     CheckEntry, CommitEntry, PostFails, FinishClose, AbortClose, Crash
<1> SUFFICES ASSUME NobodyPosted
             PROVE  QuietInv'
  BY <1>0 DEF QuietInv, NobodyPosted
<1> USE DEF TypeOK, QuietInv
<1>1. CASE ReadPeriod(c) \/ SayWhatWon(c) \/ PostFails(c) \/ Crash(c)
  BY <1>1 DEF ReadPeriod, SayWhatWon, PostFails, Crash, Goto, Tell, Zero,
              periodVars, bookVars
<1>2. CASE BeginClose(c)
  BY <1>2 DEF BeginClose, Goto, Zero, bookVars
<1>3. CASE SumBalances(c)
  <2>1. \A d \in Closer : cpc'[d] \in {"find", "check", "commit"} => sums'[d] = pl
    BY <1>3 DEF SumBalances, Goto
  <2>2. \A d \in Closer : cpc'[d] = "finish" => pl = Zero
    BY <1>3 DEF SumBalances, Goto
  <2>3. /\ UNCHANGED <<pl, entries, status>> /\ Zero' = Zero
    BY <1>3 DEF SumBalances, Zero, periodVars, bookVars
  <2> QED BY <2>1, <2>2, <2>3
<1>4. CASE FindEntry(c)
  <2>1. cpc'[c] = "finish" => pl = Zero
    BY <1>4 DEF FindEntry, Existing, Goto
  <2> QED BY <1>4, <2>1 DEF FindEntry, Goto, Zero, periodVars, bookVars
<1>5. CASE CheckEntry(c)
  BY <1>5 DEF CheckEntry, Goto, Zero, periodVars, bookVars
<1>6. CASE CommitEntry(c)
  <2>1. \A d \in Closer : cpc'[d] \in {"find", "check", "commit"} => FALSE
    <3>1. cpc' = [cpc EXCEPT ![c] = "finish"] \/ cpc' = [cpc EXCEPT ![c] = "abort"]
      BY Zenon, <1>6 DEF CommitEntry, Goto
    <3>2. \A d \in Closer \ {c} : cpc[d] \notin {"find", "check", "commit"}
      BY <1>6 DEF ClaimExclusive, Working, CommitEntry
    <3> QED BY <3>1, <3>2
  <2>2. pl' = Zero /\ Zero' = Zero
    <3>1. CASE Existing(key[c]) # {}
      BY Zenon, <1>6, <3>1 DEF CommitEntry, Existing, bookVars, Zero
    <3>2. CASE Existing(key[c]) = {}
      <4>1. sums[c] = pl
        BY <1>6 DEF CommitEntry
      <4>2. pl' = [a \in PL |-> pl[a] - sums[c][a]]
        BY Zenon, <1>6, <3>2 DEF CommitEntry
      <4>3. \A a \in PL : pl[a] - pl[a] = 0
        OBVIOUS
      <4> QED BY <4>1, <4>2, <4>3 DEF Zero
    <3> QED BY <3>1, <3>2
  <2> QED BY <2>1, <2>2
<1>7. CASE FinishClose(c) \/ AbortClose(c)
  <2>1. pl' = pl /\ entries' = entries /\ sums' = sums /\ Zero' = Zero
    BY <1>7 DEF FinishClose, AbortClose, bookVars, Zero
  <2>2. cpc' = [cpc EXCEPT ![c] = "done"]
    BY <1>7 DEF FinishClose, AbortClose, Tell, Goto
  <2>3. status' \in {"closed", "locked"} => pl = Zero
    BY <1>7 DEF FinishClose, AbortClose
  <2> QED BY <2>1, <2>2, <2>3
<1> QED BY <1>1, <1>2, <1>3, <1>4, <1>5, <1>6, <1>7 DEF Step, CloseStep

\* Until somebody else's posting lands in it, a period that is closed or
\* locked has all its revenue and expense at zero: through any faults, deaths,
\* retries and reopens of its closes.
THEOREM QuietCloseIsZero == Spec => []ClosedIsZero
<1>1. Init => QuietInv
  BY DEF Init, QuietInv
<1>2. ASSUME TypeOK, ClaimExclusive, QuietInv, [Next]_vars PROVE QuietInv'
  <2>1. ASSUME NEW c \in Closer, Step(c) PROVE QuietInv'
    BY <1>2, <2>1, CloseKeepsQuiet
  <2>2. ASSUME NEW a \in Admin, AdminStep(a) PROVE QuietInv'
    <3>1. /\ pl' = pl /\ entries' = entries /\ sums' = sums /\ cpc' = cpc
          /\ wpc' = wpc /\ Zero' = Zero
      BY <2>2 DEF AdminStep, RequireClosed, Move, RequireAgain, bookVars, closeVars, Zero
    <3>2. NobodyPosted /\ status' \in {"closed", "locked"} => pl = Zero
      BY <1>2, <2>2 DEF QuietInv, AdminStep, RequireClosed, Move, RequireAgain, periodVars
    <3> QED BY <1>2, <3>1, <3>2 DEF QuietInv, NobodyPosted
  <2>3. ASSUME NEW w \in Writer, PostingStep(w) PROVE QuietInv'
    <3>1. CASE CheckPeriod(w)
      BY <1>2, <3>1 DEF CheckPeriod, TypeOK, QuietInv, NobodyPosted, Zero,
                        periodVars, bookVars, closeVars
    <3>2. CASE CommitPosting(w)
      BY <1>2, <3>2 DEF CommitPosting, TypeOK, QuietInv, NobodyPosted
    <3> QED BY <2>3, <3>1, <3>2 DEF PostingStep
  <2>4. CASE UNCHANGED vars
    BY <1>2, <2>4 DEF vars, periodVars, bookVars, closeVars, QuietInv, NobodyPosted, Zero
  <2> QED BY <1>2, <2>1, <2>2, <2>3, <2>4 DEF Next, Step, AdminStep, PostingStep
<1>3. QuietInv => ClosedIsZero
  BY DEF QuietInv, ClosedIsZero
<1> QED BY <1>1, <1>2, <1>3, TypeCorrect, Exclusive, PTL DEF Spec

-----------------------------------------------------------------------------
\* Why nothing is rolled twice: what a claim holder has summed is still there
\* until its entry takes it, since postings only add to such an account.
Accrues(a) == Starting[a] >= 0 /\ \A w \in Writer : Effect[w][a] >= 0

RollInv == \A a \in PL : Accrues(a) =>
    /\ pl[a] >= 0
    /\ \A c \in Closer : cpc[c] \in {"find", "check", "commit"} => sums[c][a] <= pl[a]

\* A close's own step preserves it.
LEMMA CloseKeepsRoll ==
    ASSUME TypeOK, ClaimExclusive, RollInv, NEW c \in Closer, Step(c)
    PROVE  RollInv'
<1> USE DEF TypeOK, RollInv
<1>0. \A a \in PL : Accrues(a)' <=> Accrues(a)
  BY DEF Accrues
<1>1. CASE ReadPeriod(c) \/ BeginClose(c) \/ SayWhatWon(c)
  BY <1>0, <1>1 DEF ReadPeriod, BeginClose, SayWhatWon, Goto, Tell, bookVars
<1>2. CASE SumBalances(c)
  <2>1. sums' = [sums EXCEPT ![c] = pl] /\ pl' = pl
    BY <1>2 DEF SumBalances, bookVars
  <2>2. cpc' = [cpc EXCEPT ![c] = "finish"] \/ cpc' = [cpc EXCEPT ![c] = "find"]
    BY Zenon, <1>2 DEF SumBalances, Goto
  <2>3. \A a \in PL : pl[a] \in Int
    OBVIOUS
  <2> QED BY <1>0, <2>1, <2>2, <2>3
<1>3. CASE FindEntry(c) \/ CheckEntry(c) \/ PostFails(c) \/ Crash(c)
  BY <1>0, <1>3 DEF FindEntry, CheckEntry, PostFails, Crash, Goto, Tell, bookVars
<1>4. CASE CommitEntry(c)
  <2>1. cpc' = [cpc EXCEPT ![c] = "finish"] \/ cpc' = [cpc EXCEPT ![c] = "abort"]
    BY Zenon, <1>4 DEF CommitEntry, Goto
  <2>2. \A d \in Closer : cpc'[d] \notin {"find", "check", "commit"}
    <3>1. \A d \in Closer \ {c} : cpc[d] \notin {"find", "check", "commit"}
      BY <1>4 DEF ClaimExclusive, Working, CommitEntry
    <3> QED BY <2>1, <3>1
  <2>3. \A a \in PL : Accrues(a) => pl'[a] >= 0
    <3>1. pl' = pl \/ pl' = [a \in PL |-> pl[a] - sums[c][a]]
      BY Zenon, <1>4 DEF CommitEntry, bookVars
    <3>2. \A a \in PL : pl[a] \in Int /\ sums[c][a] \in Int
      OBVIOUS
    <3>3. \A a \in PL : Accrues(a) => pl[a] >= 0 /\ sums[c][a] <= pl[a]
      BY <1>4 DEF CommitEntry
    <3> QED BY <3>1, <3>2, <3>3
  <2> QED BY <1>0, <2>2, <2>3
<1>5. CASE FinishClose(c) \/ AbortClose(c)
  BY <1>0, <1>5 DEF FinishClose, AbortClose, Goto, Tell, bookVars
<1> QED BY <1>1, <1>2, <1>3, <1>4, <1>5 DEF Step, CloseStep

\* Another producer's posting adds to such an account, so a sum taken before
\* it is still covered.
LEMMA PostingKeepsRoll ==
    ASSUME TypeOK, RollInv, NEW w \in Writer, PostingStep(w)
    PROVE  RollInv'
<1>1. \A a \in PL : Accrues(a)' <=> Accrues(a)
  BY DEF Accrues
<1>2. cpc' = cpc /\ sums' = sums
  BY DEF PostingStep, CheckPeriod, CommitPosting, closeVars
<1>3. \A a \in PL : Accrues(a) => pl'[a] >= pl[a]
  <2>1. \A a \in PL : pl[a] \in Int /\ Effect[w][a] \in Int
    BY SetAssumption DEF TypeOK
  <2>2. pl' = pl \/ pl' = [a \in PL |-> pl[a] + Effect[w][a]]
    BY DEF PostingStep, CheckPeriod, CommitPosting, bookVars
  <2>3. \A a \in PL : Accrues(a) => Effect[w][a] >= 0
    BY DEF Accrues
  <2> QED BY <2>1, <2>2, <2>3
<1>4. \A a \in PL : pl[a] \in Int /\ pl'[a] \in Int
  BY SetAssumption DEF TypeOK, PostingStep, CheckPeriod, CommitPosting, bookVars
<1>5. \A c \in Closer, a \in PL : sums[c][a] \in Int
  BY DEF TypeOK
<1> QED BY <1>1, <1>2, <1>3, <1>4, <1>5 DEF RollInv

\* However many closes race, fail, die and are retried, no balance is rolled
\* into retained earnings twice: an account off which nothing but a close ever
\* takes something never falls below zero.
THEOREM RolledOnce == Spec => []NothingRolledTwice
<1>1. Init => RollInv
  BY DEF Init, RollInv, Accrues
<1>2. ASSUME TypeOK, ClaimExclusive, RollInv, [Next]_vars PROVE RollInv'
  <2>1. ASSUME NEW c \in Closer, Step(c) PROVE RollInv'
    BY <1>2, <2>1, CloseKeepsRoll
  <2>2. CASE \/ \E a \in Admin : AdminStep(a)
             \/ UNCHANGED vars
    <3>1. pl' = pl /\ sums' = sums /\ cpc' = cpc
      BY <2>2 DEF AdminStep, RequireClosed, Move, RequireAgain, vars, bookVars, closeVars
    <3> QED BY <1>2, <3>1 DEF RollInv, Accrues
  <2>3. ASSUME NEW w \in Writer, PostingStep(w) PROVE RollInv'
    BY <1>2, <2>3, PostingKeepsRoll
  <2> QED BY <1>2, <2>1, <2>2, <2>3 DEF Next, Step, AdminStep, PostingStep
<1>3. RollInv => NothingRolledTwice
  BY DEF RollInv, NothingRolledTwice, Accrues
<1> QED BY <1>1, <1>2, <1>3, TypeCorrect, Exclusive, PTL DEF Spec
=============================================================================
