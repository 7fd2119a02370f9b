---------------------------- MODULE TaxTagRepair ----------------------------
(***************************************************************************)
(* TaxTagRepairService: an officer re-tags the posted lines of a date      *)
(* window.  A run is one READ COMMITTED transaction: it reads the locked   *)
(* and then the closed periods of the window, and applies its rules one    *)
(* statement after the other; periods move meanwhile.  Two runs that       *)
(* update one line wait for each other, so one run at a time is modelled.  *)
(***************************************************************************)
EXTENDS Integers, FiniteSets, Sequences

CONSTANTS
    TagPeriod,       \* fiscal periods
    From, To,        \* start_date and end_date of each
    TagLine,         \* posted journal lines of live journals
    DateOf, AccountOf,
    Tag, Untagged,   \* values of journal_lines.tags, the one all lines begin with
    Rules,           \* sequences of [account, tags] a run may be given
    AnyAccount,      \* a rule that selects by is_tax_line only
    Days,            \* dates a window may begin or end on
    MaxRuns          \* bound: runs started

TagRule == [account : {AccountOf[l] : l \in TagLine} \cup {AnyAccount}, tags : Tag]

ASSUME RepairAssumption ==
    /\ From \in [TagPeriod -> Int] /\ To \in [TagPeriod -> Int]
    /\ DateOf \in [TagLine -> Int]
    /\ Untagged \in Tag
    /\ Rules \subseteq Seq(TagRule)
    /\ Days \subseteq Int /\ MaxRuns \in Nat

VARIABLES
    periodIs,    \* status of each period
    tags,        \* journal_lines.tags
    repair,      \* the run under way
    runs         \* bound

repairVars == <<periodIs, tags, repair, runs>>

NoRepair == [at |-> "none", lo |-> 0, hi |-> 0, rules |-> << >>, override |-> FALSE,
             locked |-> {}, closed |-> {}, new |-> [l \in TagLine |-> Untagged]]

RepairInit ==
    /\ periodIs = [p \in TagPeriod |-> "open"]
    /\ tags = [l \in TagLine |-> Untagged]
    /\ repair = NoRepair
    /\ runs = 0

\* The periods of a status that have a day in common with the window.
OverlapsContained(status, lo, hi) ==   \* bug: only periods inside the window
    {p \in TagPeriod : periodIs[p] = status /\ lo <= From[p] /\ To[p] <= hi}
Overlaps(status, lo, hi) ==
    {p \in TagPeriod : periodIs[p] = status /\ From[p] <= hi /\ To[p] >= lo}

\* The first read refuses a window with a locked period.
BeginRepair(lo, hi, rs, override) ==
    /\ repair.at = "none" /\ runs < MaxRuns
    /\ lo <= hi
    /\ Overlaps("locked", lo, hi) = {}
    /\ repair' = [at |-> "closed", lo |-> lo, hi |-> hi, rules |-> rs, override |-> override,
                  locked |-> {p \in TagPeriod : periodIs[p] = "locked"}, closed |-> {}, new |-> tags]
    /\ runs' = runs + 1
    /\ UNCHANGED <<periodIs, tags>>

\* The second one refuses closed periods without the override.
ReadClosed ==
    LET closed == Overlaps("closed", repair.lo, repair.hi) IN
    /\ repair.at = "closed"
    /\ repair' = IF closed # {} /\ ~repair.override THEN NoRepair
                 ELSE [repair EXCEPT !.at = "rules", !.closed = closed]
    /\ UNCHANGED <<periodIs, tags, runs>>

Selects(r, l) ==
    /\ DateOf[l] \in repair.lo..repair.hi
    /\ r.account \in {AnyAccount, AccountOf[l]}

\* One rule rewrites the lines it selects, whatever an earlier rule made of
\* them.
ApplyRule ==
    /\ repair.at = "rules" /\ repair.rules # << >>
    /\ repair' = [repair EXCEPT
           !.rules = Tail(@),
           !.new = [l \in TagLine |->
                       IF Selects(Head(repair.rules), l) THEN Head(repair.rules).tags ELSE @[l]]]
    /\ UNCHANGED <<periodIs, tags, runs>>

\* A dry run has counted in the same places and leaves the lines alone.
CommitRepair(dry) ==
    /\ repair.at = "rules" /\ repair.rules = << >>
    /\ tags' = IF dry THEN tags ELSE repair.new
    /\ repair' = NoRepair
    /\ UNCHANGED <<periodIs, runs>>

\* The period verbs: a close, a lock, a reopen.
MoveTagPeriod(p, s) ==
    /\ <<periodIs[p], s>> \in {<<"open", "closed">>, <<"closed", "locked">>, <<"closed", "open">>}
    /\ periodIs' = [periodIs EXCEPT ![p] = s]
    /\ UNCHANGED <<tags, repair, runs>>

RepairNext ==
    \/ \E lo, hi \in Days, rs \in Rules, override \in BOOLEAN : BeginRepair(lo, hi, rs, override)
    \/ ReadClosed \/ ApplyRule
    \/ \E dry \in BOOLEAN : CommitRepair(dry)
    \/ \E p \in TagPeriod, s \in {"open", "closed", "locked"} : MoveTagPeriod(p, s)

RepairSpec == RepairInit /\ [][RepairNext]_repairVars

-----------------------------------------------------------------------------
\* "Locked periods are never retaggable", closed ones with the override only: a
\* line that a run changes was in no period locked when the run began, and in
\* none it saw closed unless it was overridden, however the window cuts the
\* periods and whatever they become meanwhile.
LockedLinesKeepTags ==
    [][\A l \in TagLine : tags'[l] # tags[l] =>
          \A p \in TagPeriod : DateOf[l] \in From[p]..To[p] =>
              /\ p \notin repair.locked
              /\ p \in repair.closed => repair.override]_repairVars
=============================================================================
