-------------------------- MODULE BackOffice_proofs --------------------------
(***************************************************************************)
(* The components beside posting share no state with it or with each       *)
(* other; what is proved of each has a section here.                       *)
(***************************************************************************)
EXTENDS CheckPrinting, TaxTagRepair, ChartInstall, SettlementMoves,
        BankReconciliation, Reports, SumTheorems, SequenceTheorems

-----------------------------------------------------------------------------
(* Check printing.  However allocations, prints and refusals mix, a        *)
(* registration hands out consecutive numbers.  The invariant adds that    *)
(* the cursor is never behind the number it was registered with.           *)

CheckInv ==
    /\ sequence \in [mode : {"none", "auto", "manual"}, next : 1..(MaxCheckNumber + 1)]
    /\ first \in 1..sequence.next
    /\ handed = [k \in 1..(sequence.next - first) |-> first + k - 1]

\* Numbers from m up to n, followed by the count numbers from n on.
LEMMA Consecutive ==
    ASSUME NEW m \in Nat, NEW n \in Nat, m <= n, NEW count \in Nat
    PROVE  [k \in 1..(n - m) |-> m + k - 1] \o [k \in 1..count |-> n + k - 1]
               = [k \in 1..(n + count - m) |-> m + k - 1]
  <1> DEFINE s == [k \in 1..(n - m) |-> m + k - 1]
             t == [k \in 1..count |-> n + k - 1]
             u == [k \in 1..(n + count - m) |-> m + k - 1]
  <1>1. s \in Seq(Int) /\ Len(s) = n - m
    OBVIOUS
  <1>2. t \in Seq(Int) /\ Len(t) = count
    OBVIOUS
  <1>3. u \in Seq(Int) /\ Len(u) = n + count - m
    OBVIOUS
  <1>4. s \o t \in Seq(Int) /\ Len(s \o t) = Len(u)
    BY <1>1, <1>2, <1>3
  <1>5. ASSUME NEW k \in 1..Len(u) PROVE (s \o t)[k] = u[k]
    <2>1. CASE k <= n - m
      BY <2>1, <1>1, <1>2, <1>3
    <2>2. CASE k > n - m
      BY <2>2, <1>1, <1>2, <1>3
    <2> QED
      BY <2>1, <2>2, <1>3
  <1> HIDE DEF s, t, u
  <1>6. s \o t = u
    BY <1>3, <1>4, <1>5, SeqEqual
  <1> QED
    BY <1>6 DEF s, t, u

LEMMA AllocatedKeeps ==
    ASSUME CheckInv, NEW count \in Nat \ {0}, Allocated(count), first' = first
    PROVE  CheckInv'
  <1>1. sequence.next + count <= MaxCheckNumber + 1
    BY CheckAssumption DEF CheckInv, Allocated
  <1>2. sequence' = [mode |-> sequence.mode, next |-> sequence.next + count]
    BY DEF CheckInv, Allocated
  <1>3. handed' = [k \in 1..(sequence.next + count - first) |-> first + k - 1]
    <2>1. first \in Nat /\ sequence.next \in Nat /\ first <= sequence.next /\ count \in Nat
      BY CheckAssumption DEF CheckInv
    <2>2. [k \in 1..(sequence.next - first) |-> first + k - 1]
              \o [k \in 1..count |-> sequence.next + k - 1]
            = [k \in 1..(sequence.next + count - first) |-> first + k - 1]
      BY <2>1, Consecutive
    <2> QED
      BY <2>2 DEF CheckInv, Allocated
  <1> QED
    BY <1>1, <1>2, <1>3, CheckAssumption DEF CheckInv

THEOREM CheckInductive == CheckSpec => []CheckInv
  <1>1. CheckInit => CheckInv
    BY CheckAssumption DEF CheckInit, CheckInv
  <1>2. CheckInv /\ [CheckNext]_checkVars => CheckInv'
    <2> SUFFICES ASSUME CheckInv, [CheckNext]_checkVars PROVE CheckInv'
      OBVIOUS
    <2>1. ASSUME NEW mode \in {"auto", "manual"}, NEW n \in 1..MaxCheckNumber, Register(mode, n)
          PROVE  CheckInv'
      BY <2>1, CheckAssumption DEF CheckInv, Register
    <2>2. ASSUME NEW count \in Count, Allocate(count) PROVE CheckInv'
      BY <2>2, AllocatedKeeps, CheckAssumption DEF Allocate
    <2>3. CASE RecordAuto
      BY <2>3, AllocatedKeeps DEF RecordAuto
    <2>4. ASSUME NEW c \in Check, RecordManual(c) \/ Void(c) PROVE CheckInv'
      BY <2>4 DEF CheckInv, RecordManual, Void
    <2>5. CASE UNCHANGED checkVars
      BY <2>5 DEF CheckInv, checkVars
    <2> QED
      BY <2>1, <2>2, <2>3, <2>4, <2>5 DEF CheckNext
  <1> QED
    BY <1>1, <1>2, PTL DEF CheckSpec

\* For any ceiling and any mix of callers, the numbers given out since a
\* registration are consecutive and end at the cursor.
THEOREM Unbroken == CheckSpec => []NumbersUnbroken
  <1>1. CheckInv => NumbersUnbroken
    BY CheckAssumption DEF CheckInv, NumbersUnbroken
  <1> QED
    BY <1>1, CheckInductive, PTL

-----------------------------------------------------------------------------
(* Tax-tag repair.  No run changes a line of a period that was locked when *)
(* it began.  The invariant says what a run past its reads knows of the    *)
(* periods of its window, and that all it would change lies in it.         *)

Repair == [at : {"none", "closed", "rules"}, lo : Int, hi : Int, rules : Seq(TagRule),
           override : BOOLEAN, locked : SUBSET TagPeriod, closed : SUBSET TagPeriod,
           new : [TagLine -> Tag]]

RepairTypeOK ==
    /\ tags \in [TagLine -> Tag]
    /\ repair \in Repair

RepairInv ==
    /\ RepairTypeOK
    /\ repair.at # "none" =>
          /\ \A p \in repair.locked : ~(From[p] <= repair.hi /\ To[p] >= repair.lo)
          /\ \A l \in TagLine : repair.new[l] # tags[l] => DateOf[l] \in repair.lo..repair.hi
    /\ repair.at = "rules" => repair.closed = {} \/ repair.override

LEMMA NoRepairType == NoRepair \in Repair /\ NoRepair.at = "none"
  <1> DEFINE untagged == [l \in TagLine |-> Untagged]
             noRules == << >>
  <1>1. untagged \in [TagLine -> Tag]
    BY RepairAssumption
  <1>2. noRules \in Seq(TagRule)
    OBVIOUS
  <1>3. NoRepair = [at |-> "none", lo |-> 0, hi |-> 0, rules |-> noRules, override |-> FALSE,
                    locked |-> {}, closed |-> {}, new |-> untagged]
    BY DEF NoRepair
  <1> HIDE DEF untagged, noRules
  <1> QED
    BY <1>1, <1>2, <1>3 DEF Repair

LEMMA RepairInit_Inv == RepairInit => RepairInv
  <1> SUFFICES ASSUME RepairInit PROVE RepairInv
    OBVIOUS
  <1>1. tags \in [TagLine -> Tag]
    BY RepairAssumption DEF RepairInit
  <1>2. repair \in Repair /\ repair.at = "none"
    BY NoRepairType DEF RepairInit
  <1> QED
    BY <1>1, <1>2 DEF RepairInv, RepairTypeOK

LEMMA BeginKeeps ==
    ASSUME RepairInv, NEW lo \in Days, NEW hi \in Days, NEW rs \in Rules,
           NEW override \in BOOLEAN, BeginRepair(lo, hi, rs, override)
    PROVE  RepairInv'
  <1>1. lo \in Int /\ hi \in Int /\ rs \in Seq(TagRule)
    BY RepairAssumption
  <1>2. repair' \in Repair
    BY <1>1 DEF BeginRepair, RepairInv, RepairTypeOK, Repair
  <1>3. \A p \in repair'.locked : ~(From[p] <= repair'.hi /\ To[p] >= repair'.lo)
    BY DEF BeginRepair, Overlaps
  <1>4. repair'.new = tags /\ tags' = tags /\ repair'.at = "closed"
    BY DEF BeginRepair
  <1> QED
    BY <1>2, <1>3, <1>4 DEF RepairInv, RepairTypeOK

LEMMA ReadClosedKeeps ==
    ASSUME RepairInv, ReadClosed
    PROVE  RepairInv'
  <1> DEFINE seen == Overlaps("closed", repair.lo, repair.hi)
  <1>1. seen \in SUBSET TagPeriod /\ tags' = tags /\ repair \in Repair
    BY DEF Overlaps, ReadClosed, RepairInv, RepairTypeOK
  <1>2. CASE seen # {} /\ ~repair.override
    BY <1>2, NoRepairType DEF ReadClosed, RepairInv, RepairTypeOK
  <1>3. CASE ~(seen # {} /\ ~repair.override)
    <2>1. repair' = [repair EXCEPT !.at = "rules", !.closed = seen]
      BY <1>3 DEF ReadClosed
    <2> HIDE DEF seen
    <2>2. /\ repair' \in Repair /\ repair'.closed = seen
          /\ repair'.override = repair.override
          /\ repair'.locked = repair.locked /\ repair'.new = repair.new
          /\ repair'.lo = repair.lo /\ repair'.hi = repair.hi
      BY <1>1, <2>1 DEF Repair
    <2> QED
      BY <1>1, <1>3, <2>2 DEF ReadClosed, RepairInv, RepairTypeOK
  <1> QED
    BY <1>2, <1>3

LEMMA ApplyKeeps ==
    ASSUME RepairInv, ApplyRule
    PROVE  RepairInv'
  <1> DEFINE r == Head(repair.rules)
             rewritten == [l \in TagLine |->
                              IF Selects(r, l) THEN r.tags ELSE repair.new[l]]
  <1>1. repair \in Repair /\ r \in TagRule /\ Tail(repair.rules) \in Seq(TagRule)
    BY DEF ApplyRule, RepairInv, RepairTypeOK, Repair
  <1>2. rewritten \in [TagLine -> Tag]
    BY <1>1 DEF Repair, TagRule
  <1>3. repair' = [repair EXCEPT !.rules = Tail(repair.rules), !.new = rewritten]
    BY <1>1 DEF ApplyRule, Repair
  <1>4. \A l \in TagLine : rewritten[l] # repair.new[l] => DateOf[l] \in repair.lo..repair.hi
    BY DEF Selects
  <1> HIDE DEF r, rewritten
  <1>5. /\ repair' \in Repair /\ repair'.new = rewritten /\ tags' = tags
        /\ repair'.at = repair.at /\ repair'.locked = repair.locked
        /\ repair'.closed = repair.closed /\ repair'.override = repair.override
        /\ repair'.lo = repair.lo /\ repair'.hi = repair.hi
    BY <1>1, <1>2, <1>3 DEF ApplyRule, Repair
  <1> QED
    BY <1>4, <1>5 DEF ApplyRule, RepairInv, RepairTypeOK

LEMMA CommitKeeps ==
    ASSUME RepairInv, NEW dry \in BOOLEAN, CommitRepair(dry)
    PROVE  RepairInv'
  <1>1. tags' \in [TagLine -> Tag]
    BY DEF CommitRepair, RepairInv, RepairTypeOK, Repair
  <1> QED
    BY <1>1, NoRepairType DEF CommitRepair, RepairInv, RepairTypeOK

LEMMA RepairNext_Inv == RepairInv /\ [RepairNext]_repairVars => RepairInv'
  <1> SUFFICES ASSUME RepairInv, [RepairNext]_repairVars PROVE RepairInv'
    OBVIOUS
  <1>1. ASSUME NEW lo \in Days, NEW hi \in Days, NEW rs \in Rules, NEW override \in BOOLEAN,
               BeginRepair(lo, hi, rs, override)
        PROVE  RepairInv'
    BY <1>1, BeginKeeps
  <1>2. CASE ReadClosed
    BY <1>2, ReadClosedKeeps
  <1>3. CASE ApplyRule
    BY <1>3, ApplyKeeps
  <1>4. ASSUME NEW dry \in BOOLEAN, CommitRepair(dry) PROVE RepairInv'
    BY <1>4, CommitKeeps
  <1>5. ASSUME NEW p \in TagPeriod, NEW s \in {"open", "closed", "locked"}, MoveTagPeriod(p, s)
        PROVE  RepairInv'
    BY <1>5 DEF MoveTagPeriod, RepairInv, RepairTypeOK
  <1>6. CASE UNCHANGED repairVars
    BY <1>6 DEF repairVars, RepairInv, RepairTypeOK
  <1> QED
    BY <1>1, <1>2, <1>3, <1>4, <1>5, <1>6 DEF RepairNext

\* What a commit may change: only a run past both reads writes, and it writes
\* in its window.
LEMMA ChangeIsInWindow ==
    ASSUME RepairInv, [RepairNext]_repairVars, NEW l \in TagLine, tags'[l] # tags[l]
    PROVE  /\ repair.at = "rules"
           /\ repair.new[l] # tags[l]
  <1>1. PICK dry \in BOOLEAN : CommitRepair(dry)
    BY DEF RepairNext, repairVars, BeginRepair, ReadClosed, ApplyRule, MoveTagPeriod
  <1> QED
    BY <1>1 DEF CommitRepair

\* For any periods, lines and rules: a line that a run changes was in no period
\* locked when the run began, and in none it saw closed without the override.
THEOREM LockedKept == RepairSpec => LockedLinesKeepTags
  <1>1. RepairInv /\ [RepairNext]_repairVars =>
          [\A l \in TagLine : tags'[l] # tags[l] =>
              \A p \in TagPeriod : DateOf[l] \in From[p]..To[p] =>
                  /\ p \notin repair.locked
                  /\ p \in repair.closed => repair.override]_repairVars
    <2> SUFFICES ASSUME RepairInv, [RepairNext]_repairVars,
                        NEW l \in TagLine, tags'[l] # tags[l],
                        NEW p \in TagPeriod, DateOf[l] \in From[p]..To[p]
                 PROVE  /\ p \notin repair.locked
                        /\ p \in repair.closed => repair.override
      OBVIOUS
    <2>1. repair.at = "rules" /\ repair.new[l] # tags[l]
      BY ChangeIsInWindow
    <2>2. DateOf[l] \in repair.lo..repair.hi
      BY <2>1 DEF RepairInv
    <2>3. /\ From[p] \in Int /\ To[p] \in Int /\ DateOf[l] \in Int
          /\ repair.lo \in Int /\ repair.hi \in Int
      BY RepairAssumption DEF RepairInv, RepairTypeOK, Repair
    <2>4. From[p] <= repair.hi /\ To[p] >= repair.lo
      BY <2>2, <2>3
    <2> QED
      BY <2>1, <2>4 DEF RepairInv
  <1> QED
    BY <1>1, RepairInit_Inv, RepairNext_Inv, PTL DEF RepairSpec, LockedLinesKeepTags

-----------------------------------------------------------------------------
(* Chart install.  An install absorbs nothing.  The invariant carries what *)
(* the gates found over to the writes: whatever is in the way of the       *)
(* dataset has the id of one of its rows, since between the two accounts   *)
(* only disappear.                                                         *)

ChartRow ==
    [live : BOOLEAN, number : Number \cup {Null}, code : Code \cup {Null},
     chart : {ChartCode[v] : v \in DOMAIN Dataset} \cup {Null}]

ChartTypeOK ==
    /\ chart \in [AccountId -> ChartRow]
    /\ gate \in DOMAIN Dataset \cup {Null}

GateInv ==
    gate # Null => Valid(gate) /\ \A i \in Overlapping(gate) : \E r \in Rows(gate) : r.id = i

ChartInv == ChartTypeOK /\ GateInv

LEMMA RowType ==
    ASSUME NEW v \in DOMAIN Dataset, NEW r \in Rows(v)
    PROVE  r.id \in AccountId /\ r.number \in Number /\ r.code \in Code
  <1>1. PICK n \in Dataset[v] :
           r = [id |-> IdOf[ChartCode[v], CodeOf[n]], code |-> CodeOf[n], number |-> n]
    BY DEF Rows
  <1>2. IdOf[ChartCode[v], CodeOf[n]] \in AccountId
    BY HashAssumption
  <1> QED
    BY <1>1, <1>2, ChartAssumption

\* Rows of a valid dataset differ in everything.
LEMMA RowsDiffer ==
    ASSUME NEW v \in DOMAIN Dataset, Valid(v), NEW r \in Rows(v), NEW q \in Rows(v),
           r.id = q.id \/ r.number = q.number \/ r.code = q.code
    PROVE  r = q
  <1>1. PICK m \in Dataset[v] :
           r = [id |-> IdOf[ChartCode[v], CodeOf[m]], code |-> CodeOf[m], number |-> m]
    BY DEF Rows
  <1>2. PICK n \in Dataset[v] :
           q = [id |-> IdOf[ChartCode[v], CodeOf[n]], code |-> CodeOf[n], number |-> n]
    BY DEF Rows
  <1>3. CodeOf[m] = CodeOf[n]
    <2>1. CASE r.id = q.id
      BY <1>1, <1>2, <2>1, HashAssumption
    <2>2. CASE r.number = q.number \/ r.code = q.code
      BY <1>1, <1>2, <2>2
    <2> QED
      BY <2>1, <2>2
  <1> QED
    BY <1>1, <1>2, <1>3 DEF Valid

\* What WriteChart makes of one account.
LEMMA WrittenRow ==
    ASSUME ChartInv, WriteChart, NEW i \in AccountId
    PROVE  \/ \E r \in Rows(gate) :
                 /\ r.id = i
                 /\ chart'[i] = [live |-> TRUE, number |-> r.number, code |-> r.code,
                                 chart |-> ChartCode[gate]]
           \/ (\A r \in Rows(gate) : r.id # i) /\ chart'[i] = chart[i]
  <1>1. CASE \E r \in Rows(gate) : r.id = i
    <2> DEFINE r == CHOOSE x \in Rows(gate) : x.id = i
    <2>1. r \in Rows(gate) /\ r.id = i
      BY <1>1
    <2>2. chart'[i] = [live |-> TRUE, number |-> r.number, code |-> r.code,
                       chart |-> ChartCode[gate]]
      BY <1>1 DEF WriteChart
    <2> QED
      BY <2>1, <2>2
  <1>2. CASE \A r \in Rows(gate) : r.id # i
    BY <1>2 DEF WriteChart
  <1> QED
    BY <1>1, <1>2

LEMMA SameChart ==
    ASSUME ChartInv, chart' = chart, gate' = gate
    PROVE  ChartInv'
  <1>1. Overlapping(gate)' = Overlapping(gate) /\ Rows(gate)' = Rows(gate)
    BY DEF Overlapping, Rows
  <1>2. Valid(gate)' <=> Valid(gate)
    BY DEF Valid
  <1> QED
    BY <1>1, <1>2 DEF ChartInv, ChartTypeOK, GateInv

LEMMA ChartStep == ChartInv /\ [ChartNext]_chartVars => ChartInv'
  <1> SUFFICES ASSUME ChartInv, [ChartNext]_chartVars PROVE ChartInv'
    OBVIOUS
  <1>1. ASSUME NEW v \in DOMAIN Dataset, PassGates(v) PROVE ChartInv'
    BY <1>1 DEF PassGates, ChartInv, ChartTypeOK, GateInv, Own, Overlapping
  <1>2. CASE WriteChart
    <2>1. gate \in DOMAIN Dataset /\ gate' = Null
      BY <1>2 DEF WriteChart, ChartInv, ChartTypeOK
    <2>2. ASSUME NEW i \in AccountId PROVE chart'[i] \in ChartRow
      <3>1. CASE chart'[i] = chart[i]
        BY <3>1 DEF ChartInv, ChartTypeOK
      <3>2. ASSUME NEW r \in Rows(gate),
                   chart'[i] = [live |-> TRUE, number |-> r.number, code |-> r.code,
                                chart |-> ChartCode[gate]]
            PROVE  chart'[i] \in ChartRow
        BY <2>1, <3>2, RowType DEF ChartRow
      <3> QED
        BY <1>2, <3>1, <3>2, WrittenRow
    <2>3. chart' \in [AccountId -> ChartRow]
      BY <1>2, <2>2 DEF WriteChart
    <2> QED
      BY <2>1, <2>3 DEF ChartInv, ChartTypeOK, GateInv
  <1>3. ASSUME NEW i \in Manual, NEW n \in Number, NEW c \in Code, CreateAccount(i, n, c)
        PROVE  ChartInv'
    <2>1. chart' \in [AccountId -> ChartRow]
      BY <1>3, ChartAssumption DEF CreateAccount, ChartInv, ChartTypeOK, ChartRow
    <2> QED
      BY <1>3, <2>1 DEF CreateAccount, ChartInv, ChartTypeOK, GateInv
  <1>4. ASSUME NEW i \in AccountId, NEW n \in Number, NEW c \in Code, Renumber(i, n, c)
        PROVE  ChartInv'
    <2>1. chart' \in [AccountId -> ChartRow]
      BY <1>4 DEF Renumber, ChartInv, ChartTypeOK, ChartRow
    <2> QED
      BY <1>4, <2>1 DEF Renumber, ChartInv, ChartTypeOK, GateInv
  <1>5. ASSUME NEW i \in AccountId, DeleteSoftly(i) PROVE ChartInv'
    <2>1. chart' \in [AccountId -> ChartRow] /\ gate' = gate
      BY <1>5 DEF DeleteSoftly, ChartInv, ChartTypeOK, ChartRow
    <2>2. \A j \in AccountId : j # i => chart'[j] = chart[j]
      BY <1>5 DEF DeleteSoftly, ChartInv, ChartTypeOK
    <2>3. chart'[i].live = FALSE
      BY <1>5 DEF DeleteSoftly, ChartInv, ChartTypeOK, ChartRow
    <2>4. gate # Null => Overlapping(gate)' \subseteq Overlapping(gate)
      BY <2>1, <2>2, <2>3 DEF Overlapping, Rows
    <2> QED
      BY <2>1, <2>4 DEF ChartInv, ChartTypeOK, GateInv, Valid, Rows
  <1>6. CASE FirstPosting
    BY <1>6, SameChart DEF FirstPosting
  <1>7. CASE UNCHANGED chartVars
    BY <1>7, SameChart DEF chartVars
  <1> QED
    BY <1>1, <1>2, <1>3, <1>4, <1>5, <1>6, <1>7 DEF ChartNext

LEMMA ChartStart == ChartInit => ChartInv
  <1> SUFFICES ASSUME ChartInit PROVE ChartInv
    OBVIOUS
  <1>1. Absent \in ChartRow
    BY DEF Absent, ChartRow
  <1> QED
    BY <1>1 DEF ChartInit, ChartInv, ChartTypeOK, GateInv

Differ(a, b) == a.number # b.number /\ a.code # b.code

\* Of two live accounts after an install, both were there before as they are,
\* or the install tells them apart.
LEMMA WriteKeepsApart ==
    ASSUME ChartInv, WriteChart, NEW i \in AccountId, NEW j \in AccountId, i # j,
           chart'[i].live, chart'[j].live
    PROVE  \/ chart'[i] = chart[i] /\ chart'[j] = chart[j]
           \/ Differ(chart'[i], chart'[j])
  <1>1. gate \in DOMAIN Dataset /\ gate # Null /\ Valid(gate)
    BY DEF WriteChart, ChartInv, ChartTypeOK, GateInv
  <1> DEFINE IsRow(k, r) == r.id = k /\ chart'[k].number = r.number /\ chart'[k].code = r.code
             Kept(k) == (\A r \in Rows(gate) : r.id # k) /\ chart'[k] = chart[k]
  <1>2. \A k \in AccountId : (\E r \in Rows(gate) : IsRow(k, r)) \/ Kept(k)
    <2> SUFFICES ASSUME NEW k \in AccountId PROVE (\E r \in Rows(gate) : IsRow(k, r)) \/ Kept(k)
      OBVIOUS
    <2>1. CASE \E r \in Rows(gate) :
                  /\ r.id = k
                  /\ chart'[k] = [live |-> TRUE, number |-> r.number, code |-> r.code,
                                  chart |-> ChartCode[gate]]
      BY <2>1
    <2>2. CASE Kept(k)
      BY <2>2
    <2> QED
      BY <2>1, <2>2, WrittenRow
  <1>3. \A k \in AccountId : Kept(k) /\ chart'[k].live =>
           \A r \in Rows(gate) : r.number # chart'[k].number /\ r.code # chart'[k].code
    BY <1>1 DEF ChartInv, GateInv, Overlapping
  <1>4. CASE Kept(i) /\ Kept(j)
    BY <1>4
  <1>5. ASSUME NEW r \in Rows(gate), IsRow(i, r), Kept(j) PROVE Differ(chart'[i], chart'[j])
    BY <1>3, <1>5 DEF Differ
  <1>6. ASSUME NEW r \in Rows(gate), IsRow(j, r), Kept(i) PROVE Differ(chart'[i], chart'[j])
    BY <1>3, <1>6 DEF Differ
  <1>7. ASSUME NEW r \in Rows(gate), NEW q \in Rows(gate), IsRow(i, r), IsRow(j, q)
        PROVE  Differ(chart'[i], chart'[j])
    <2>1. r # q
      BY <1>7
    <2>2. r.number # q.number /\ r.code # q.code
      BY <1>1, <2>1, RowsDiffer
    <2> QED
      BY <1>7, <2>2 DEF Differ
  <1> QED
    BY <1>2, <1>4, <1>5, <1>6, <1>7

LEMMA OnlyWritesEnd ==
    ASSUME ChartInv, [ChartNext]_chartVars, gate # Null, gate' = Null
    PROVE  WriteChart
  BY DEF ChartNext, PassGates, CreateAccount, Renumber, DeleteSoftly, FirstPosting, chartVars

\* A live account that is in the way of nothing was live before.
LEMMA KeptWasLive ==
    ASSUME NEW i \in AccountId, chart'[i] = chart[i], chart'[i].live
    PROVE  chart[i].live
  OBVIOUS

\* "Manual accounts and other charts' accounts are never absorbed", for any
\* charts, versions, manual accounts and edits between two installs.
THEOREM AbsorbsNothing == ChartSpec => InstallAbsorbsNothing
  <1> DEFINE Other == \A i \in AccountId :
                         (\A r \in Rows(gate) : r.id # i) => chart'[i] = chart[i]
             Absorbs == gate # Null /\ gate' = Null =>
                           /\ Unique(chart) => Unique(chart')
                           /\ Other
  <1>1. ASSUME ChartInv, [ChartNext]_chartVars PROVE Absorbs
    <2> SUFFICES ASSUME gate # Null, gate' = Null
                 PROVE  (Unique(chart) => Unique(chart')) /\ Other
      OBVIOUS
    <2>1. WriteChart
      BY <1>1, OnlyWritesEnd
    <2>2. ASSUME Unique(chart), NEW i \in AccountId, NEW j \in AccountId, i # j,
                 chart'[i].live, chart'[j].live
          PROVE  Differ(chart'[i], chart'[j])
      <3>1. CASE chart'[i] = chart[i] /\ chart'[j] = chart[j]
        BY <2>2, <3>1, KeptWasLive DEF Unique, Differ
      <3> QED
        BY <1>1, <2>1, <2>2, <3>1, WriteKeepsApart
    <2>3. Other
      BY <1>1, <2>1, WrittenRow
    <2> QED
      BY <2>2, <2>3 DEF Unique, Differ
  <1>2. InstallAbsorbsNothing <=> [][Absorbs]_chartVars
    BY DEF InstallAbsorbsNothing
  <1> HIDE DEF Absorbs
  <1>3. ChartInv /\ [ChartNext]_chartVars => [Absorbs]_chartVars
    BY <1>1
  <1> QED
    BY <1>2, <1>3, ChartStart, ChartStep, PTL DEF ChartSpec

-----------------------------------------------------------------------------
(* Settlement moves.  What a line's rows add up to: pairs pay its face,    *)
(* exchange differences make it up, flips follow what is paid.  The        *)
(* invariant adds that a derived row hangs on the lines of its pair, and   *)
(* that the derived rows are the journals not reversed.                    *)

\* What round2 gives of a share: a whole share is the face, a part of it stays
\* within the face.
LEMMA DivUnique ==
    ASSUME NEW b \in Nat \ {0}, NEW q \in Int, NEW t \in Int, b * q <= t, t < b * q + b
    PROVE  t \div b = q
  OBVIOUS

LEMMA DivBetween ==
    ASSUME NEW b \in Nat \ {0}, NEW a \in Int, NEW lo \in Int, NEW hi \in Int,
           b * lo <= a, a < b * hi + b
    PROVE  a \div b \in lo..hi
  OBVIOUS

LEMMA RoundShare ==
    ASSUME NEW t \in Nat, NEW m \in Nat \ {0}, NEW k \in Nat, k <= m
    PROVE  Round(t * k, m) \in 0..t
  <1>1. t * k <= t * m /\ t * k >= 0 /\ t * k \in Int /\ t * m \in Int
    OBVIOUS
  <1>2. (2 * m) * t = 2 * (t * m)
    OBVIOUS
  <1>3. 2 * m \in Nat \ {0} /\ 2 * (t * k) + m \in Int
    BY <1>1
  <1>4. (2 * m) * 0 <= 2 * (t * k) + m /\ 2 * (t * k) + m < (2 * m) * t + 2 * m
    BY <1>1, <1>2
  <1> QED
    BY <1>3, <1>4, DivBetween DEF Round

LEMMA RoundWhole ==
    ASSUME NEW t \in Nat, NEW m \in Nat \ {0}
    PROVE  Round(t * m, m) = t
  <1>1. t * m \in Int /\ (2 * m) * t = 2 * (t * m)
    OBVIOUS
  <1>2. 2 * m \in Nat \ {0} /\ 2 * (t * m) + m \in Int
    BY <1>1
  <1>3. (2 * m) * t <= 2 * (t * m) + m /\ 2 * (t * m) + m < (2 * m) * t + 2 * m
    BY <1>1
  <1> QED
    BY <1>2, <1>3, DivUnique DEF Round

\* Totals of rows.
Priced(S) == IsFiniteSet(S) /\ \A p \in S : p.amount \in Int

LEMMA PricedPart == ASSUME NEW S, Priced(S), NEW T, T \subseteq S PROVE Priced(T)
  BY FS_Subset DEF Priced

LEMMA TotalType == ASSUME NEW S, Priced(S) PROVE Total(S) \in Int
  BY SumType DEF Priced, Total, Summable

LEMMA TotalEmpty == Total({}) = 0
  BY SumEmpty DEF Total

LEMMA TotalUnion ==
    ASSUME NEW S, NEW T, Priced(S), Priced(T), S \cap T = {}
    PROVE  Total(S \cup T) = Total(S) + Total(T)
  <1> DEFINE f == [p \in S \cup T |-> p.amount]
  <1>0. IsFiniteSet(S \cup T)
    BY FS_Union DEF Priced
  <1>1. Summable(f) /\ DOMAIN f = S \cup T
    BY <1>0 DEF Priced, Summable
  <1>2. Restrict(f, S) = [p \in S |-> p.amount] /\ Restrict(f, T) = [p \in T |-> p.amount]
    BY DEF Restrict
  <1>3. SumFunction(f) = SumFunction(Restrict(f, S)) + SumFunction(Restrict(f, T))
    <2> HIDE DEF f
    <2> QED
      BY <1>1, SumSplit
  <1> QED
    BY <1>2, <1>3 DEF Total

LEMMA TotalOne == ASSUME NEW p, p.amount \in Int PROVE Total({p}) = p.amount
  <1> DEFINE f == [q \in {} |-> q.amount]
             g == [q \in {p} |-> q.amount]
  <1>1. IsFiniteSet({p})
    BY FS_Singleton
  <1>2. /\ p \notin DOMAIN f /\ DOMAIN g = DOMAIN f \cup {p}
        /\ Agree(f, g, DOMAIN f) /\ Summable(g) /\ DOMAIN f = {}
    BY <1>1 DEF Agree, Summable
  <1>3. SumFunction(g) = SumFunction(f) + g[p]
    <2> HIDE DEF f, g
    <2> QED
      BY <1>2, SumAdd
  <1>4. SumFunction(f) = 0
    <2> HIDE DEF f
    <2> QED
      BY <1>2, SumEmpty
  <1> QED
    BY <1>3, <1>4 DEF Total

LEMMA TotalAdd ==
    ASSUME NEW S, Priced(S), NEW p, p \notin S, p.amount \in Int
    PROVE  Total(S \cup {p}) = Total(S) + p.amount
  <1>1. IsFiniteSet({p})
    BY FS_Singleton
  <1>2. Priced({p}) /\ S \cap {p} = {}
    BY <1>1 DEF Priced
  <1> QED
    BY <1>2, TotalUnion, TotalOne

LEMMA TotalNonNegative ==
    ASSUME NEW S, Priced(S), \A p \in S : p.amount >= 0
    PROVE  Total(S) >= 0
  <1> DEFINE f == [p \in S |-> p.amount]
  <1>1. Summable(f) /\ \A x \in DOMAIN f : f[x] >= 0
    BY DEF Priced, Summable
  <1> HIDE DEF f
  <1>2. SumFunction(f) >= 0
    BY <1>1, SumNonNegative
  <1> QED
    BY <1>2 DEF Total, f

\* A part of the rows that leaves out a positive one is smaller.
LEMMA TotalLess ==
    ASSUME NEW S, Priced(S), \A p \in S : p.amount > 0, NEW T, T \subseteq S, T # S
    PROVE  Total(T) < Total(S)
  <1>1. PICK p \in S : p \notin T
    OBVIOUS
  <1> DEFINE U == (S \ T) \ {p}
  <1>2. Priced(T) /\ Priced(U) /\ Priced(S \ T)
    BY PricedPart
  <1>3. S = T \cup (S \ T) /\ T \cap (S \ T) = {} /\ S \ T = U \cup {p} /\ p \notin U
    BY <1>1
  <1>4. Total(S) = Total(T) + Total(S \ T)
    BY <1>2, <1>3, TotalUnion
  <1>5. p.amount \in Int /\ p.amount > 0
    BY <1>1 DEF Priced
  <1>6. \A q \in U : q.amount >= 0
    BY DEF Priced
  <1> HIDE DEF U
  <1>7. Total(S \ T) = Total(U) + p.amount
    BY <1>2, <1>3, <1>5, TotalAdd
  <1>8. Total(U) >= 0 /\ Total(U) \in Int /\ Total(T) \in Int
    BY <1>2, <1>6, TotalNonNegative, TotalType
  <1> QED
    BY <1>4, <1>5, <1>7, <1>8

-----------------------------------------------------------------------------
Of(P, k, l) == {p \in P : p.kind = k /\ l \in p.lines}
Paid(P, l) == Total(Of(P, "pair", l))

\* A derived row hangs on the lines of its pair.
RowInv ==
    /\ links \in Nat
    /\ IsFiniteSet(partials) /\ IsFiniteSet(generated)
    /\ reversed \subseteq generated
    /\ \A p \in partials \cup generated :
          /\ p.of \in Nat /\ p.of <= links
          /\ p.amount \in Int /\ p.amount > 0
          /\ p.kind \in {"pair", "exchange", "tax"}
    /\ \A p, q \in partials : p.of = q.of /\ q.kind = "pair" => p.lines \subseteq q.lines

\* The rows that a journal stands for are there until it is reversed.
BooksInv ==
    /\ \A x \in generated : x.kind # "pair"
    /\ \A x \in partials : x.kind # "pair" => x \in generated \ reversed
    /\ \A x \in generated \ reversed : x \in partials

\* Nothing is applied beyond the face, and the flips are those of what is paid.
PaidInv ==
    \A l \in Document :
        /\ Left(partials, l) >= 0
        /\ Flipped(partials, l) <= Tax[l]
        /\ Paid(partials, l) = Base[l] => Flipped(partials, l) = Tax[l]

MoveInv == RowInv /\ BooksInv /\ PaidInv

LEMMA PricedOf ==
    ASSUME RowInv
    PROVE  Priced(partials) /\ \A k, l : Priced(Of(partials, k, l))
  <1>1. Priced(partials)
    BY DEF RowInv, Priced
  <1> QED
    BY <1>1, PricedPart DEF Of

\* A line's face is paid by pairs, made up by exchange differences, or left.
LEMMA LeftIs ==
    ASSUME NEW P, Priced(P), \A p \in P : p.kind \in {"pair", "exchange", "tax"},
           NEW l \in Document
    PROVE  /\ Left(P, l) = Base[l] - Paid(P, l) - Total(Of(P, "exchange", l))
           /\ Left(P, l) \in Int /\ Paid(P, l) \in Int /\ Total(Of(P, "exchange", l)) \in Int
  <1>1. {p \in P : p.kind # "tax" /\ l \in p.lines} = Of(P, "pair", l) \cup Of(P, "exchange", l)
    BY DEF Of
  <1>2. Priced(Of(P, "pair", l)) /\ Priced(Of(P, "exchange", l))
    BY PricedPart DEF Of
  <1>3. Of(P, "pair", l) \cap Of(P, "exchange", l) = {}
    BY DEF Of
  <1>4. Total({p \in P : p.kind # "tax" /\ l \in p.lines}) = Paid(P, l) + Total(Of(P, "exchange", l))
    BY <1>1, <1>2, <1>3, TotalUnion DEF Paid
  <1>5. Base[l] \in Int
    BY MoveAssumption DEF Document
  <1> QED
    BY <1>2, <1>4, <1>5, TotalType DEF Left, Paid

LEMMA LineType == \A l \in Document : Base[l] \in Nat /\ Base[l] > 0 /\ Tax[l] \in Nat
  BY MoveAssumption DEF Document

LEMMA TotalsNow ==
    ASSUME MoveInv, NEW l \in Document
    PROVE  /\ Left(partials, l) = Base[l] - Paid(partials, l) - Total(Of(partials, "exchange", l))
           /\ Left(partials, l) \in Nat
           /\ Paid(partials, l) \in Nat
           /\ Total(Of(partials, "exchange", l)) \in Nat
           /\ Flipped(partials, l) \in Nat /\ Flipped(partials, l) <= Tax[l]
           /\ Flipped(partials, l) = Total(Of(partials, "tax", l))
  <1>1. Priced(partials) /\ \A k, i : Priced(Of(partials, k, i))
    BY PricedOf DEF MoveInv
  <1>2. \A p \in partials : p.kind \in {"pair", "exchange", "tax"} /\ p.amount \in Int /\ p.amount > 0
    BY DEF MoveInv, RowInv
  <1>3. ASSUME NEW k PROVE Total(Of(partials, k, l)) \in Nat
    <2>1. \A p \in Of(partials, k, l) : p.amount >= 0
      BY <1>2 DEF Of
    <2> QED
      BY <1>1, <2>1, TotalNonNegative, TotalType
  <1>4. Flipped(partials, l) = Total(Of(partials, "tax", l))
    BY DEF Flipped, Of
  <1>5. /\ Left(partials, l) = Base[l] - Paid(partials, l) - Total(Of(partials, "exchange", l))
        /\ Left(partials, l) \in Int
    BY <1>1, <1>2, LeftIs
  <1> QED
    BY <1>3, <1>4, <1>5 DEF MoveInv, PaidInv, Paid

\* Flipping up to the share now paid never passes the deferral, and reaches it
\* with the last cent.
LEMMA FlipIs ==
    ASSUME MoveInv, NEW l \in Document, NEW applied \in Nat, applied <= Left(partials, l)
    PROVE  /\ Flip(partials, l, applied) \in Int
           /\ Flip(partials, l, applied) + Flipped(partials, l) <= Tax[l]
           /\ applied = Left(partials, l) =>
                  Flip(partials, l, applied) + Flipped(partials, l) = Tax[l]
  <1> DEFINE k == Base[l] - Left(partials, l) + applied
             r == Round(Tax[l] * k, Base[l])
  <1>1. k \in Nat /\ k <= Base[l]
    BY TotalsNow, LineType
  <1>2. applied = Left(partials, l) => k = Base[l]
    BY TotalsNow, LineType
  <1>3. Flip(partials, l, applied) = r - Flipped(partials, l)
    BY DEF Flip
  <1> HIDE DEF k
  <1>4. r \in 0..Tax[l]
    BY <1>1, LineType, RoundShare
  <1>5. k = Base[l] => r = Tax[l]
    BY LineType, RoundWhole
  <1> HIDE DEF r
  <1> QED
    BY <1>2, <1>3, <1>4, <1>5, TotalsNow, LineType

LEMMA MinThree ==
    ASSUME NEW a \in Int, NEW b \in Int, NEW c \in Int
    PROVE  Min({a, b, c}) \in Int /\ Min({a, b, c}) <= a /\ Min({a, b, c}) <= b /\ Min({a, b, c}) <= c
  <1>1. \E x \in {a, b, c} : \A y \in {a, b, c} : x <= y
    OBVIOUS
  <1>2. Min({a, b, c}) \in {a, b, c} /\ \A y \in {a, b, c} : Min({a, b, c}) <= y
    BY <1>1 DEF Min
  <1> QED
    BY <1>2

-----------------------------------------------------------------------------
(* What LinkPair adds.                                                     *)

Applied(d, c, n) == Min({n, Left(partials, d), Left(partials, c)})
PairRow(d, c, n) == [of |-> links + 1, kind |-> "pair", lines |-> {d, c}, amount |-> Applied(d, c, n)]
Linked(d, c, n) == partials \cup {PairRow(d, c, n)}
ExchangeRow(P, l) == [of |-> links + 1, kind |-> "exchange", lines |-> {l}, amount |-> Left(P, l)]
TaxRow(l, n) == [of |-> links + 1, kind |-> "tax", lines |-> {l}, amount |-> Flip(partials, l, n)]
Keepers(d, c, n) == Keeps(Linked(d, c, n), d, c, Applied(d, c, n))
Flippers(d, c, n) == {l \in {d, c} : Flip(partials, l, Applied(d, c, n)) > 0}
Moves(d, c, n) ==
    {ExchangeRow(Linked(d, c, n), l) : l \in Keepers(d, c, n)} \cup
    {TaxRow(l, Applied(d, c, n)) : l \in Flippers(d, c, n)}

LEMMA LinkIs ==
    ASSUME NEW d, NEW c, NEW n, LinkPair(d, c, n)
    PROVE  /\ Applied(d, c, n) > 0
           /\ partials' = Linked(d, c, n) \cup Moves(d, c, n)
           /\ generated' = generated \cup Moves(d, c, n)
           /\ links' = links + 1 /\ reversed' = reversed
  BY DEF LinkPair, Applied, PairRow, Linked, ExchangeRow, TaxRow, Keepers, Flippers, Moves

LEMMA AppliedIs ==
    ASSUME MoveInv, NEW d \in Invoice, NEW c \in Payment, NEW n \in Request, Applied(d, c, n) > 0
    PROVE  /\ Applied(d, c, n) \in Nat
           /\ \A l \in {d, c} : l \in Document /\ Applied(d, c, n) <= Left(partials, l)
  <1>1. d \in Document /\ c \in Document /\ n \in Int
    BY MoveAssumption DEF Document
  <1>2. Left(partials, d) \in Int /\ Left(partials, c) \in Int
    BY <1>1, TotalsNow
  <1> DEFINE a == Left(partials, d)
             b == Left(partials, c)
  <1>3. Applied(d, c, n) = Min({n, a, b})
    BY DEF Applied
  <1> HIDE DEF a, b
  <1>4. a \in Int /\ b \in Int
    BY <1>2 DEF a, b
  <1>5. Applied(d, c, n) \in Int /\ Applied(d, c, n) <= a /\ Applied(d, c, n) <= b
    BY <1>1, <1>3, <1>4, MinThree
  <1> QED
    BY <1>1, <1>5 DEF a, b

\* The rows of a line after the pair, and after what the pair generated.
LEMMA LinkedTotals ==
    ASSUME MoveInv, NEW d \in Invoice, NEW c \in Payment, NEW n \in Request,
           Applied(d, c, n) > 0, NEW l \in Document
    PROVE  /\ Paid(Linked(d, c, n), l) =
                  Paid(partials, l) + IF l \in {d, c} THEN Applied(d, c, n) ELSE 0
           /\ Left(Linked(d, c, n), l) =
                  Left(partials, l) - IF l \in {d, c} THEN Applied(d, c, n) ELSE 0
           /\ Priced(Linked(d, c, n))
  <1> DEFINE a == Applied(d, c, n)
             row == PairRow(d, c, n)
             P == Linked(d, c, n)
  <1>1. a \in Nat
    BY AppliedIs
  <1>2. /\ row.of = links + 1 /\ row.kind = "pair" /\ row.lines = {d, c} /\ row.amount = a
    BY DEF PairRow
  <1>3. row \notin partials
    BY <1>2 DEF MoveInv, RowInv
  <1>4. P = partials \cup {row}
    BY DEF Linked
  <1> HIDE DEF a, row, P
  <1>5. /\ Priced(partials) /\ \A k, i : Priced(Of(partials, k, i))
    BY PricedOf DEF MoveInv
  <1>6. Priced(P)
    <2>1. IsFiniteSet(P)
      BY <1>4, <1>5, FS_AddElement DEF Priced
    <2> QED
      BY <1>1, <1>2, <1>4, <1>5, <2>1 DEF Priced
  <1>7. Of(P, "exchange", l) = Of(partials, "exchange", l)
    BY <1>2, <1>4 DEF Of
  <1>8. \A p \in P : p.kind \in {"pair", "exchange", "tax"}
    BY <1>2, <1>4 DEF MoveInv, RowInv
  <1>9. Left(P, l) = Base[l] - Paid(P, l) - Total(Of(P, "exchange", l))
    BY <1>6, <1>8, LeftIs
  <1>10. Paid(P, l) = Paid(partials, l) + IF l \in {d, c} THEN a ELSE 0
    <2>1. CASE l \in {d, c}
      <3>1. Of(P, "pair", l) = Of(partials, "pair", l) \cup {row}
        BY <1>2, <1>4, <2>1 DEF Of
      <3>2. row \notin Of(partials, "pair", l)
        BY <1>3 DEF Of
      <3> QED
        BY <1>1, <1>2, <1>5, <2>1, <3>1, <3>2, TotalAdd DEF Paid
    <2>2. CASE l \notin {d, c}
      <3>1. Of(P, "pair", l) = Of(partials, "pair", l)
        BY <1>2, <1>4, <2>2 DEF Of
      <3>2. Paid(P, l) = Paid(partials, l)
        BY <3>1 DEF Paid
      <3> QED
        BY <2>2, <3>2, TotalsNow
    <2> QED
      BY <2>1, <2>2
  <1>11. Left(P, l) = Left(partials, l) - IF l \in {d, c} THEN a ELSE 0
    <2>1. CASE l \in {d, c}
      BY <1>1, <1>7, <1>9, <1>10, <2>1, TotalsNow, LineType
    <2>2. CASE l \notin {d, c}
      BY <1>7, <1>9, <1>10, <2>2, TotalsNow, LineType
    <2> QED
      BY <2>1, <2>2
  <1> QED
    BY <1>6, <1>10, <1>11 DEF a, P

LEMMA KeepersAre ==
    ASSUME NEW d, NEW c, NEW n
    PROVE  \A l \in Keepers(d, c, n) : l \in {d, c} /\ Left(Linked(d, c, n), l) > 0
  BY DEF Keepers, Keeps

LEMMA MovesAre ==
    ASSUME MoveInv, NEW d \in Invoice, NEW c \in Payment, NEW n \in Request, Applied(d, c, n) > 0
    PROVE  /\ IsFiniteSet(Moves(d, c, n))
           /\ \A x \in Moves(d, c, n) :
                 /\ x.of = links + 1 /\ x.kind \in {"exchange", "tax"}
                 /\ x.amount \in Int /\ x.amount > 0
                 /\ x.lines \subseteq {d, c}
  <1> DEFINE a == Applied(d, c, n)
             P == Linked(d, c, n)
             K == Keepers(d, c, n)
             F == Flippers(d, c, n)
             X == {ExchangeRow(P, l) : l \in K}
             T == {TaxRow(l, a) : l \in F}
  <1>0. IsFiniteSet({d, c})
    <2>1. IsFiniteSet({d})
      BY FS_Singleton
    <2>2. {d, c} = {d} \cup {c}
      OBVIOUS
    <2> QED
      BY <2>1, <2>2, FS_AddElement
  <1>1. K \subseteq {d, c} /\ F \subseteq {d, c} /\ IsFiniteSet({d, c})
    BY <1>0, KeepersAre DEF Flippers
  <1>2. IsFiniteSet(K) /\ IsFiniteSet(F)
    <2> HIDE DEF K, F
    <2> QED
      BY <1>1, FS_Subset
  <1>3. IsFiniteSet(X)
    <2> DEFINE h == [l \in K |-> ExchangeRow(P, l)]
    <2>1. X = {h[l] : l \in K}
      OBVIOUS
    <2> HIDE DEF h, K, X
    <2> QED
      BY <1>2, <2>1, FiniteImage
  <1>4. IsFiniteSet(T)
    <2> DEFINE h == [l \in F |-> TaxRow(l, a)]
    <2>1. T = {h[l] : l \in F}
      OBVIOUS
    <2> HIDE DEF h, F, T
    <2> QED
      BY <1>2, <2>1, FiniteImage
  <1>5. \A l \in {d, c} : l \in Document /\ a \in Nat /\ a <= Left(partials, l)
    BY AppliedIs
  <1>6. \A l \in {d, c} : Left(P, l) \in Int /\ Flip(partials, l, a) \in Int
    <2> SUFFICES ASSUME NEW l \in {d, c} PROVE Left(P, l) \in Int /\ Flip(partials, l, a) \in Int
      OBVIOUS
    <2>1. l \in Document /\ a \in Nat /\ a <= Left(partials, l)
      BY <1>5
    <2>2. Flip(partials, l, a) \in Int
      <3> HIDE DEF a
      <3> QED
        BY <2>1, FlipIs
    <2>3. Left(P, l) = Left(partials, l) - a
      BY <2>1, LinkedTotals
    <2> QED
      BY <2>1, <2>2, <2>3, TotalsNow
  <1>7. \A l \in K : l \in {d, c} /\ Left(P, l) > 0
    BY KeepersAre
  <1>8. \A l \in F : l \in {d, c} /\ Flip(partials, l, a) > 0
    BY DEF Flippers
  <1>9. Moves(d, c, n) = X \cup T
    BY DEF Moves
  <1> HIDE DEF a, P, K, F
  <1>10. \A x \in X : /\ x.of = links + 1 /\ x.kind = "exchange"
                      /\ x.amount \in Int /\ x.amount > 0 /\ x.lines \subseteq {d, c}
    BY <1>6, <1>7 DEF ExchangeRow
  <1>11. \A x \in T : /\ x.of = links + 1 /\ x.kind = "tax"
                      /\ x.amount \in Int /\ x.amount > 0 /\ x.lines \subseteq {d, c}
    BY <1>6, <1>8 DEF TaxRow
  <1> HIDE DEF X, T
  <1>12. IsFiniteSet(X \cup T)
    BY <1>3, <1>4, FS_Union
  <1> QED
    BY <1>9, <1>10, <1>11, <1>12

\* The rows of a line once everything is in.
LEMMA MovesOf ==
    ASSUME MoveInv, NEW d \in Invoice, NEW c \in Payment, NEW n \in Request,
           Applied(d, c, n) > 0, NEW l \in Document,
           NEW Q, Q = Linked(d, c, n) \cup Moves(d, c, n)
    PROVE  /\ Of(Q, "pair", l) = Of(Linked(d, c, n), "pair", l)
           /\ Of(Q, "exchange", l) = Of(Linked(d, c, n), "exchange", l) \cup
                 IF l \in Keepers(d, c, n) THEN {ExchangeRow(Linked(d, c, n), l)} ELSE {}
           /\ Of(Q, "tax", l) = Of(partials, "tax", l) \cup
                 IF l \in Flippers(d, c, n) THEN {TaxRow(l, Applied(d, c, n))} ELSE {}
  <1> DEFINE a == Applied(d, c, n)
             P == Linked(d, c, n)
             K == Keepers(d, c, n)
             F == Flippers(d, c, n)
             X == {ExchangeRow(P, i) : i \in K}
             T == {TaxRow(i, a) : i \in F}
  <1>1. Q = (P \cup X) \cup T
    BY DEF Moves
  <1>2. \A i : /\ ExchangeRow(P, i).kind = "exchange" /\ ExchangeRow(P, i).lines = {i}
               /\ TaxRow(i, a).kind = "tax" /\ TaxRow(i, a).lines = {i}
    BY DEF ExchangeRow, TaxRow
  <1>3. Of(P, "tax", l) = Of(partials, "tax", l)
    <2>1. PairRow(d, c, n).kind = "pair"
      BY DEF PairRow
    <2>2. P = partials \cup {PairRow(d, c, n)}
      BY DEF Linked
    <2> HIDE DEF P
    <2> QED
      BY <2>1, <2>2 DEF Of
  <1> HIDE DEF a, P, K, F
  <1>4. \A x \in X : x.kind = "exchange" /\ (l \in x.lines => l \in K /\ x = ExchangeRow(P, l))
    BY <1>2
  <1>5. \A x \in T : x.kind = "tax" /\ (l \in x.lines => l \in F /\ x = TaxRow(l, a))
    BY <1>2
  <1>6. /\ l \in K => ExchangeRow(P, l) \in X
        /\ l \in F => TaxRow(l, a) \in T
    OBVIOUS
  <1> HIDE DEF X, T
  <1>7. Of(Q, "pair", l) = Of(P, "pair", l)
    BY <1>1, <1>4, <1>5 DEF Of
  <1>8. Of(Q, "exchange", l) = Of(P, "exchange", l) \cup IF l \in K THEN {ExchangeRow(P, l)} ELSE {}
    <2>1. CASE l \in K
      BY <1>1, <1>2, <1>4, <1>5, <1>6, <2>1 DEF Of
    <2>2. CASE l \notin K
      BY <1>1, <1>4, <1>5, <2>2 DEF Of
    <2> QED
      BY <2>1, <2>2
  <1>9. Of(Q, "tax", l) = Of(P, "tax", l) \cup IF l \in F THEN {TaxRow(l, a)} ELSE {}
    <2>1. CASE l \in F
      BY <1>1, <1>2, <1>4, <1>5, <1>6, <2>1 DEF Of
    <2>2. CASE l \notin F
      BY <1>1, <1>4, <1>5, <2>2 DEF Of
    <2> QED
      BY <2>1, <2>2
  <1> QED
    BY <1>3, <1>7, <1>8, <1>9 DEF a, P, K, F

LEMMA LinkPaid ==
    ASSUME MoveInv, NEW d \in Invoice, NEW c \in Payment, NEW n \in Request,
           Applied(d, c, n) > 0, NEW l \in Document,
           NEW Q, Q = Linked(d, c, n) \cup Moves(d, c, n)
    PROVE  /\ Left(Q, l) >= 0
           /\ Flipped(Q, l) <= Tax[l]
           /\ Paid(Q, l) = Base[l] => Flipped(Q, l) = Tax[l]
  <1> DEFINE a == Applied(d, c, n)
             P == Linked(d, c, n)
             K == Keepers(d, c, n)
             F == Flippers(d, c, n)
             x == ExchangeRow(P, l)
             t == TaxRow(l, a)
             touched == l \in {d, c}
  <1>1. /\ Left(partials, l) = Base[l] - Paid(partials, l) - Total(Of(partials, "exchange", l))
        /\ Left(partials, l) \in Nat /\ Paid(partials, l) \in Nat
        /\ Total(Of(partials, "exchange", l)) \in Nat
        /\ Flipped(partials, l) \in Nat /\ Flipped(partials, l) <= Tax[l]
        /\ Flipped(partials, l) = Total(Of(partials, "tax", l))
        /\ Base[l] \in Nat /\ Base[l] > 0 /\ Tax[l] \in Nat
        /\ Paid(partials, l) = Base[l] => Flipped(partials, l) = Tax[l]
    BY TotalsNow, LineType DEF MoveInv, PaidInv
  <1>2. /\ a \in Nat /\ a > 0
        /\ touched => a <= Left(partials, l)
    BY AppliedIs
  <1>3. /\ Paid(P, l) = Paid(partials, l) + IF touched THEN a ELSE 0
        /\ Left(P, l) = Left(partials, l) - IF touched THEN a ELSE 0
        /\ Priced(P)
    BY LinkedTotals
  <1>4. /\ l \in K => touched /\ Left(P, l) > 0
        /\ l \in F => touched /\ Flip(partials, l, a) > 0
        /\ touched /\ l \notin F => ~(Flip(partials, l, a) > 0)
    BY KeepersAre DEF Flippers
  <1>5. touched => /\ Flip(partials, l, a) \in Int
                   /\ Flip(partials, l, a) + Flipped(partials, l) <= Tax[l]
                   /\ a = Left(partials, l) => Flip(partials, l, a) + Flipped(partials, l) = Tax[l]
    <2> HIDE DEF a
    <2> QED
      BY <1>2, FlipIs
  <1>6. /\ Of(Q, "pair", l) = Of(P, "pair", l)
        /\ Of(Q, "exchange", l) = Of(P, "exchange", l) \cup IF l \in K THEN {x} ELSE {}
        /\ Of(Q, "tax", l) = Of(partials, "tax", l) \cup IF l \in F THEN {t} ELSE {}
    BY MovesOf
  <1>7. /\ IsFiniteSet(Moves(d, c, n))
        /\ \A r \in Moves(d, c, n) : r.kind \in {"exchange", "tax"} /\ r.amount \in Int
    BY MovesAre
  <1>8. Priced(Q) /\ \A p \in Q : p.kind \in {"pair", "exchange", "tax"}
    <2>1. \A p \in P : p.kind \in {"pair", "exchange", "tax"}
      BY DEF Linked, PairRow, MoveInv, RowInv
    <2>2. IsFiniteSet(Q)
      BY <1>3, <1>7, FS_Union DEF Priced
    <2> QED
      BY <1>3, <1>7, <2>1, <2>2 DEF Priced
  <1>9. /\ Left(Q, l) = Base[l] - Paid(Q, l) - Total(Of(Q, "exchange", l))
        /\ Left(P, l) = Base[l] - Paid(P, l) - Total(Of(P, "exchange", l))
        /\ Paid(Q, l) = Paid(P, l)
        /\ Total(Of(P, "exchange", l)) \in Int
    <2>1. \A p \in P : p.kind \in {"pair", "exchange", "tax"}
      BY <1>8
    <2>2. Paid(Q, l) = Paid(P, l)
      BY <1>6 DEF Paid
    <2> QED
      BY <1>3, <1>8, <2>1, <2>2, LeftIs
  <1>10. \A r : r \in partials => r.of # links + 1 /\ r.kind \in {"pair", "exchange", "tax"}
    BY DEF MoveInv, RowInv
  <1>11. x \notin Of(P, "exchange", l) /\ t \notin Of(partials, "tax", l)
    <2>1. x.of = links + 1 /\ x.kind = "exchange" /\ t.of = links + 1
      BY DEF ExchangeRow, TaxRow
    <2>2. PairRow(d, c, n).kind = "pair"
      BY DEF PairRow
    <2>3. \A r \in P : r \in partials \/ r = PairRow(d, c, n)
      BY DEF Linked
    <2> HIDE DEF x, t, P
    <2> QED
      BY <1>10, <2>1, <2>2, <2>3 DEF Of
  <1>12. x.amount = Left(P, l) /\ t.amount = Flip(partials, l, a)
    BY DEF ExchangeRow, TaxRow
  <1> HIDE DEF a, P, K, F, x, t
  <1>13. Priced(Of(P, "exchange", l)) /\ Priced(Of(partials, "tax", l))
    BY <1>3, PricedPart, PricedOf DEF MoveInv, Of
  <1>14. Left(Q, l) = IF l \in K THEN 0 ELSE Left(P, l)
    <2>1. CASE l \in K
      <3>1. Of(Q, "exchange", l) = Of(P, "exchange", l) \cup {x}
        BY <1>6, <2>1
      <3>2. x.amount \in Int
        BY <1>1, <1>2, <1>3, <1>12
      <3>3. Total(Of(Q, "exchange", l)) = Total(Of(P, "exchange", l)) + Left(P, l)
        BY <1>11, <1>12, <1>13, <3>1, <3>2, TotalAdd
      <3> QED
        BY <1>1, <1>2, <1>3, <1>9, <2>1, <3>3
    <2>2. CASE l \notin K
      <3>1. Of(Q, "exchange", l) = Of(P, "exchange", l)
        BY <1>6, <2>2
      <3> QED
        BY <1>9, <2>2, <3>1
    <2> QED
      BY <2>1, <2>2
  <1>15. Flipped(Q, l) = Flipped(partials, l) + IF l \in F THEN Flip(partials, l, a) ELSE 0
    <2>0. Flipped(Q, l) = Total(Of(Q, "tax", l))
      BY DEF Flipped, Of
    <2>1. CASE l \in F
      <3>1. Of(Q, "tax", l) = Of(partials, "tax", l) \cup {t}
        BY <1>6, <2>1
      <3>2. t.amount \in Int
        BY <1>4, <1>5, <1>12, <2>1
      <3>3. Total(Of(Q, "tax", l)) = Total(Of(partials, "tax", l)) + Flip(partials, l, a)
        BY <1>11, <1>12, <1>13, <3>1, <3>2, TotalAdd
      <3> QED
        BY <1>1, <2>0, <2>1, <3>3
    <2>2. CASE l \notin F
      <3>1. Of(Q, "tax", l) = Of(partials, "tax", l)
        BY <1>6, <2>2
      <3> QED
        BY <1>1, <2>0, <2>2, <3>1
    <2> QED
      BY <2>1, <2>2
  <1>16. Left(Q, l) >= 0
    BY <1>1, <1>2, <1>3, <1>4, <1>14
  <1>17. CASE touched
    <2>1. Paid(Q, l) = Base[l] => a = Left(partials, l)
      BY <1>1, <1>2, <1>3, <1>9, <1>17
    <2>2. CASE l \in F
      BY <1>1, <1>5, <1>15, <1>16, <1>17, <2>1, <2>2
    <2>3. CASE l \notin F
      BY <1>1, <1>4, <1>5, <1>15, <1>16, <1>17, <2>1, <2>3
    <2> QED
      BY <2>2, <2>3
  <1>18. CASE ~touched
    BY <1>1, <1>3, <1>4, <1>9, <1>15, <1>16, <1>18
  <1> QED
    BY <1>17, <1>18

LEMMA LinkKeeps ==
    ASSUME MoveInv, NEW d \in Invoice, NEW c \in Payment, NEW n \in Request, LinkPair(d, c, n)
    PROVE  MoveInv'
  <1> DEFINE M == Moves(d, c, n)
             row == PairRow(d, c, n)
  <1>1. /\ Applied(d, c, n) > 0
        /\ partials' = Linked(d, c, n) \cup M
        /\ generated' = generated \cup M
        /\ links' = links + 1 /\ reversed' = reversed
    BY LinkIs
  <1>2. /\ IsFiniteSet(M)
        /\ \A x \in M : /\ x.of = links + 1 /\ x.kind \in {"exchange", "tax"}
                        /\ x.amount \in Int /\ x.amount > 0
                        /\ x.lines \subseteq {d, c}
    BY <1>1, MovesAre
  <1>3. Linked(d, c, n) = partials \cup {row}
    BY DEF Linked
  <1>4. /\ row.of = links + 1 /\ row.kind = "pair" /\ row.lines = {d, c}
        /\ row.amount = Applied(d, c, n) /\ Applied(d, c, n) \in Nat
    BY <1>1, AppliedIs DEF PairRow
  <1>5. PaidInv'
    <2>1. \A l \in Document : /\ Left(partials', l) >= 0
                              /\ Flipped(partials', l) <= Tax[l]
                              /\ Paid(partials', l) = Base[l] => Flipped(partials', l) = Tax[l]
      BY <1>1, LinkPaid
    <2> QED
      BY <2>1 DEF PaidInv, Left, Flipped, Paid, Of
  <1> HIDE DEF M, row
  <1>6. RowInv'
    <2>1. IsFiniteSet(partials') /\ IsFiniteSet(generated')
      <3>1. IsFiniteSet(partials \cup {row})
        BY FS_AddElement DEF MoveInv, RowInv
      <3>2. IsFiniteSet(generated)
        BY DEF MoveInv, RowInv
      <3> QED
        BY <1>1, <1>2, <1>3, <3>1, <3>2, FS_Union
    <2>2. reversed' \subseteq generated' /\ links' \in Nat
      BY <1>1 DEF MoveInv, RowInv
    <2>3. \A p \in partials' \cup generated' :
             /\ p.of \in Nat /\ p.of <= links'
             /\ p.amount \in Int /\ p.amount > 0
             /\ p.kind \in {"pair", "exchange", "tax"}
      BY <1>1, <1>2, <1>3, <1>4 DEF MoveInv, RowInv
    <2>4. \A p, q \in partials' : p.of = q.of /\ q.kind = "pair" => p.lines \subseteq q.lines
      <3>1. \A p \in partials' : \/ p \in partials /\ p.of # links + 1
                                 \/ p.of = links + 1 /\ p.lines \subseteq {d, c} /\
                                    (p.kind = "pair" => p.lines = {d, c})
        BY <1>1, <1>2, <1>3, <1>4 DEF MoveInv, RowInv
      <3> QED
        BY <3>1 DEF MoveInv, RowInv
    <2> QED
      BY <2>1, <2>2, <2>3, <2>4 DEF RowInv
  <1>7. BooksInv'
    <2>1. \A x \in M : x \notin generated
      BY <1>2 DEF MoveInv, RowInv
    <2>2. reversed \subseteq generated
      BY DEF MoveInv, RowInv
    <2> QED
      BY <1>1, <1>2, <1>3, <1>4, <2>1, <2>2 DEF MoveInv, BooksInv
  <1> QED
    BY <1>5, <1>6, <1>7 DEF MoveInv

\* What a caller takes out by its pairs takes all its moves with it; a line that
\* loses a pair is no longer paid in full, and any other keeps its rows.
LEMMA UnlinkKeeps ==
    ASSUME MoveInv, NEW S, S \subseteq partials, \A q \in S : q.kind = "pair", UnlinkMoves(S)
    PROVE  MoveInv'
  <1> DEFINE C == MoveClosure(S)
  <1>1. /\ partials' = partials \ C /\ generated' = generated /\ links' = links
        /\ reversed' = reversed \cup {j \in generated : \E q \in S : q.kind = "pair" /\ j.of = q.of}
    BY DEF UnlinkMoves
  <1>2. \A p \in partials : p \in C <=> p \in S \/ \E q \in S : q.kind = "pair" /\ p.of = q.of
    BY DEF MoveClosure
  <1> HIDE DEF C
  <1>3. RowInv'
    <2>1. IsFiniteSet(partials')
      BY <1>1, FS_Subset DEF MoveInv, RowInv
    <2> QED
      BY <1>1, <2>1 DEF MoveInv, RowInv
  <1>4. BooksInv'
    BY <1>1, <1>2 DEF MoveInv, BooksInv, RowInv
  <1>5. ASSUME NEW l \in Document
        PROVE  /\ Left(partials', l) >= 0
               /\ Flipped(partials', l) <= Tax[l]
               /\ Paid(partials', l) = Base[l] => Flipped(partials', l) = Tax[l]
    <2> DEFINE Q == partials \ C
    <2>1. Q = partials' /\ Q \subseteq partials
      BY <1>1
    <2>2. /\ Priced(partials) /\ Priced(Q)
          /\ \A k, i : Priced(Of(partials, k, i)) /\ Priced(Of(Q, k, i))
      <3>1. Priced(partials) /\ \A k, i : Priced(Of(partials, k, i))
        BY PricedOf DEF MoveInv
      <3>2. Priced(Q)
        BY <2>1, <3>1, PricedPart
      <3>3. \A k, i : Priced(Of(Q, k, i))
        <4> HIDE DEF Q
        <4> QED
          BY <3>2, PricedPart DEF Of
      <3> QED
        BY <3>1, <3>2, <3>3
    <2>3. \A p \in partials : p.amount > 0 /\ p.kind \in {"pair", "exchange", "tax"}
      BY DEF MoveInv, RowInv
    <2>4. \A k : Of(Q, k, l) \subseteq Of(partials, k, l)
      BY <2>1 DEF Of
    <2>5. ASSUME NEW k PROVE /\ Total(Of(Q, k, l)) \in Int /\ Total(Of(partials, k, l)) \in Int
                             /\ Total(Of(Q, k, l)) <= Total(Of(partials, k, l))
                             /\ Of(Q, k, l) # Of(partials, k, l) =>
                                   Total(Of(Q, k, l)) < Total(Of(partials, k, l))
      <3>1. /\ Priced(Of(partials, k, l)) /\ Priced(Of(Q, k, l))
            /\ Of(Q, k, l) \subseteq Of(partials, k, l)
        BY <2>2, <2>4
      <3>2. \A p \in Of(partials, k, l) : p.amount > 0
        BY <2>3 DEF Of
      <3>3. Of(Q, k, l) # Of(partials, k, l) => Total(Of(Q, k, l)) < Total(Of(partials, k, l))
        BY <3>1, <3>2, TotalLess
      <3> QED
        BY <3>1, <3>3, TotalType
    <2> HIDE DEF Q
    <2>6. Left(Q, l) = Base[l] - Paid(Q, l) - Total(Of(Q, "exchange", l))
      BY <2>1, <2>2, <2>3, LeftIs
    <2>7. Left(Q, l) >= 0
      BY <2>5, <2>6, TotalsNow, LineType DEF Paid
    <2>8. Flipped(Q, l) = Total(Of(Q, "tax", l))
      BY DEF Flipped, Of
    <2>9. Flipped(Q, l) <= Tax[l]
      BY <2>5, <2>8, TotalsNow, LineType
    <2>10. ASSUME Paid(Q, l) = Base[l] PROVE Flipped(Q, l) = Tax[l]
      <3>1. Of(Q, "pair", l) = Of(partials, "pair", l)
        BY <2>5, <2>10, TotalsNow, LineType DEF Paid
      <3>2. \A q \in S : l \notin q.lines
        <4>1. \A q \in S : q \in C /\ q \in partials /\ q.kind = "pair"
          BY <1>2
        <4> QED
          BY <2>1, <1>1, <3>1, <4>1 DEF Of
      <3>3. \A p \in partials : p \in C => l \notin p.lines
        BY <1>2, <3>2 DEF MoveInv, RowInv
      <3>4. Of(Q, "tax", l) = Of(partials, "tax", l)
        BY <2>1, <1>1, <3>3 DEF Of
      <3>5. Paid(partials, l) = Base[l]
        BY <2>10, <3>1 DEF Paid
      <3> QED
        BY <2>8, <3>4, <3>5, TotalsNow DEF MoveInv, PaidInv
    <2> QED
      BY <2>1, <2>7, <2>9, <2>10
  <1>6. PaidInv'
    BY <1>5 DEF PaidInv, Left, Flipped, Paid, Of
  <1> QED
    BY <1>3, <1>4, <1>6 DEF MoveInv

LEMMA MoveStart == MoveInit => MoveInv
  <1> SUFFICES ASSUME MoveInit PROVE MoveInv
    OBVIOUS
  <1>1. partials = {} /\ generated = {} /\ reversed = {} /\ links = 0
    BY DEF MoveInit
  <1>2. RowInv /\ BooksInv
    BY <1>1, FS_EmptySet DEF RowInv, BooksInv
  <1>3. ASSUME NEW l \in Document
        PROVE  Left(partials, l) = Base[l] /\ Flipped(partials, l) = 0 /\ Paid(partials, l) = 0
    <2>1. /\ {p \in partials : p.kind # "tax" /\ l \in p.lines} = {}
          /\ {p \in partials : p.kind = "tax" /\ l \in p.lines} = {}
          /\ Of(partials, "pair", l) = {}
      BY <1>1 DEF Of
    <2>2. Base[l] \in Int
      BY LineType
    <2>3. Left(partials, l) = Base[l] - Total({}) /\ Flipped(partials, l) = Total({})
      BY <2>1 DEF Left, Flipped
    <2>4. Paid(partials, l) = Total({})
      BY <2>1 DEF Paid
    <2> QED
      BY <2>2, <2>3, <2>4, TotalEmpty
  <1>4. PaidInv
    BY <1>3, LineType DEF PaidInv
  <1> QED
    BY <1>2, <1>4 DEF MoveInv

LEMMA MoveStep ==
    ASSUME Unlinkable \subseteq {"pair"}
    PROVE  MoveInv /\ [MoveNext]_moveVars => MoveInv'
  <1> SUFFICES ASSUME MoveInv, [MoveNext]_moveVars PROVE MoveInv'
    OBVIOUS
  <1>1. ASSUME NEW d \in Invoice, NEW c \in Payment, NEW n \in Request, LinkPair(d, c, n)
        PROVE  MoveInv'
    BY <1>1, LinkKeeps
  <1>2. ASSUME NEW d \in Invoice, NEW c \in Payment, UnlinkBetween(d, c) PROVE MoveInv'
    <2> DEFINE S == {p \in partials : p.kind = "pair" /\ p.lines = {d, c}}
    <2>1. S \subseteq partials /\ (\A q \in S : q.kind = "pair") /\ UnlinkMoves(S)
      BY <1>2 DEF UnlinkBetween
    <2> HIDE DEF S
    <2> QED
      BY <2>1, UnlinkKeeps
  <1>3. ASSUME NEW p \in partials, UnlinkOne(p) PROVE MoveInv'
    <2> DEFINE S == {p}
    <2>1. S \subseteq partials /\ (\A q \in S : q.kind = "pair") /\ UnlinkMoves(S)
      BY <1>3 DEF UnlinkOne
    <2> HIDE DEF S
    <2> QED
      BY <2>1, UnlinkKeeps
  <1>4. ASSUME NEW m, ShutMonth(m) \/ UNCHANGED moveVars PROVE MoveInv'
    <2>1. /\ partials' = partials /\ generated' = generated
          /\ reversed' = reversed /\ links' = links
      BY <1>4 DEF ShutMonth, moveVars
    <2> QED
      BY <2>1 DEF MoveInv, RowInv, BooksInv, PaidInv, Left, Flipped, Paid, Of, Total
  <1> QED
    BY <1>1, <1>2, <1>3, <1>4 DEF MoveNext

\* While callers take out pairs and not what was derived from them, the journals
\* not reversed are those of the live rows, whatever is linked and unlinked.
THEOREM BooksFollow ==
    ASSUME Unlinkable \subseteq {"pair"}
    PROVE  MoveSpec => []BooksFollowPartials
  <1>1. MoveInv => BooksFollowPartials
    <2> SUFFICES ASSUME MoveInv, NEW l \in Document, NEW k \in {"tax", "exchange"}
                 PROVE  Total(Of(generated, k, l)) - Total(Of(reversed, k, l)) = Total(Of(partials, k, l))
      BY DEF BooksFollowPartials, Of
    <2>1. Priced(generated) /\ Priced(partials)
      BY DEF MoveInv, RowInv, Priced
    <2>2. Priced(reversed)
      BY <2>1, PricedPart DEF MoveInv, RowInv
    <2>3. Priced(Of(reversed, k, l)) /\ Priced(Of(partials, k, l))
      BY <2>1, <2>2, PricedPart DEF Of
    <2>4. /\ Of(generated, k, l) = Of(reversed, k, l) \cup Of(partials, k, l)
          /\ Of(reversed, k, l) \cap Of(partials, k, l) = {}
      BY DEF MoveInv, RowInv, BooksInv, Of
    <2> QED
      BY <2>3, <2>4, TotalUnion, TotalType
  <1> QED
    BY <1>1, MoveStart, MoveStep, PTL DEF MoveSpec

\* While callers take out pairs only: for any faces, rates and payments, and however often
\* payments are replaced, the tax flipped is within what was deferred and is all
\* of it once the document is paid.
THEOREM TaxFollows ==
    ASSUME Unlinkable \subseteq {"pair"}
    PROVE  MoveSpec => []TaxFollowsPayment
  <1>1. MoveInv => TaxFollowsPayment
    <2> SUFFICES ASSUME MoveInv, NEW l \in Document
                 PROVE  /\ Flipped(partials, l) \in 0..Tax[l]
                        /\ Total({p \in partials : p.kind = "pair" /\ l \in p.lines}) = Base[l]
                              => Flipped(partials, l) = Tax[l]
      BY DEF TaxFollowsPayment
    <2>1. Flipped(partials, l) \in 0..Tax[l]
      BY TotalsNow, LineType
    <2> QED
      BY <2>1 DEF MoveInv, PaidInv, Paid, Of
  <1> QED
    BY <1>1, MoveStart, MoveStep, PTL DEF MoveSpec

\* Under the same premise no more tax reaches the real account than the document
\* deferred; Settlement_double_tax shows what happens without it.
THEOREM TaxOnce ==
    ASSUME Unlinkable \subseteq {"pair"}
    PROVE  MoveSpec => []TaxNeverTwice
  <1>1. BooksFollowPartials /\ TaxFollowsPayment => TaxNeverTwice
    <2> SUFFICES ASSUME BooksFollowPartials, TaxFollowsPayment, NEW l \in Document
                 PROVE  Total(Of(generated, "tax", l)) - Total(Of(reversed, "tax", l)) <= Tax[l]
      BY DEF TaxNeverTwice, Of
    <2>1. Total(Of(generated, "tax", l)) - Total(Of(reversed, "tax", l)) = Total(Of(partials, "tax", l))
      BY DEF BooksFollowPartials, Of
    <2>2. Total(Of(partials, "tax", l)) \in 0..Tax[l]
      BY DEF TaxFollowsPayment, Flipped, Of
    <2> QED
      BY <2>1, <2>2, LineType
  <1> QED
    BY <1>1, BooksFollow, TaxFollows, PTL

-----------------------------------------------------------------------------
(* Bank reconciliation.  The loop is a recursive function; what it has     *)
(* matched after n lines is shown by induction on n.                       *)

\* The entries a set of matches takes.
Taken(M) == {p.entry : p \in M}

\* What the loop makes of the matches so far when it comes to line n.
WithLine(book, ls, n, M) ==
    LET fits == Hit(book \ Taken(M), ls[n])
    IN  M \cup IF fits = {} THEN {} ELSE {[line |-> n, entry |-> Min(fits)]}

IsMatching(s, book, ls) ==
    s = [n \in 0..Len(ls) |-> IF n = 0 THEN {} ELSE WithLine(book, ls, n, s[n - 1])]

LEMMA MatchedIs ==
    ASSUME NEW book, NEW ls
    PROVE  Matched(book, ls) = (CHOOSE s : IsMatching(s, book, ls))[Len(ls)]
  BY DEF Matched, IsMatching, WithLine, Taken

\* A line takes one free entry of its amount, one it names if there is one, or
\* there was none.
TakesNone(book, ls, n, M) ==
    WithLine(book, ls, n, M) = M /\ Candidates(book \ Taken(M), ls[n]) = {}
Takes(book, ls, n, M, e) ==
    /\ e \in book \ Taken(M)
    /\ WithLine(book, ls, n, M) = M \cup {[line |-> n, entry |-> e]}
    /\ EntryAmount[e] = ls[n].amount
    /\ SameReference(book \ Taken(M), ls[n]) # {} => EntryRef[e] = ls[n].ref

LEMMA LineTakes ==
    ASSUME NEW book \in SUBSET Entry, NEW ls, NEW n, NEW M
    PROVE  TakesNone(book, ls, n, M) \/ \E e : Takes(book, ls, n, M, e)
  <1> DEFINE free == book \ Taken(M)
             fits == Hit(free, ls[n])
  <1>1. /\ fits \subseteq free
        /\ \A e \in fits : /\ EntryAmount[e] = ls[n].amount
                           /\ SameReference(free, ls[n]) # {} => EntryRef[e] = ls[n].ref
        /\ fits = {} => Candidates(free, ls[n]) = {}
    BY DEF Hit, SameReference, Candidates
  <1>2. WithLine(book, ls, n, M) =
            M \cup IF fits = {} THEN {} ELSE {[line |-> n, entry |-> Min(fits)]}
    BY DEF WithLine
  <1> HIDE DEF fits
  <1>3. CASE fits = {}
    BY <1>1, <1>2, <1>3 DEF TakesNone
  <1>4. CASE fits # {}
    <2>1. IsFiniteSet(fits) /\ \A e \in fits : e \in Int
      <3>1. fits \subseteq Entry
        BY <1>1
      <3> QED
        BY <3>1, BankAssumption, FS_Subset
    <2>2. Min(fits) \in fits
      BY <1>4, <2>1, Least
    <2>3. WithLine(book, ls, n, M) = M \cup {[line |-> n, entry |-> Min(fits)]}
      BY <1>2, <1>4
    <2> QED
      BY <1>1, <2>2, <2>3 DEF Takes
  <1> QED
    BY <1>3, <1>4

Matches(book, ls) == SUBSET [line : DOMAIN ls, entry : book]

LEMMA LineStays ==
    ASSUME NEW book \in SUBSET Entry, NEW ls, NEW n \in DOMAIN ls, NEW M \in Matches(book, ls)
    PROVE  WithLine(book, ls, n, M) \in Matches(book, ls)
  <1>1. CASE TakesNone(book, ls, n, M)
    BY <1>1 DEF TakesNone
  <1>2. ASSUME NEW e, Takes(book, ls, n, M, e) PROVE WithLine(book, ls, n, M) \in Matches(book, ls)
    BY <1>2 DEF Takes, Matches
  <1> QED
    BY <1>1, <1>2, LineTakes

\* The loop is well defined.
LEMMA MatchingRuns ==
    ASSUME NEW book \in SUBSET Entry, NEW ls \in Seq(StatementLine)
    PROVE  \E s \in [0..Len(ls) -> Matches(book, ls)] :
              /\ s[0] = {}
              /\ \A n \in 1..Len(ls) : s[n] = WithLine(book, ls, n, s[n - 1])
              /\ Matched(book, ls) = s[Len(ls)]
  <1> DEFINE V == Matches(book, ls)
             empty == {}
             g == [k \in (1..Len(ls)) \X V |-> WithLine(book, ls, k[1], k[2])]
             L == Len(ls)
  <1>1. L \in Nat /\ DOMAIN ls = 1..L /\ empty \in V
    BY DEF Matches
  <1>2. \A k \in 1..L, v \in V : g[<<k, v>>] = WithLine(book, ls, k, v) /\ g[<<k, v>>] \in V
    BY <1>1, LineStays
  <1> HIDE DEF g, V, empty
  <1>3. PICK t \in [0..L -> V] : Iterated(t, empty, g, L)
    <2> HIDE DEF L
    <2> QED
      BY <1>1, <1>2, Iterates
  <1>4. ASSUME NEW s PROVE IsMatching(s, book, ls) =>
                              /\ s = [k \in 0..L |-> IF k = 0 THEN {} ELSE WithLine(book, ls, k, s[k - 1])]
    BY DEF IsMatching
  <1>5. \A k \in 1..L : k - 1 \in 0..L /\ k \in 0..L /\ k # 0
    BY <1>1
  <1>6. IsMatching(t, book, ls)
    <2>1. t = [k \in 0..L |-> IF k = 0 THEN empty ELSE g[<<k, t[k - 1]>>]]
      BY <1>3 DEF Iterated
    <2>2. \A k \in 0..L : (IF k = 0 THEN empty ELSE g[<<k, t[k - 1]>>])
                            = (IF k = 0 THEN {} ELSE WithLine(book, ls, k, t[k - 1]))
      <3> SUFFICES ASSUME NEW k \in 0..L, k # 0
                   PROVE  g[<<k, t[k - 1]>>] = WithLine(book, ls, k, t[k - 1])
        BY DEF empty
      <3>1. k \in 1..L /\ t[k - 1] \in V
        BY <1>1, <1>3
      <3> QED
        BY <1>2, <3>1
    <2> QED
      BY <2>1, <2>2 DEF IsMatching
  <1> DEFINE s == CHOOSE x : IsMatching(x, book, ls)
  <1>7. IsMatching(s, book, ls)
    BY <1>6
  <1>8. Matched(book, ls) = s[L]
    BY MatchedIs
  <1> HIDE DEF s
  <1>9. s[0] = {} /\ \A n \in 1..L : s[n] = WithLine(book, ls, n, s[n - 1])
    BY <1>1, <1>5, <1>7 DEF IsMatching
  <1>10. s \in [0..L -> V]
    <2>1. DOMAIN s = 0..L /\ s = [k \in 0..L |-> s[k]]
      BY <1>7 DEF IsMatching
    <2>2. \A n \in 0..L : s[n] \in V
      <3> DEFINE Bad == {n \in 0..L : s[n] \notin V}
      <3> SUFFICES ASSUME Bad # {} PROVE FALSE
        OBVIOUS
      <3>1. PICK n \in Bad : \A j \in Bad : n <= j
        <4>1. Bad \in SUBSET Nat
          OBVIOUS
        <4> HIDE DEF Bad
        <4> QED
          BY <4>1, SmallestNumber
      <3>2. n # 0
        BY <1>1, <1>9, <3>1 DEF empty
      <3>3. n \in 1..L /\ n - 1 \in 0..L /\ ~(n <= n - 1)
        BY <3>1, <3>2
      <3>4. s[n - 1] \in V
        BY <3>1, <3>3
      <3>5. s[n] \in V
        BY <1>1, <1>9, <3>3, <3>4, LineStays DEF V
      <3> QED
        BY <3>1, <3>5
    <2> QED
      BY <2>1, <2>2
  <1> QED
    BY <1>8, <1>9, <1>10 DEF V

-----------------------------------------------------------------------------
Naming(ls, n, e) == EntryAmount[e] = ls[n].amount /\ EntryRef[e] = ls[n].ref

\* Each line names an entry of its own.
WellNamed(book, ls) ==
    \A n \in DOMAIN ls :
        /\ ls[n].ref # NoRef /\ \E e \in book : Naming(ls, n, e)
        /\ \A k \in DOMAIN ls : k # n => ls[k] # ls[n]

\* What holds of the matches of the first n lines.
Greedy(book, ls, n, M) ==
    /\ M \in Matches(book, ls)
    /\ \A p \in M : p.line <= n /\ EntryAmount[p.entry] = ls[p.line].amount
    /\ \A p, q \in M : p.entry = q.entry => p = q
    /\ \A k \in 1..n : (\E p \in M : p.line = k) \/ Candidates(book \ Taken(M), ls[k]) = {}
    /\ WellNamed(book, ls) => \A p \in M : Naming(ls, p.line, p.entry)

\* Where lines name entries of their own, none has taken the entry of a later
\* line.
LEMMA NamedIsFree ==
    ASSUME NEW book \in SUBSET Entry, NEW ls \in Seq(StatementLine), NEW n \in 1..Len(ls),
           NEW M, Greedy(book, ls, n - 1, M), WellNamed(book, ls)
    PROVE  SameReference(book \ Taken(M), ls[n]) # {}
  <1>1. n \in DOMAIN ls /\ DOMAIN ls = 1..Len(ls) /\ Len(ls) \in Nat
    OBVIOUS
  <1>2. PICK e \in book : Naming(ls, n, e) /\ ls[n].ref # NoRef
    BY <1>1 DEF WellNamed
  <1>3. ASSUME NEW p \in M, p.entry = e PROVE FALSE
    <2>1. Naming(ls, p.line, p.entry) /\ p.line \in DOMAIN ls /\ p.line <= n - 1 /\ p.line \in 1..Len(ls)
      BY <1>1 DEF Greedy, Matches
    <2>2. p.line # n
      BY <1>1, <2>1
    <2>3. ls[p.line] # ls[n]
      BY <1>1, <2>1, <2>2 DEF WellNamed
    <2>4. ls[p.line].amount = ls[n].amount /\ ls[p.line].ref = ls[n].ref
      BY <1>2, <1>3, <2>1 DEF Naming
    <2>5. ls[p.line] \in StatementLine /\ ls[n] \in StatementLine
      BY <1>1, <2>1
    <2>6. /\ ls[p.line] = [amount |-> ls[p.line].amount, ref |-> ls[p.line].ref]
          /\ ls[n] = [amount |-> ls[n].amount, ref |-> ls[n].ref]
      BY <2>5, BankAssumption
    <2> QED
      BY <2>3, <2>4, <2>6
  <1>4. e \in book \ Taken(M)
    BY <1>3 DEF Taken
  <1> QED
    BY <1>2, <1>4 DEF SameReference, Candidates, Naming

LEMMA GreedyStep ==
    ASSUME NEW book \in SUBSET Entry, NEW ls \in Seq(StatementLine), NEW n \in 1..Len(ls),
           NEW M, Greedy(book, ls, n - 1, M)
    PROVE  Greedy(book, ls, n, WithLine(book, ls, n, M))
  <1> DEFINE N == WithLine(book, ls, n, M)
             free == book \ Taken(M)
  <1>1. n \in DOMAIN ls /\ DOMAIN ls = 1..Len(ls) /\ Len(ls) \in Nat /\ n \in Nat
    OBVIOUS
  <1>2. N \in Matches(book, ls)
    BY <1>1, LineStays DEF Greedy
  <1>3. \A p \in M : p.line \in Nat /\ p.line <= n - 1 /\ p.line <= n
    BY <1>1 DEF Greedy, Matches
  <1>4. \A k \in 1..n : k = n \/ k \in 1..(n - 1)
    BY <1>1
  <1>5. CASE TakesNone(book, ls, n, M)
    <2>1. N = M /\ Candidates(book \ Taken(M), ls[n]) = {}
      BY <1>5 DEF TakesNone
    <2> HIDE DEF N
    <2>2. \A k \in 1..n : (\E p \in N : p.line = k) \/ Candidates(book \ Taken(N), ls[k]) = {}
      BY <1>4, <2>1 DEF Greedy
    <2>3. \A p \in N : p.line <= n /\ EntryAmount[p.entry] = ls[p.line].amount
      BY <1>3, <2>1 DEF Greedy
    <2>4. \A p, q \in N : p.entry = q.entry => p = q
      BY <2>1 DEF Greedy
    <2>5. WellNamed(book, ls) => \A p \in N : Naming(ls, p.line, p.entry)
      BY <2>1 DEF Greedy
    <2>6. Greedy(book, ls, n, N)
      BY <1>2, <2>2, <2>3, <2>4, <2>5 DEF Greedy
    <2> QED
      BY <2>6 DEF N
  <1>6. ASSUME NEW e, Takes(book, ls, n, M, e) PROVE Greedy(book, ls, n, N)
    <2>0. /\ e \in free /\ N = M \cup {[line |-> n, entry |-> e]}
          /\ EntryAmount[e] = ls[n].amount
          /\ SameReference(free, ls[n]) # {} => EntryRef[e] = ls[n].ref
      BY <1>6 DEF Takes
    <2> DEFINE r == [line |-> n, entry |-> e]
    <2>1. r.line = n /\ r.entry = e /\ N = M \cup {r}
      BY <2>0
    <2> HIDE DEF r, N
    <2>2. \A p \in N : p.line <= n /\ EntryAmount[p.entry] = ls[p.line].amount
      BY <1>1, <1>3, <2>0, <2>1 DEF Greedy
    <2>3. \A p \in M : p.entry # e
      BY <2>0 DEF Taken
    <2>4. \A p, q \in N : p.entry = q.entry => p = q
      BY <2>1, <2>3 DEF Greedy
    <2>5. Taken(M) \subseteq Taken(N) /\ M \subseteq N /\ r \in N
      BY <2>1 DEF Taken
    <2>6. \A k \in 1..n : (\E p \in N : p.line = k) \/ Candidates(book \ Taken(N), ls[k]) = {}
      <3> SUFFICES ASSUME NEW k \in 1..n, k # n
                   PROVE  (\E p \in N : p.line = k) \/ Candidates(book \ Taken(N), ls[k]) = {}
        BY <2>1, <2>5
      <3>1. (\E p \in M : p.line = k) \/ Candidates(book \ Taken(M), ls[k]) = {}
        BY <1>4 DEF Greedy
      <3>2. Candidates(book \ Taken(N), ls[k]) \subseteq Candidates(book \ Taken(M), ls[k])
        BY <2>5 DEF Candidates
      <3> QED
        BY <2>5, <3>1, <3>2
    <2>7. ASSUME WellNamed(book, ls) PROVE \A p \in N : Naming(ls, p.line, p.entry)
      <3>1. EntryRef[e] = ls[n].ref
        BY <2>0, <2>7, NamedIsFree
      <3>2. Naming(ls, n, e)
        BY <2>0, <3>1 DEF Naming
      <3>3. \A p \in M : Naming(ls, p.line, p.entry)
        BY <2>7 DEF Greedy
      <3> QED
        BY <2>1, <3>2, <3>3
    <2> QED
      BY <1>2, <2>2, <2>4, <2>6, <2>7 DEF Greedy
  <1> QED
    BY <1>5, <1>6, LineTakes

LEMMA MatchedIsGreedy ==
    ASSUME NEW book \in SUBSET Entry, NEW ls \in Seq(StatementLine)
    PROVE  Greedy(book, ls, Len(ls), Matched(book, ls))
  <1> DEFINE L == Len(ls)
  <1>1. L \in Nat
    OBVIOUS
  <1>2. PICK s \in [0..L -> Matches(book, ls)] :
           /\ s[0] = {}
           /\ \A n \in 1..L : s[n] = WithLine(book, ls, n, s[n - 1])
           /\ Matched(book, ls) = s[L]
    BY MatchingRuns
  <1> DEFINE Bad == {n \in 0..L : ~Greedy(book, ls, n, s[n])}
  <1>3. Bad = {}
    <2> SUFFICES ASSUME Bad # {} PROVE FALSE
      OBVIOUS
    <2>1. PICK n \in Bad : \A j \in Bad : n <= j
      <3>1. Bad \in SUBSET Nat
        OBVIOUS
      <3> HIDE DEF Bad
      <3> QED
        BY <3>1, SmallestNumber
    <2>2. n # 0
      <3>1. Greedy(book, ls, 0, {})
        BY DEF Greedy, Matches
      <3> QED
        BY <1>2, <2>1, <3>1
    <2>3. n \in 1..L /\ n - 1 \in 0..L /\ ~(n <= n - 1)
      BY <2>1, <2>2
    <2>4. Greedy(book, ls, n - 1, s[n - 1])
      BY <2>1, <2>3
    <2>5. Greedy(book, ls, n, s[n])
      BY <1>2, <2>3, <2>4, GreedyStep
    <2> QED
      BY <2>1, <2>5
  <1>4. L \in 0..L
    BY <1>1
  <1>5. L \notin Bad
    <2> HIDE DEF Bad
    <2> QED
      BY <1>3
  <1> QED
    BY <1>2, <1>4, <1>5

-----------------------------------------------------------------------------
\* A call that is done has the matches of what it read.
BankInv ==
    /\ phase \in [Statement -> {"new", "read", "done"}]
    /\ sLines \in [Statement -> Seq(StatementLine)]
    /\ bookRead \in [Statement -> SUBSET Entry]
    /\ DOMAIN pairs = Statement
    /\ \A s \in Statement : phase[s] = "done" => pairs[s] = Matched(bookRead[s], sLines[s])

LEMMA BankStart == BankInit => BankInv
  BY DEF BankInit, BankInv

LEMMA BankStep == BankInv /\ [BankNext]_bankVars => BankInv'
  <1> SUFFICES ASSUME BankInv, [BankNext]_bankVars PROVE BankInv'
    OBVIOUS
  <1>1. ASSUME NEW s \in Statement, NEW n \in 0..MaxStatement,
               NEW ls \in [1..n -> StatementLine], ReadBook(s, ls)
        PROVE  BankInv'
    <2>1. ls \in Seq(StatementLine)
      BY BankAssumption
    <2>2. {e \in Entry : clearedBy[e] = NoRef} \in SUBSET Entry
      OBVIOUS
    <2>3. /\ phase' \in [Statement -> {"new", "read", "done"}]
          /\ sLines' \in [Statement -> Seq(StatementLine)]
          /\ bookRead' \in [Statement -> SUBSET Entry]
          /\ pairs' = pairs
      BY <1>1, <2>1 DEF ReadBook, BankInv
    <2>4. \A i \in Statement : phase'[i] = "done" =>
             /\ phase[i] = "done" /\ bookRead'[i] = bookRead[i] /\ sLines'[i] = sLines[i]
      BY <1>1 DEF ReadBook, BankInv
    <2> QED
      BY <2>3, <2>4 DEF BankInv
  <1>2. ASSUME NEW s \in Statement, CommitMatches(s) PROVE BankInv'
    BY <1>2 DEF CommitMatches, BankInv
  <1>3. CASE UNCHANGED bankVars
    BY <1>3 DEF bankVars, BankInv
  <1> QED
    BY <1>1, <1>2, <1>3 DEF BankNext

\* Greedy matches leave no line and entry of one amount both open, take nothing
\* twice, and give each line the entry it names.
LEMMA GreedyIsMaximal ==
    ASSUME NEW book \in SUBSET Entry, NEW ls \in Seq(StatementLine), NEW M,
           Greedy(book, ls, Len(ls), M)
    PROVE  /\ \A n \in DOMAIN ls, e \in book :
                 (\A p \in M : p.line # n) /\ (\A p \in M : p.entry # e) =>
                     EntryAmount[e] # ls[n].amount
           /\ Cardinality({e \in book : \A p \in M : p.entry # e}) + Cardinality(M)
                 = Cardinality(book)
  <1>1. DOMAIN ls = 1..Len(ls)
    OBVIOUS
  <1>2. \A n \in DOMAIN ls, e \in book :
           (\A p \in M : p.line # n) /\ (\A p \in M : p.entry # e) => EntryAmount[e] # ls[n].amount
    BY <1>1 DEF Greedy, Candidates, Taken
  <1> DEFINE left == {e \in book : \A p \in M : p.entry # e}
             h == [e \in Taken(M) |-> CHOOSE p \in M : p.entry = e]
  <1>3. Taken(M) \subseteq book /\ left = book \ Taken(M)
    BY DEF Greedy, Matches, Taken
  <1>4. IsFiniteSet(book)
    BY BankAssumption, FS_Subset
  <1>5. IsFiniteSet(Taken(M))
    BY <1>3, <1>4, FS_Subset
  <1>6. h \in Bijection(Taken(M), M)
    <2>1. \A e \in Taken(M) : h[e] \in M /\ h[e].entry = e
      BY DEF Taken
    <2>2. h \in [Taken(M) -> M]
      BY <2>1
    <2>3. \A p \in M : p.entry \in Taken(M) /\ h[p.entry] = p
      <3>1. \A p \in M : p.entry \in Taken(M)
        BY DEF Taken
      <3> HIDE DEF h
      <3> QED
        BY <2>1, <3>1 DEF Greedy
    <2> HIDE DEF h
    <2> QED
      BY <2>1, <2>2, <2>3 DEF Bijection, Injection, Surjection, IsInjective
  <1>7. Cardinality(M) = Cardinality(Taken(M))
    <2>1. ExistsBijection(Taken(M), M)
      BY <1>6 DEF ExistsBijection
    <2> QED
      BY <1>5, <2>1, FS_Bijection
  <1> HIDE DEF left
  <1>8. Cardinality(left) = Cardinality(book) - Cardinality(book \cap Taken(M))
    BY <1>3, <1>4, FS_Difference
  <1>9. book \cap Taken(M) = Taken(M)
    BY <1>3
  <1>10. Cardinality(book) \in Nat /\ Cardinality(Taken(M)) \in Nat
    BY <1>4, <1>5, FS_CardinalityType
  <1>11. Cardinality(book \cap Taken(M)) = Cardinality(M)
    BY <1>7, <1>9
  <1>12. Cardinality(left) + Cardinality(M) = Cardinality(book)
    BY <1>7, <1>8, <1>10, <1>11
  <1> QED
    BY <1>2, <1>12 DEF left

\* However long the statement and the book, and whatever other statements do in
\* between: a match is maximal, takes nothing twice and respects the references.
THEOREM MatchMaximal == BankSpec => []MatchIsMaximal
  <1>1. BankInv => MatchIsMaximal
    <2> SUFFICES ASSUME BankInv, NEW s \in Statement, phase[s] = "done"
                 PROVE  LET ls == sLines[s]
                            Names(n, e) == EntryAmount[e] = ls[n].amount /\ EntryRef[e] = ls[n].ref
                            open == {n \in DOMAIN ls : \A p \in pairs[s] : p.line # n}
                            left == {e \in bookRead[s] : \A p \in pairs[s] : p.entry # e}
                        IN  /\ \A n \in open, e \in left : EntryAmount[e] # ls[n].amount
                            /\ Cardinality(left) + Cardinality(pairs[s]) = Cardinality(bookRead[s])
                            /\ \A p \in pairs[s] : EntryAmount[p.entry] = ls[p.line].amount
                            /\ (\A n \in DOMAIN ls :
                                    /\ ls[n].ref # NoRef /\ \E e \in bookRead[s] : Names(n, e)
                                    /\ \A k \in DOMAIN ls : k # n => ls[k] # ls[n])
                               => \A p \in pairs[s] : Names(p.line, p.entry)
      BY DEF MatchIsMaximal
    <2> DEFINE ls == sLines[s]
               book == bookRead[s]
               M == pairs[s]
    <2>1. ls \in Seq(StatementLine) /\ book \in SUBSET Entry /\ M = Matched(book, ls)
      BY DEF BankInv
    <2> HIDE DEF ls, book, M
    <2>2. Greedy(book, ls, Len(ls), M)
      BY <2>1, MatchedIsGreedy
    <2>3. /\ \A n \in DOMAIN ls, e \in book :
                 (\A p \in M : p.line # n) /\ (\A p \in M : p.entry # e) =>
                     EntryAmount[e] # ls[n].amount
          /\ Cardinality({e \in book : \A p \in M : p.entry # e}) + Cardinality(M)
                 = Cardinality(book)
      BY <2>1, <2>2, GreedyIsMaximal
    <2>4. /\ \A p \in M : EntryAmount[p.entry] = ls[p.line].amount
          /\ WellNamed(book, ls) => \A p \in M : Naming(ls, p.line, p.entry)
      BY <2>2 DEF Greedy
    <2> QED
      BY <2>3, <2>4 DEF WellNamed, Naming, ls, book, M
  <1> QED
    BY <1>1, BankStart, BankStep, PTL DEF BankSpec

-----------------------------------------------------------------------------
(* Reports, open items.  Every link is on one debit and one credit line    *)
(* that are there by its date, and none is linked beyond its amount.       *)

LastDate == Max(Dates)

\* The rows of a receivable line's links, and the receivable's lines of a date.
LinksOf(e, asOf) == {q \in linked : q.max_date <= asOf /\ e \in {q.debit, q.credit}}
LinksBy(asOf) == {q \in linked : q.max_date <= asOf}
Owed(asOf) == {e \in Items(asOf) : e.debit = Receivable}
Owing(asOf) == {e \in Items(asOf) : e.credit = Receivable}

LedgerInv ==
    /\ posted \in Seq(Entries)
    /\ \A i, j \in DOMAIN posted : posted[i] = posted[j] => i = j
    /\ parent \in [Node -> Node \cup {NoAccount}]

JournalInv == IsFiniteSet(journals) /\ journals \subseteq Entries /\ InLedger \subseteq journals

LinkInv ==
    /\ IsFiniteSet(linked)
    /\ \A p \in linked :
          /\ p.debit \in InLedger /\ p.credit \in InLedger
          /\ p.debit.debit = Receivable /\ p.credit.credit = Receivable
          /\ p.amount \in Int /\ p.amount > 0
          /\ p.max_date \in Nat /\ p.max_date <= LastDate
          /\ p.debit.transaction <= p.max_date /\ p.credit.transaction <= p.max_date

NotOverLinked == \A e \in journals : LinkedTo(e, LastDate) <= e.amount

ReportInv == LedgerInv /\ JournalInv /\ LinkInv /\ NotOverLinked

LEMMA DatesAre ==
    /\ LastDate \in Dates /\ LastDate \in Nat
    /\ \A d \in Dates : d \in Nat /\ d <= LastDate
  <1>1. \A d \in Dates : d \in Int
    BY EntryAssumption
  <1>2. IsFiniteSet(Dates) /\ Dates # {}
    BY EntryAssumption
  <1>3. Max(Dates) \in Dates /\ \A d \in Dates : d <= Max(Dates)
    BY <1>1, <1>2, Greatest
  <1> QED
    BY <1>3, EntryAssumption DEF LastDate

LEMMA EntriesAre ==
    \A e \in Entries :
        /\ e.date \in Nat /\ e.date <= LastDate
        /\ e.transaction \in Nat /\ e.transaction <= LastDate
        /\ e.debit # e.credit /\ e.amount \in Nat /\ e.amount > 0
  <1> SUFFICES ASSUME NEW e \in Entries
               PROVE  /\ e.date \in Nat /\ e.date <= LastDate
                      /\ e.transaction \in Nat /\ e.transaction <= LastDate
                      /\ e.debit # e.credit /\ e.amount \in Nat /\ e.amount > 0
    OBVIOUS
  <1>1. e.date \in Dates /\ e.transaction \in Dates /\ e.debit # e.credit /\ e.amount \in Nat \ {0}
    BY EntryAssumption
  <1>2. \A d \in Dates : d \in Nat /\ d <= LastDate
    BY DatesAre
  <1>3. e.amount \in Nat /\ e.amount > 0
    BY <1>1
  <1> QED
    BY <1>1, <1>2, <1>3

LEMMA LedgerIs ==
    ASSUME LedgerInv
    PROVE  /\ IsFiniteSet(InLedger)
           /\ \A e \in InLedger :
                 /\ e \in Entries /\ e.date \in Nat /\ e.date <= LastDate
                 /\ e.debit # e.credit /\ e.amount \in Nat /\ e.amount > 0
  <1>1. \A e \in InLedger : e \in Entries
    BY DEF LedgerInv, InLedger
  <1>2. IsFiniteSet(DOMAIN posted)
    <2>1. DOMAIN posted = 1..Len(posted) /\ Len(posted) \in Nat
      BY DEF LedgerInv
    <2> QED
      BY <2>1, FS_Interval
  <1>3. IsFiniteSet(InLedger)
    BY <1>2, FiniteImage DEF InLedger
  <1> QED
    BY <1>1, <1>3, EntriesAre

LEMMA JournalsAre ==
    ASSUME JournalInv
    PROVE  \A e \in journals :
              /\ e \in Entries /\ e.date \in Nat
              /\ e.transaction \in Nat /\ e.transaction <= LastDate
              /\ e.debit # e.credit /\ e.amount \in Nat /\ e.amount > 0 /\ e.amount \in Int
  BY EntriesAre DEF JournalInv

LEMMA MaxTwo ==
    ASSUME NEW a \in Int, NEW b \in Int
    PROVE  Max({a, b}) \in {a, b} /\ Max({a, b}) >= a /\ Max({a, b}) >= b
  <1>1. \E x \in {a, b} : \A y \in {a, b} : x >= y
    OBVIOUS
  <1> QED
    BY <1>1 DEF Max

LEMMA LinksAre ==
    ASSUME LinkInv, NEW asOf
    PROVE  /\ Priced(LinksBy(asOf))
           /\ \A e : Priced(LinksOf(e, asOf)) /\ LinkedTo(e, asOf) = Total(LinksOf(e, asOf))
           /\ \A e : LinkedTo(e, asOf) \in Int
  <1>1. Priced(linked)
    BY DEF LinkInv, Priced
  <1>2. Priced(LinksBy(asOf)) /\ \A e : Priced(LinksOf(e, asOf))
    BY <1>1, PricedPart DEF LinksBy, LinksOf
  <1>3. \A e : LinkedTo(e, asOf) = Total(LinksOf(e, asOf))
    BY DEF LinkedTo, LinksOf, Total
  <1> QED
    BY <1>2, <1>3, TotalType

\* Nothing is linked to a line without a ledger row.
LEMMA UnlinkedUnlessPosted ==
    ASSUME ReportInv, NEW e, e \notin InLedger, NEW asOf
    PROVE  LinkedTo(e, asOf) = 0
  <1>1. LinksOf(e, asOf) = {}
    BY DEF LinksOf, ReportInv, LinkInv
  <1>2. LinkedTo(e, asOf) = Total(LinksOf(e, asOf))
    BY LinksAre DEF ReportInv
  <1> QED
    BY <1>1, <1>2, TotalEmpty

\* The journal of an entry that has no ledger row may be stored, once or again.
LEMMA StoreKeeps ==
    ASSUME ReportInv, NEW e \in Entries, e \notin InLedger,
           journals' = journals \cup {e}, linked' = linked
    PROVE  IsFiniteSet(journals)' /\ (journals \subseteq Entries)' /\ NotOverLinked'
  <1>1. IsFiniteSet(journals')
    BY FS_AddElement DEF ReportInv, JournalInv
  <1>2. journals' \subseteq Entries
    BY DEF ReportInv, JournalInv
  <1>3. \A x : LinkedTo(x, LastDate)' = LinkedTo(x, LastDate)
    BY DEF LinkedTo
  <1>4. LinkedTo(e, LastDate) <= e.amount
    <2>1. LinkedTo(e, LastDate) = 0
      BY UnlinkedUnlessPosted
    <2>2. e.amount \in Nat
      BY EntriesAre
    <2> QED
      BY <2>1, <2>2
  <1> QED
    BY <1>1, <1>2, <1>3, <1>4 DEF ReportInv, NotOverLinked

LEMMA AppendKeeps ==
    ASSUME ReportInv, NEW e \in Entries, e \notin InLedger, posted' = Append(posted, e),
           journals' = journals \cup {e}, linked' = linked, parent' = parent
    PROVE  ReportInv'
  <1>1. /\ DOMAIN posted' = DOMAIN posted \cup {Len(posted) + 1}
        /\ \A i \in DOMAIN posted : posted'[i] = posted[i]
        /\ posted'[Len(posted) + 1] = e
        /\ posted' \in Seq(Entries)
    <2>1. posted \in Seq(Entries)
      BY DEF ReportInv, LedgerInv
    <2> QED
      BY <2>1
  <1>2. InLedger' = InLedger \cup {e}
    BY <1>1 DEF InLedger
  <1>3. LedgerInv'
    <2>1. \A i \in DOMAIN posted : posted[i] # e
      BY DEF InLedger
    <2>2. \A i, j \in DOMAIN posted' : posted'[i] = posted'[j] => i = j
      BY <1>1, <2>1 DEF ReportInv, LedgerInv
    <2> QED
      BY <1>1, <2>2 DEF ReportInv, LedgerInv
  <1>4. LinkInv'
    BY <1>2 DEF ReportInv, LinkInv
  <1>5. JournalInv' /\ NotOverLinked'
    BY <1>2, StoreKeeps DEF JournalInv, ReportInv
  <1> QED
    BY <1>3, <1>4, <1>5 DEF ReportInv

LEMMA PostKeeps ==
    ASSUME ReportInv, NEW e \in Entries, PostEntry(e) \/ PostJournal(e)
    PROVE  ReportInv'
  <1>1. /\ posted' = Append(posted, e) /\ linked' = linked /\ parent' = parent
        /\ e \notin InLedger /\ journals' = journals \cup {e}
    <2>1. CASE PostEntry(e)
      BY <2>1 DEF PostEntry, ReportInv, JournalInv
    <2>2. CASE PostJournal(e)
      BY <2>2 DEF PostJournal
    <2> QED
      BY <2>1, <2>2
  <1> QED
    BY <1>1, AppendKeeps

LEMMA DraftKeeps ==
    ASSUME ReportInv, NEW e \in Entries, DraftJournal(e)
    PROVE  ReportInv'
  <1>1. /\ journals' = journals \cup {e} /\ e \notin journals
        /\ posted' = posted /\ linked' = linked /\ parent' = parent
    BY DEF DraftJournal
  <1>2. InLedger' = InLedger /\ e \notin InLedger
    BY <1>1 DEF InLedger, ReportInv, JournalInv
  <1>3. LedgerInv' /\ LinkInv'
    BY <1>1, <1>2 DEF ReportInv, LedgerInv, LinkInv
  <1>4. JournalInv' /\ NotOverLinked'
    BY <1>1, <1>2, StoreKeeps DEF JournalInv, ReportInv
  <1> QED
    BY <1>3, <1>4 DEF ReportInv

LEMMA LinkEntriesKeeps ==
    ASSUME ReportInv, NEW d \in InLedger, NEW c \in InLedger, LinkEntries(d, c)
    PROVE  ReportInv'
  <1> DEFINE x == ResidualAsOf(d, LastDate)
             y == ResidualAsOf(c, LastDate)
             a == Min({x, y})
             p == [debit |-> d, credit |-> c, amount |-> a, max_date |-> MaxDate(d, c)]
  <1>0. d \in journals /\ c \in journals
    BY DEF ReportInv, JournalInv
  <1>1. /\ d.debit = Receivable /\ c.credit = Receivable /\ a > 0
        /\ linked' = linked \cup {p}
        /\ posted' = posted /\ journals' = journals /\ parent' = parent
    BY DEF LinkEntries, LastDate
  <1>2. \A e \in journals : ResidualAsOf(e, LastDate) = e.amount - LinkedTo(e, LastDate)
                            /\ LinkedTo(e, LastDate) \in Int /\ e.amount \in Int
    BY LinksAre, JournalsAre DEF ReportInv, ResidualAsOf
  <1>3. a \in Int /\ a <= x /\ a <= y
    <2>1. x \in Int /\ y \in Int
      BY <1>0, <1>2
    <2> HIDE DEF x, y
    <2>2. {x, y} = {x, y, y}
      OBVIOUS
    <2> QED
      BY <2>1, <2>2, MinThree
  <1>4. /\ MaxDate(d, c) \in Nat /\ MaxDate(d, c) <= LastDate
        /\ d.transaction <= MaxDate(d, c) /\ c.transaction <= MaxDate(d, c)
    <2>1. d.transaction \in Nat /\ c.transaction \in Nat /\ d.transaction <= LastDate /\ c.transaction <= LastDate
      BY <1>0, JournalsAre DEF ReportInv
    <2>2. \A i, j \in Nat : Max({i, j}) \in {i, j} /\ Max({i, j}) >= i /\ Max({i, j}) >= j
      BY MaxTwo
    <2>3. MaxDate(d, c) = Max({d.transaction, c.transaction})
      BY DEF MaxDate
    <2>4. MaxDate(d, c) \in {d.transaction, c.transaction} /\ MaxDate(d, c) >= d.transaction /\ MaxDate(d, c) >= c.transaction
      BY <2>1, <2>2, <2>3
    <2> QED
      BY <2>1, <2>4
  <1>5. /\ p.debit = d /\ p.credit = c /\ p.amount = a /\ p.max_date = MaxDate(d, c)
    OBVIOUS
  <1> HIDE DEF a, p
  <1>6. LedgerInv' /\ InLedger' = InLedger /\ JournalInv'
    BY <1>1 DEF ReportInv, LedgerInv, InLedger, JournalInv
  <1>7. LinkInv'
    <2>1. IsFiniteSet(linked')
      BY <1>1, FS_AddElement DEF ReportInv, LinkInv
    <2> QED
      BY <1>1, <1>3, <1>4, <1>5, <1>6, <2>1 DEF ReportInv, LinkInv
  <1>8. ASSUME NEW e \in journals PROVE LinkedTo(e, LastDate)' <= e.amount
    <2>1. LinkedTo(e, LastDate) <= e.amount
      BY DEF ReportInv, NotOverLinked
    <2>2. LinkedTo(e, LastDate)' = Total(LinksOf(e, LastDate)')
      BY DEF LinkedTo, LinksOf, Total
    <2>3. /\ LinkedTo(e, LastDate) = Total(LinksOf(e, LastDate))
          /\ Priced(LinksOf(e, LastDate))
      BY LinksAre DEF ReportInv
    <2>4. CASE e \in {d, c} /\ p \notin linked
      <3>1. LinksOf(e, LastDate)' = LinksOf(e, LastDate) \cup {p}
        BY <1>1, <1>4, <1>5, <2>4 DEF LinksOf
      <3>2. p \notin LinksOf(e, LastDate)
        BY <2>4 DEF LinksOf
      <3>3. LinkedTo(e, LastDate)' = LinkedTo(e, LastDate) + a
        BY <1>3, <1>5, <2>2, <2>3, <3>1, <3>2, TotalAdd
      <3>4. a <= ResidualAsOf(e, LastDate)
        BY <1>3, <2>4
      <3> QED
        BY <1>2, <1>3, <3>3, <3>4
    <2>5. CASE ~(e \in {d, c} /\ p \notin linked)
      <3>1. LinksOf(e, LastDate)' = LinksOf(e, LastDate)
        BY <1>1, <1>5, <2>5 DEF LinksOf
      <3> QED
        BY <2>1, <2>2, <2>3, <3>1
    <2> QED
      BY <2>4, <2>5
  <1>9. NotOverLinked'
    BY <1>1, <1>8 DEF NotOverLinked
  <1> QED
    BY <1>6, <1>7, <1>9 DEF ReportInv

LEMMA UnlinkEntriesKeeps ==
    ASSUME ReportInv, NEW P, UnlinkEntries(P)
    PROVE  ReportInv'
  <1>1. /\ linked' = linked \ P
        /\ journals' = journals /\ posted' = posted /\ parent' = parent
    BY DEF UnlinkEntries
  <1>2. LedgerInv' /\ InLedger' = InLedger /\ JournalInv'
    BY <1>1 DEF ReportInv, LedgerInv, InLedger, JournalInv
  <1>3. LinkInv'
    <2>1. IsFiniteSet(linked') /\ linked' \subseteq linked
      BY <1>1, FS_Subset DEF ReportInv, LinkInv
    <2> QED
      BY <1>2, <2>1 DEF ReportInv, LinkInv
  <1>4. ASSUME NEW e \in journals PROVE LinkedTo(e, LastDate)' <= e.amount
    <2>1. /\ LinkedTo(e, LastDate) = Total(LinksOf(e, LastDate))
          /\ Priced(LinksOf(e, LastDate)) /\ LinkedTo(e, LastDate) \in Int
      BY LinksAre DEF ReportInv
    <2>2. LinkedTo(e, LastDate)' = Total(LinksOf(e, LastDate)')
      BY DEF LinkedTo, LinksOf, Total
    <2>3. LinksOf(e, LastDate)' \subseteq LinksOf(e, LastDate)
      BY <1>1 DEF LinksOf
    <2>4. \A p \in LinksOf(e, LastDate) : p.amount > 0
      BY DEF LinksOf, ReportInv, LinkInv
    <2>5. Total(LinksOf(e, LastDate)') <= Total(LinksOf(e, LastDate))
          /\ Total(LinksOf(e, LastDate)') \in Int
      BY <2>1, <2>3, <2>4, TotalLess, TotalType, PricedPart
    <2>6. LinkedTo(e, LastDate) <= e.amount /\ e.amount \in Int
      BY JournalsAre DEF ReportInv, NotOverLinked
    <2> QED
      BY <2>1, <2>2, <2>5, <2>6
  <1> QED
    BY <1>1, <1>2, <1>3, <1>4 DEF ReportInv, NotOverLinked

LEMMA SameLedger ==
    ASSUME ReportInv, journals' = journals, posted' = posted, linked' = linked,
           parent' \in [Node -> Node \cup {NoAccount}]
    PROVE  ReportInv'
  <1>1. InLedger' = InLedger /\ \A e : LinkedTo(e, LastDate)' = LinkedTo(e, LastDate)
    BY DEF InLedger, LinkedTo
  <1>2. LedgerInv' /\ JournalInv' /\ LinkInv'
    BY <1>1 DEF ReportInv, LedgerInv, JournalInv, LinkInv
  <1>3. NotOverLinked'
    BY <1>1 DEF ReportInv, NotOverLinked
  <1> QED
    BY <1>2, <1>3 DEF ReportInv

LEMMA ReportStart == ReportInit => ReportInv
  <1> SUFFICES ASSUME ReportInit PROVE ReportInv
    OBVIOUS
  <1>1. posted = << >> /\ linked = {} /\ journals = {}
    BY DEF ReportInit
  <1>2. InLedger = {} /\ LedgerInv
    BY <1>1 DEF InLedger, LedgerInv, ReportInit
  <1> QED
    BY <1>1, <1>2, FS_EmptySet DEF ReportInv, JournalInv, LinkInv, NotOverLinked

LEMMA ReportStep == ReportInv /\ [ReportNext]_reportVars => ReportInv'
  <1> SUFFICES ASSUME ReportInv, [ReportNext]_reportVars PROVE ReportInv'
    OBVIOUS
  <1>1. ASSUME NEW e \in Entries, PostEntry(e) \/ PostJournal(e) PROVE ReportInv'
    BY <1>1, PostKeeps
  <1>2. ASSUME NEW e \in Entries, DraftJournal(e) PROVE ReportInv'
    BY <1>2, DraftKeeps
  <1>3. ASSUME NEW P \in SUBSET linked, UnlinkEntries(P) PROVE ReportInv'
    BY <1>3, UnlinkEntriesKeeps
  <1>4. ASSUME NEW d \in InLedger, NEW c \in InLedger, LinkEntries(d, c) PROVE ReportInv'
    BY <1>4, LinkEntriesKeeps
  <1>5. ASSUME NEW m \in Parents, MoveAccount(m[1], m[2]) PROVE ReportInv'
    <2>1. m[1] \in Node /\ m[2] \in Node \cup {NoAccount}
      BY DirectoryAssumption DEF Node
    <2>2. parent' \in [Node -> Node \cup {NoAccount}]
      BY <1>5, <2>1 DEF MoveAccount, ReportInv, LedgerInv
    <2> QED
      BY <1>5, <2>2, SameLedger DEF MoveAccount
  <1>6. ASSUME NEW a, DeleteAccount(a) \/ UNCHANGED reportVars PROVE ReportInv'
    <2>1. journals' = journals /\ posted' = posted /\ linked' = linked /\ parent' = parent
      BY <1>6 DEF DeleteAccount, reportVars
    <2> QED
      BY <2>1, SameLedger DEF ReportInv, LedgerInv
  <1> QED
    BY <1>1, <1>2, <1>3, <1>4, <1>5, <1>6 DEF ReportNext

-----------------------------------------------------------------------------
LEMMA ItemsAre ==
    ASSUME ReportInv, NEW asOf \in Dates
    PROVE  /\ IsFiniteSet(Items(asOf)) /\ Priced(Items(asOf))
           /\ Priced(Owed(asOf)) /\ Priced(Owing(asOf))
           /\ Owing(asOf) = Items(asOf) \ Owed(asOf)
           /\ \A e \in Items(asOf) : e \in journals /\ e.amount \in Int
  <1>1. \A e \in journals : e.debit # e.credit /\ e.amount \in Int
    BY JournalsAre DEF ReportInv
  <1>2. Items(asOf) \subseteq journals /\ IsFiniteSet(journals)
    BY DEF ReportInv, JournalInv, Items
  <1>3. IsFiniteSet(Items(asOf))
    BY <1>2, FS_Subset
  <1>4. Priced(Items(asOf))
    BY <1>1, <1>2, <1>3 DEF Priced
  <1>5. Owed(asOf) \subseteq Items(asOf) /\ Owing(asOf) \subseteq Items(asOf)
    BY DEF Owed, Owing
  <1>6. Owing(asOf) = Items(asOf) \ Owed(asOf)
    BY <1>1, <1>2 DEF Owed, Owing, Items
  <1> QED
    BY <1>1, <1>2, <1>3, <1>4, <1>5, <1>6, PricedPart

\* Nothing is below zero on any date: a link of that date is one of the last.
LEMMA ResidualIs ==
    ASSUME ReportInv, NEW asOf \in Dates, NEW e \in journals
    PROVE  ResidualAsOf(e, asOf) \in Int /\ ResidualAsOf(e, asOf) >= 0
  <1>1. /\ Priced(LinksOf(e, asOf)) /\ Priced(LinksOf(e, LastDate))
        /\ LinkedTo(e, asOf) = Total(LinksOf(e, asOf)) /\ LinkedTo(e, asOf) \in Int
        /\ LinkedTo(e, LastDate) = Total(LinksOf(e, LastDate)) /\ LinkedTo(e, LastDate) \in Int
    BY LinksAre DEF ReportInv
  <1>2. asOf \in Nat /\ asOf <= LastDate /\ LastDate \in Nat
    BY DatesAre
  <1>3. LinksOf(e, asOf) \subseteq LinksOf(e, LastDate)
    BY <1>2 DEF LinksOf, ReportInv, LinkInv
  <1>4. \A p \in LinksOf(e, LastDate) : p.amount > 0
    BY DEF LinksOf, ReportInv, LinkInv
  <1>5. LinkedTo(e, asOf) <= LinkedTo(e, LastDate)
    BY <1>1, <1>3, <1>4, TotalLess
  <1>6. LinkedTo(e, LastDate) <= e.amount /\ e.amount \in Int
    BY JournalsAre DEF ReportInv, NotOverLinked
  <1> QED
    BY <1>1, <1>5, <1>6 DEF ResidualAsOf

\* What is left of some lines is what they are less what is linked to them.
LEMMA ResidualsAre ==
    ASSUME ReportInv, NEW asOf \in Dates, NEW S, S \subseteq Items(asOf)
    PROVE  /\ Residuals(S, asOf) = Total(S) - SumFunction([e \in S |-> LinkedTo(e, asOf)])
           /\ Residuals(S, asOf) \in Int
           /\ Total(S) \in Int /\ SumFunction([e \in S |-> LinkedTo(e, asOf)]) \in Int
  <1> DEFINE f == [e \in S |-> e.amount]
             g == [e \in S |-> ResidualAsOf(e, asOf)]
             h == [e \in S |-> LinkedTo(e, asOf)]
  <1>1. IsFiniteSet(S)
    BY ItemsAre, FS_Subset
  <1>2. \A e \in S : /\ e.amount \in Int /\ ResidualAsOf(e, asOf) \in Int /\ LinkedTo(e, asOf) \in Int
                     /\ ResidualAsOf(e, asOf) = e.amount - LinkedTo(e, asOf)
    BY ItemsAre, ResidualIs, LinksAre DEF ResidualAsOf, ReportInv
  <1>3. /\ Summable(f) /\ Summable(g) /\ Summable(h) /\ DOMAIN g = DOMAIN f /\ DOMAIN h = DOMAIN f
        /\ \A x \in DOMAIN f : f[x] = g[x] + h[x]
    BY <1>1, <1>2 DEF Summable
  <1>4. Total(S) = SumFunction(f) /\ Residuals(S, asOf) = SumFunction(g)
    BY DEF Total, Residuals
  <1> HIDE DEF f, g, h
  <1>5. SumFunction(f) = SumFunction(g) + SumFunction(h)
    BY <1>3, SumPlus
  <1>6. SumFunction(f) \in Int /\ SumFunction(g) \in Int /\ SumFunction(h) \in Int
    BY <1>3, SumType
  <1> QED
    BY <1>4, <1>5, <1>6 DEF h

\* Each link is on one line of either side, so what is linked to a side is what
\* is linked at all.
LEMMA SideLinked ==
    ASSUME ReportInv, NEW asOf \in Dates, NEW S, IsFiniteSet(S), NEW side,
           \A q \in LinksBy(asOf) : side[q] \in S,
           \A e \in S, q \in LinksBy(asOf) : e \in {q.debit, q.credit} <=> side[q] = e
    PROVE  SumFunction([e \in S |-> LinkedTo(e, asOf)]) = Total(LinksBy(asOf))
  <1> DEFINE f == [q \in LinksBy(asOf) |-> q.amount]
             g == [e \in S |-> LinkedTo(e, asOf)]
  <1>1. Summable(f) /\ DOMAIN f = LinksBy(asOf)
    <2>1. Priced(LinksBy(asOf))
      BY LinksAre DEF ReportInv
    <2> QED
      BY <2>1 DEF Summable, Priced
  <1>2. ASSUME NEW e \in S PROVE g[e] = SumFunction(Restrict(f, Fiber(f, side, e)))
    <2>1. Fiber(f, side, e) = LinksOf(e, asOf)
      BY DEF Fiber, LinksOf, LinksBy
    <2>2. LinksOf(e, asOf) \subseteq LinksBy(asOf)
      BY DEF LinksOf, LinksBy
    <2>3. Restrict(f, LinksOf(e, asOf)) = [q \in LinksOf(e, asOf) |-> q.amount]
      BY <2>2 DEF Restrict
    <2>4. LinkedTo(e, asOf) = Total(LinksOf(e, asOf))
      BY LinksAre DEF ReportInv
    <2> QED
      BY <2>1, <2>3, <2>4 DEF Total
  <1>3. DOMAIN g = S
    OBVIOUS
  <1>4. Total(LinksBy(asOf)) = SumFunction(f)
    BY DEF Total
  <1> HIDE DEF f, g
  <1>5. SumFunction(g) = SumFunction(f)
    BY <1>1, <1>2, <1>3, SumFibers
  <1> QED
    BY <1>4, <1>5 DEF g

\* A link counted at a date has both its lines in the report of that date.
LEMMA LinksWithinItems ==
    ASSUME ReportInv, NEW asOf \in Dates, NEW q \in LinksBy(asOf)
    PROVE  /\ q.debit \in Owed(asOf) /\ q.credit \in Owing(asOf)
           /\ q.debit.credit # Receivable /\ q.credit.debit # Receivable
  <1>1. asOf \in Nat
    BY DatesAre
  <1>2. /\ q.debit \in journals /\ q.credit \in journals
        /\ q.debit.debit = Receivable /\ q.credit.credit = Receivable
        /\ q.max_date \in Nat /\ q.max_date <= asOf
        /\ q.debit.transaction <= q.max_date /\ q.credit.transaction <= q.max_date
    BY DEF LinksBy, ReportInv, LinkInv, JournalInv
  <1>3. /\ q.debit.transaction \in Nat /\ q.debit.debit # q.debit.credit
        /\ q.credit.transaction \in Nat /\ q.credit.debit # q.credit.credit
    BY <1>2, JournalsAre DEF ReportInv
  <1>4. q.debit.transaction <= asOf /\ q.credit.transaction <= asOf
    BY <1>1, <1>2, <1>3
  <1> QED
    BY <1>2, <1>3, <1>4 DEF Owed, Owing, Items

LEMMA BothSidesLinked ==
    ASSUME ReportInv, NEW asOf \in Dates
    PROVE  /\ SumFunction([e \in Owed(asOf) |-> LinkedTo(e, asOf)]) = Total(LinksBy(asOf))
           /\ SumFunction([e \in Owing(asOf) |-> LinkedTo(e, asOf)]) = Total(LinksBy(asOf))
  <1> DEFINE dr == [q \in LinksBy(asOf) |-> q.debit]
             cr == [q \in LinksBy(asOf) |-> q.credit]
  <1>1. \A q \in LinksBy(asOf) :
            /\ q.debit \in Owed(asOf) /\ q.credit \in Owing(asOf)
            /\ q.debit.credit # Receivable /\ q.credit.debit # Receivable
    BY LinksWithinItems
  <1>2. /\ \A e \in Owed(asOf) : e.debit = Receivable
        /\ \A e \in Owing(asOf) : e.credit = Receivable
    BY DEF Owed, Owing
  <1>3. IsFiniteSet(Owed(asOf)) /\ IsFiniteSet(Owing(asOf))
    BY ItemsAre DEF Priced
  <1>4. /\ \A q \in LinksBy(asOf) : dr[q] \in Owed(asOf)
        /\ \A e \in Owed(asOf), q \in LinksBy(asOf) : e \in {q.debit, q.credit} <=> dr[q] = e
    BY <1>1, <1>2
  <1>5. /\ \A q \in LinksBy(asOf) : cr[q] \in Owing(asOf)
        /\ \A e \in Owing(asOf), q \in LinksBy(asOf) : e \in {q.debit, q.credit} <=> cr[q] = e
    BY <1>1, <1>2
  <1> HIDE DEF dr, cr
  <1> QED
    BY <1>3, <1>4, <1>5, SideLinked

LEMMA AgingMissesNothing ==
    ASSUME ReportInv, NEW asOf \in Dates
    PROVE  AgedTotal(asOf) = OpenResidual(asOf)
  <1> DEFINE S == Items(asOf)
             A == {e \in S : ResidualAsOf(e, asOf) > 0}
             f == [e \in S |-> ResidualAsOf(e, asOf)]
  <1>1. \A e \in S : ResidualAsOf(e, asOf) \in Int /\ ResidualAsOf(e, asOf) >= 0
    BY ItemsAre, ResidualIs
  <1>2. Summable(f) /\ DOMAIN f = S /\ A \in SUBSET S /\ \A e \in S \ A : f[e] = 0
    <2>1. IsFiniteSet(S)
      BY ItemsAre
    <2> QED
      BY <1>1, <2>1 DEF Summable
  <1>3. Restrict(f, A) = [e \in A |-> ResidualAsOf(e, asOf)]
    BY DEF Restrict
  <1>4. OpenResidual(asOf) = SumFunction(f)
        /\ AgedTotal(asOf) = SumFunction([e \in A |-> ResidualAsOf(e, asOf)])
    BY DEF OpenResidual, AgedTotal, Residuals
  <1> HIDE DEF f, A, S
  <1>5. SumFunction(f) = SumFunction(Restrict(f, A))
    BY <1>2, SumSupport
  <1> QED
    BY <1>3, <1>4, <1>5

\* Lines of journals are in the report of a date, in the ledger by then, both or
\* neither.
LEMMA BookedLater ==
    ASSUME ReportInv, NEW asOf \in Dates, NEW S, S \subseteq journals
    PROVE  LET items == {e \in S : e.transaction <= asOf}
               booked == {e \in S : e \in InLedger /\ e.date <= asOf}
               later == {e \in S : e.transaction <= asOf /\ (e \in InLedger => e.date > asOf)}
               before == {e \in S : e \in InLedger /\ e.date <= asOf /\ asOf < e.transaction}
           IN  /\ Total(items) + Total(before) = Total(booked) + Total(later)
               /\ Total(items) \in Int /\ Total(before) \in Int
               /\ Total(booked) \in Int /\ Total(later) \in Int
  <1> DEFINE items == {e \in S : e.transaction <= asOf}
             booked == {e \in S : e \in InLedger /\ e.date <= asOf}
             later == {e \in S : e.transaction <= asOf /\ (e \in InLedger => e.date > asOf)}
             before == {e \in S : e \in InLedger /\ e.date <= asOf /\ asOf < e.transaction}
             both == items \cap booked
  <1>1. \A e \in S : e.amount \in Int /\ e.date \in Nat /\ e.transaction \in Nat
    BY JournalsAre DEF ReportInv
  <1>2. asOf \in Nat
    BY DatesAre
  <1>3. IsFiniteSet(S)
    BY FS_Subset DEF ReportInv, JournalInv
  <1>4. Priced(S)
    BY <1>1, <1>3 DEF Priced
  <1>5. /\ items \subseteq S /\ booked \subseteq S /\ later \subseteq S /\ before \subseteq S
        /\ both \subseteq S
    OBVIOUS
  <1>6. items = both \cup later /\ both \cap later = {}
    BY <1>1, <1>2
  <1>7. booked = both \cup before /\ both \cap before = {}
    BY <1>1, <1>2
  <1> HIDE DEF items, booked, later, before, both
  <1>8. Priced(items) /\ Priced(booked) /\ Priced(later) /\ Priced(before) /\ Priced(both)
    BY <1>4, <1>5, PricedPart
  <1>9. Total(items) = Total(both) + Total(later) /\ Total(booked) = Total(both) + Total(before)
    BY <1>6, <1>7, <1>8, TotalUnion
  <1>10. /\ Total(items) \in Int /\ Total(before) \in Int /\ Total(both) \in Int
         /\ Total(booked) \in Int /\ Total(later) \in Int
    BY <1>8, TotalType
  <1>11. Total(items) + Total(before) = Total(booked) + Total(later)
    BY <1>9, <1>10
  <1> QED
    BY <1>10, <1>11 DEF items, booked, later, before

\* What the open items of a date and the balance of that date differ by.
LEMMA ItemsAgainstLedger ==
    ASSUME ReportInv, NEW asOf \in Dates
    PROVE  Total(Owed(asOf)) - Total(Owing(asOf))
               = Net(Receivable, 0, asOf) + OnReceivable(NotYetBooked(asOf))
                                          - OnReceivable(BookedBefore(asOf))
  <1> DEFINE dr == {e \in journals : e.debit = Receivable}
             cr == {e \in journals : e.credit = Receivable}
             Reported(S) == {e \in S : e.transaction <= asOf}
             Booked(S) == {e \in S : e \in InLedger /\ e.date <= asOf}
             Later(S) == {e \in S : e.transaction <= asOf /\ (e \in InLedger => e.date > asOf)}
             Before(S) == {e \in S : e \in InLedger /\ e.date <= asOf /\ asOf < e.transaction}
  <1>1. asOf \in Nat /\ \A e \in InLedger : e \in journals /\ e.date \in Nat
    BY DatesAre, LedgerIs DEF ReportInv, JournalInv
  <1>2. Owed(asOf) = Reported(dr) /\ Owing(asOf) = Reported(cr)
    BY DEF Owed, Owing, Items
  <1>3. Net(Receivable, 0, asOf) = Total(Booked(dr)) - Total(Booked(cr))
    <2> DEFINE window == {e \in InLedger : e.date \in 0..asOf}
    <2>1. /\ {e \in window : e.debit = Receivable} = Booked(dr)
          /\ {e \in window : e.credit = Receivable} = Booked(cr)
      BY <1>1
    <2>2. Net(Receivable, 0, asOf) = Amount({e \in window : e.debit = Receivable})
                                      - Amount({e \in window : e.credit = Receivable})
      BY DEF Net
    <2> QED
      BY <2>1, <2>2 DEF Amount, Total
  <1>4. OnReceivable(NotYetBooked(asOf)) = Total(Later(dr)) - Total(Later(cr))
    <2>1. /\ {e \in NotYetBooked(asOf) : e.debit = Receivable} = Later(dr)
          /\ {e \in NotYetBooked(asOf) : e.credit = Receivable} = Later(cr)
      BY DEF NotYetBooked
    <2> QED
      BY <2>1 DEF OnReceivable, Amount, Total
  <1>5. OnReceivable(BookedBefore(asOf)) = Total(Before(dr)) - Total(Before(cr))
    <2>1. /\ {e \in BookedBefore(asOf) : e.debit = Receivable} = Before(dr)
          /\ {e \in BookedBefore(asOf) : e.credit = Receivable} = Before(cr)
      BY <1>1 DEF BookedBefore
    <2> QED
      BY <2>1 DEF OnReceivable, Amount, Total
  <1>6. dr \subseteq journals /\ cr \subseteq journals
    OBVIOUS
  <1> HIDE DEF dr, cr
  <1>7. /\ Total(Reported(dr)) + Total(Before(dr)) = Total(Booked(dr)) + Total(Later(dr))
        /\ Total(Reported(dr)) \in Int /\ Total(Before(dr)) \in Int
        /\ Total(Booked(dr)) \in Int /\ Total(Later(dr)) \in Int
    BY <1>6, BookedLater
  <1>8. /\ Total(Reported(cr)) + Total(Before(cr)) = Total(Booked(cr)) + Total(Later(cr))
        /\ Total(Reported(cr)) \in Int /\ Total(Before(cr)) \in Int
        /\ Total(Booked(cr)) \in Int /\ Total(Later(cr)) \in Int
    BY <1>6, BookedLater
  <1> HIDE DEF Reported, Booked, Later, Before
  <1> QED
    BY <1>2, <1>3, <1>4, <1>5, <1>7, <1>8

\* For any journals in any order, drafted, posted or neither, and any links made
\* and undone: the open items of a date and the receivable's balance of that date
\* differ by the lines not yet booked and those booked before, and by nothing
\* else; no link is counted before both its lines, and the aging leaves none out.
THEOREM ResidualsAgree == ReportSpec => []ResidualsTie
  <1>1. ReportInv => ResidualsTie
    <2> SUFFICES ASSUME ReportInv, NEW asOf \in Dates
                 PROVE  /\ Residuals(Owed(asOf), asOf) - Residuals(Items(asOf) \ Owed(asOf), asOf)
                              = Net(Receivable, 0, asOf) + OnReceivable(NotYetBooked(asOf))
                                                         - OnReceivable(BookedBefore(asOf))
                        /\ \A p \in linked : p.max_date <= asOf => {p.debit, p.credit} \subseteq Items(asOf)
                        /\ AgedTotal(asOf) = OpenResidual(asOf)
      BY DEF ResidualsTie, Owed
    <2> DEFINE L == SumFunction([e \in Owed(asOf) |-> LinkedTo(e, asOf)])
               K == SumFunction([e \in Owing(asOf) |-> LinkedTo(e, asOf)])
    <2>1. /\ Residuals(Owed(asOf), asOf) = Total(Owed(asOf)) - L
          /\ Total(Owed(asOf)) \in Int /\ L \in Int
      BY ResidualsAre DEF Owed
    <2>2. /\ Residuals(Owing(asOf), asOf) = Total(Owing(asOf)) - K
          /\ Total(Owing(asOf)) \in Int /\ K \in Int
      BY ResidualsAre DEF Owing
    <2>3. L = K
      BY BothSidesLinked
    <2> HIDE DEF L, K
    <2>4. Items(asOf) \ Owed(asOf) = Owing(asOf)
      BY ItemsAre
    <2>5. Residuals(Owed(asOf), asOf) - Residuals(Items(asOf) \ Owed(asOf), asOf)
              = Total(Owed(asOf)) - Total(Owing(asOf))
      <3>1. Residuals(Items(asOf) \ Owed(asOf), asOf) = Residuals(Owing(asOf), asOf)
        BY <2>4
      <3> QED
        BY <2>1, <2>2, <2>3, <3>1
    <2>6. \A p \in linked : p.max_date <= asOf => {p.debit, p.credit} \subseteq Items(asOf)
      <3>1. \A p \in LinksBy(asOf) : p.debit \in Items(asOf) /\ p.credit \in Items(asOf)
        BY LinksWithinItems DEF Owed, Owing
      <3> QED
        BY <3>1 DEF LinksBy
    <2> QED
      BY <2>5, <2>6, ItemsAgainstLedger, AgingMissesNothing
  <1> QED
    BY <1>1, ReportStart, ReportStep, PTL DEF ReportSpec

-----------------------------------------------------------------------------
(* Reports, the general ledger.  The rows of a window, in the order of     *)
(* their dates, are numbered by how many come before them.                 *)

RowsBefore(rows, i) == {j \in rows : InDateOrder(j, i)}
RankIn(rows, i) == Cardinality(RowsBefore(rows, i))

LEMMA RowsOrdered ==
    ASSUME LedgerInv, NEW rows \in SUBSET DOMAIN posted
    PROVE  /\ \A i \in rows : i \in Int /\ posted[i].date \in Int
           /\ \A i \in rows : ~InDateOrder(i, i)
           /\ \A i, j \in rows : i # j => InDateOrder(i, j) \/ InDateOrder(j, i)
           /\ \A i, j, k \in rows : InDateOrder(i, j) /\ InDateOrder(j, k) => InDateOrder(i, k)
           /\ IsFiniteSet(rows)
  <1>1. DOMAIN posted = 1..Len(posted) /\ Len(posted) \in Nat
    BY DEF LedgerInv
  <1>2. IsFiniteSet(DOMAIN posted)
    BY <1>1, FS_Interval
  <1>3. IsFiniteSet(rows)
    BY <1>2, FS_Subset
  <1>4. \A i \in rows : i \in Int
    BY <1>1
  <1>5. \A i \in rows : posted[i].date \in Int
    <2>1. \A i \in rows : posted[i] \in InLedger
      BY DEF InLedger
    <2> QED
      BY <2>1, LedgerIs
  <1>6. /\ \A i \in rows : ~InDateOrder(i, i)
        /\ \A i, j \in rows : i # j => InDateOrder(i, j) \/ InDateOrder(j, i)
    BY <1>4, <1>5 DEF InDateOrder
  <1>7. \A i, j, k \in rows : InDateOrder(i, j) /\ InDateOrder(j, k) => InDateOrder(i, k)
    BY <1>4, <1>5 DEF InDateOrder
  <1> QED
    BY <1>3, <1>4, <1>5, <1>6, <1>7

LEMMA RankGrows ==
    ASSUME LedgerInv, NEW rows \in SUBSET DOMAIN posted
    PROVE  /\ Cardinality(rows) \in Nat
           /\ \A i \in rows : RankIn(rows, i) \in 0..(Cardinality(rows) - 1)
           /\ \A i, j \in rows : InDateOrder(i, j) <=> RankIn(rows, i) < RankIn(rows, j)
           /\ \A i, j \in rows : RankIn(rows, i) = RankIn(rows, j) => i = j
  <1>1. IsFiniteSet(rows) /\ Cardinality(rows) \in Nat
    BY RowsOrdered, FS_CardinalityType
  <1>2. ASSUME NEW i \in rows PROVE RankIn(rows, i) \in 0..(Cardinality(rows) - 1)
    <2>1. i \notin RowsBefore(rows, i) /\ RowsBefore(rows, i) \in SUBSET rows
      BY RowsOrdered DEF RowsBefore
    <2>2. /\ RankIn(rows, i) <= Cardinality(rows) /\ RankIn(rows, i) # Cardinality(rows)
          /\ RankIn(rows, i) \in Nat
      BY <1>1, <2>1, FS_Subset, FS_CardinalityType DEF RankIn
    <2> QED
      BY <1>1, <2>2
  <1>3. ASSUME NEW i \in rows, NEW j \in rows, InDateOrder(i, j)
        PROVE  RankIn(rows, i) < RankIn(rows, j)
    <2>1. /\ RowsBefore(rows, i) \subseteq RowsBefore(rows, j)
          /\ i \in RowsBefore(rows, j) /\ i \notin RowsBefore(rows, i)
      BY <1>3, RowsOrdered DEF RowsBefore
    <2>2. IsFiniteSet(RowsBefore(rows, j))
      BY <1>1, FS_Subset DEF RowsBefore
    <2>3. RankIn(rows, i) <= RankIn(rows, j) /\ RankIn(rows, i) # RankIn(rows, j)
      BY <2>1, <2>2, FS_Subset DEF RankIn
    <2> QED
      BY <1>2, <2>3
  <1>4. ASSUME NEW i \in rows, NEW j \in rows
        PROVE  /\ RankIn(rows, i) < RankIn(rows, j) => InDateOrder(i, j)
               /\ RankIn(rows, i) = RankIn(rows, j) => i = j
    <2>1. i = j \/ InDateOrder(i, j) \/ InDateOrder(j, i)
      BY RowsOrdered
    <2>2. RankIn(rows, i) \in Int /\ RankIn(rows, j) \in Int
      BY <1>2
    <2> QED
      BY <1>3, <2>1, <2>2
  <1> QED
    BY <1>1, <1>2, <1>3, <1>4

\* Every number up to how many rows there are is some row's.
LEMMA NthIs ==
    ASSUME LedgerInv, NEW rows \in SUBSET DOMAIN posted, NEW n \in 1..Cardinality(rows)
    PROVE  Nth(rows, n) \in rows /\ RankIn(rows, Nth(rows, n)) = n - 1
  <1> DEFINE size == Cardinality(rows)
             rank == [i \in rows |-> RankIn(rows, i)]
  <1>1. size \in Nat /\ IsFiniteSet(rows)
    BY RankGrows, RowsOrdered
  <1>2. rank \in Injection(rows, 0..(size - 1))
    BY RankGrows DEF Injection, IsInjective
  <1>3. IsFiniteSet(0..(size - 1)) /\ Cardinality(0..(size - 1)) = size
    <2>1. 0 \in Int /\ size - 1 \in Int
      BY <1>1
    <2>2. /\ IsFiniteSet(0..(size - 1))
          /\ Cardinality(0..(size - 1)) = IF 0 > size - 1 THEN 0 ELSE size - 1 - 0 + 1
      BY <2>1, FS_Interval
    <2> HIDE DEF size
    <2> QED
      BY <1>1, <2>2
  <1> HIDE DEF rank
  <1>4. rank \in Surjection(rows, 0..(size - 1))
    BY <1>2, <1>3, FS_Injection
  <1>5. \E i \in rows : RankIn(rows, i) = n - 1
    <2>1. n - 1 \in 0..(size - 1)
      BY <1>1
    <2> QED
      BY <1>4, <2>1 DEF Surjection, rank
  <1> QED
    BY <1>5 DEF Nth, RankIn, RowsBefore

LEMMA NthOnly ==
    ASSUME LedgerInv, NEW rows \in SUBSET DOMAIN posted, NEW i \in rows, NEW n \in Int,
           RankIn(rows, i) = n - 1
    PROVE  Nth(rows, n) = i
  <1>1. n \in 1..Cardinality(rows)
    BY RankGrows
  <1>2. Nth(rows, n) \in rows /\ RankIn(rows, Nth(rows, n)) = RankIn(rows, i)
    BY <1>1, NthIs
  <1> QED
    BY <1>2, RankGrows

\* What rows add to account a.
BalanceOf(a, rows) == SumFunction([j \in rows |-> Signed(a, j)])

LEMMA RowsSigned ==
    ASSUME LedgerInv, NEW a, NEW rows \in SUBSET GLRows(a)
    PROVE  /\ rows \in SUBSET DOMAIN posted /\ IsFiniteSet(rows)
           /\ Summable([j \in rows |-> Signed(a, j)])
           /\ \A j \in rows : Signed(a, j) \in Int
  <1>1. rows \in SUBSET DOMAIN posted
    BY DEF GLRows
  <1>2. IsFiniteSet(rows)
    BY <1>1, RowsOrdered
  <1>3. \A j \in rows : posted[j] \in InLedger
    BY <1>1 DEF InLedger
  <1>4. \A j \in rows : Signed(a, j) \in Int
    BY <1>3, LedgerIs DEF Signed
  <1> QED
    BY <1>1, <1>2, <1>4 DEF Summable

LEMMA BalanceNext ==
    ASSUME LedgerInv, NEW a, NEW rows \in SUBSET GLRows(a), NEW i \in GLRows(a), i \notin rows
    PROVE  BalanceOf(a, rows \cup {i}) = BalanceOf(a, rows) + Signed(a, i)
  <1> DEFINE f == [j \in rows |-> Signed(a, j)]
             g == [j \in rows \cup {i} |-> Signed(a, j)]
  <1>1. rows \cup {i} \in SUBSET GLRows(a)
    OBVIOUS
  <1>2. Summable(g)
    BY <1>1, RowsSigned
  <1>3. /\ i \notin DOMAIN f /\ DOMAIN g = DOMAIN f \cup {i} /\ Agree(f, g, DOMAIN f)
        /\ g[i] = Signed(a, i)
    BY DEF Agree
  <1>4. BalanceOf(a, rows) = SumFunction(f) /\ BalanceOf(a, rows \cup {i}) = SumFunction(g)
    BY DEF BalanceOf
  <1> HIDE DEF f, g
  <1> QED
    BY <1>2, <1>3, <1>4, SumAdd

\* The rows up to a date add up to what the entries up to it do: the account is
\* on one side of each.
LEMMA DatedBalance ==
    ASSUME LedgerInv, NEW a, NEW d \in Int
    PROVE  BalanceOf(a, {k \in GLRows(a) : posted[k].date <= d}) = Net(a, 0, d)
  <1> DEFINE rows == {k \in GLRows(a) : posted[k].date <= d}
             dr == {k \in rows : posted[k].debit = a}
             cr == {k \in rows : posted[k].debit # a}
             f == [j \in rows |-> Signed(a, j)]
             window == {e \in InLedger : e.date \in 0..d}
             D == {e \in window : e.debit = a}
             C == {e \in window : e.credit = a}
             charged == [e \in D |-> e.amount]
             paid == [e \in C |-> e.amount]
             minus == [e \in C |-> -e.amount]
  <1>1. Summable(f) /\ rows \in SUBSET DOMAIN posted
    <2>1. rows \in SUBSET GLRows(a)
      OBVIOUS
    <2> HIDE DEF rows
    <2> QED
      BY <2>1, RowsSigned
  <1>2. \A k, l \in DOMAIN posted : posted[k] = posted[l] => k = l
    BY DEF LedgerInv
  <1>3. \A e \in InLedger : e.date \in Nat /\ e.debit # e.credit /\ e.amount \in Nat
    BY LedgerIs
  <1>4. \A k \in DOMAIN posted : posted[k] \in InLedger
    BY DEF InLedger
  <1>5. D = {posted[k] : k \in dr}
    BY <1>3, <1>4 DEF InLedger, GLRows
  <1>6. C = {posted[k] : k \in cr}
    BY <1>3, <1>4 DEF InLedger, GLRows
  <1>7. /\ \A k \in dr : f[k] = posted[k].amount
        /\ \A k \in cr : f[k] = -posted[k].amount
    BY DEF Signed
  <1>8. /\ dr \in SUBSET DOMAIN f /\ cr \in SUBSET DOMAIN f
        /\ DOMAIN f = dr \cup cr /\ dr \cap cr = {}
    OBVIOUS
  <1>9. Summable(paid) /\ DOMAIN paid = C /\ DOMAIN minus = C /\ \A e \in C : minus[e] = -paid[e]
    <2>1. IsFiniteSet(C)
      BY LedgerIs, FS_Subset
    <2> QED
      BY <1>3, <2>1 DEF Summable
  <1>10. /\ DOMAIN charged = D /\ \A k \in dr : posted[k] \in D /\ charged[posted[k]] = f[k]
         /\ \A k \in cr : posted[k] \in C /\ minus[posted[k]] = f[k]
    BY <1>5, <1>6, <1>7
  <1>11. /\ DOMAIN f = rows /\ Net(a, 0, d) = SumFunction(charged) - SumFunction(paid)
         /\ BalanceOf(a, rows) = SumFunction(f)
    BY DEF Net, Amount, BalanceOf
  <1>12. \A k \in rows : k \in DOMAIN posted
    BY <1>1
  <1> HIDE DEF f, charged, paid, minus, D, C
  <1>13. SumFunction(f) = SumFunction(Restrict(f, dr)) + SumFunction(Restrict(f, cr))
    BY <1>1, <1>8, SumSplit
  <1>14. /\ DOMAIN Restrict(f, dr) = dr /\ DOMAIN Restrict(f, cr) = cr
         /\ Summable(Restrict(f, dr)) /\ Summable(Restrict(f, cr))
         /\ \A k \in dr : Restrict(f, dr)[k] = f[k]
         /\ \A k \in cr : Restrict(f, cr)[k] = f[k]
    BY <1>1, <1>8, PartSummable DEF Restrict
  <1>15. /\ \A k, l \in dr : posted[k] = posted[l] => k = l
         /\ \A k, l \in cr : posted[k] = posted[l] => k = l
    BY <1>2, <1>12
  <1> HIDE DEF dr, cr
  <1>16. Summable(charged) /\ SumFunction(charged) = SumFunction(Restrict(f, dr))
    BY <1>5, <1>10, <1>14, <1>15, SumRename
  <1>17. Summable(minus) /\ SumFunction(minus) = SumFunction(Restrict(f, cr))
    <2> DEFINE part == Restrict(f, cr)
    <2>1. Summable(part) /\ DOMAIN minus = {posted[k] : k \in DOMAIN part}
      BY <1>6, <1>9, <1>14
    <2>2. \A k, l \in DOMAIN part : posted[k] = posted[l] => k = l
      BY <1>14, <1>15
    <2>3. \A k \in DOMAIN part : minus[posted[k]] = part[k]
      BY <1>10, <1>14
    <2> HIDE DEF part
    <2>4. Summable(minus) /\ SumFunction(minus) = SumFunction(part)
      BY <2>1, <2>2, <2>3, SumRename
    <2> QED
      BY <2>4 DEF part
  <1>18. SumFunction(minus) = -SumFunction(paid)
    BY <1>9, SumNegate
  <1>19. SumFunction(paid) \in Int /\ SumFunction(charged) \in Int /\ SumFunction(minus) \in Int
    BY <1>9, <1>16, <1>17, SumType
  <1>20. BalanceOf(a, rows) = Net(a, 0, d)
    BY <1>11, <1>13, <1>16, <1>17, <1>18, <1>19
  <1> QED
    BY <1>20

LEMMA WindowIs ==
    ASSUME LedgerInv, NEW a, NEW lo \in Int, NEW hi \in Int
    PROVE  /\ Window(a, lo, hi) \in SUBSET DOMAIN posted
           /\ Window(a, lo, hi) \in SUBSET GLRows(a)
           /\ \A k \in GLRows(a) :
                 /\ k \in DOMAIN posted /\ k \in Int /\ posted[k].date \in Int
                 /\ k \in Window(a, lo, hi) <=> lo <= posted[k].date /\ posted[k].date <= hi
  <1>1. GLRows(a) \in SUBSET DOMAIN posted
    BY DEF GLRows
  <1>2. \A k \in GLRows(a) : k \in Int /\ posted[k].date \in Int
    BY <1>1, RowsOrdered
  <1> QED
    BY <1>1, <1>2 DEF Window

\* What comes before a row of the ledger, as a set of rows.
Earlier(a, i) == {k \in GLRows(a) : InDateOrder(k, i)}

LEMMA OpensOnDate ==
    ASSUME LedgerInv, NEW a, NEW lo \in Int, NEW hi \in Int, Cardinality(Window(a, lo, hi)) > 0
    PROVE  Opening(a, Window(a, lo, hi)) = Net(a, 0, lo - 1)
  <1> DEFINE rows == Window(a, lo, hi)
             i == Nth(rows, 1)
  <1>1. rows \in SUBSET DOMAIN posted /\ rows \in SUBSET GLRows(a)
    BY WindowIs
  <1>2. 1 \in 1..Cardinality(rows)
    BY <1>1, RankGrows
  <1>3. i \in rows /\ RankIn(rows, i) = 0
    <2> HIDE DEF rows
    <2> QED
      BY <1>1, <1>2, NthIs
  <1>4. RowsBefore(rows, i) = {}
    <2>1. IsFiniteSet(RowsBefore(rows, i))
      BY <1>1, RowsOrdered, FS_Subset DEF RowsBefore
    <2> QED
      BY <1>3, <2>1, FS_EmptySet DEF RankIn
  <1>5. ASSUME NEW k \in GLRows(a)
        PROVE  InDateOrder(k, i) <=> posted[k].date <= lo - 1
    <2>1. /\ posted[k].date \in Int
          /\ k \in rows <=> lo <= posted[k].date /\ posted[k].date <= hi
          /\ posted[i].date \in Int /\ lo <= posted[i].date /\ posted[i].date <= hi
      BY <1>1, <1>3, WindowIs
    <2>2. k \in rows => ~InDateOrder(k, i)
      BY <1>4 DEF RowsBefore
    <2> HIDE DEF rows, i
    <2> QED
      BY <2>1, <2>2 DEF InDateOrder
  <1>6. Earlier(a, i) = {k \in GLRows(a) : posted[k].date <= lo - 1}
    BY <1>5 DEF Earlier
  <1>7. Opening(a, rows) = BalanceOf(a, Earlier(a, i))
    BY DEF Opening, BalanceBefore, BalanceOf, Earlier
  <1>8. lo - 1 \in Int
    OBVIOUS
  <1> QED
    BY <1>6, <1>7, <1>8, DatedBalance

LEMMA ClosesOnDate ==
    ASSUME LedgerInv, NEW a, NEW lo \in Int, NEW hi \in Int, Cardinality(Window(a, lo, hi)) > 0
    PROVE  Closing(a, Window(a, lo, hi)) = Net(a, 0, hi)
  <1> DEFINE rows == Window(a, lo, hi)
             size == Cardinality(rows)
             i == Nth(rows, size)
  <1>1. rows \in SUBSET DOMAIN posted /\ rows \in SUBSET GLRows(a)
    BY WindowIs
  <1>2. size \in 1..size /\ size \in Nat
    BY <1>1, RankGrows
  <1>3. i \in rows /\ RankIn(rows, i) = size - 1
    <2> HIDE DEF rows
    <2> QED
      BY <1>1, <1>2, NthIs
  <1>4. ASSUME NEW k \in rows PROVE ~InDateOrder(i, k)
    <2> HIDE DEF rows, i
    <2>1. RankIn(rows, k) \in 0..(size - 1)
      BY <1>1, RankGrows
    <2>2. InDateOrder(i, k) <=> RankIn(rows, i) < RankIn(rows, k)
      BY <1>1, <1>3, RankGrows
    <2> HIDE DEF size
    <2> QED
      BY <1>2, <1>3, <2>1, <2>2
  <1>5. ASSUME NEW k \in GLRows(a)
        PROVE  k \in Earlier(a, i) \cup {i} <=> posted[k].date <= hi
    <2>1. /\ posted[k].date \in Int
          /\ k \in rows <=> lo <= posted[k].date /\ posted[k].date <= hi
          /\ posted[i].date \in Int /\ lo <= posted[i].date /\ posted[i].date <= hi
          /\ k \in Int /\ i \in Int /\ i \in GLRows(a)
      BY <1>1, <1>3, WindowIs
    <2>2. k \in rows => ~InDateOrder(i, k)
      BY <1>4
    <2> HIDE DEF rows, i
    <2> QED
      BY <2>1, <2>2 DEF InDateOrder, Earlier
  <1>6. i \in GLRows(a) /\ i \notin Earlier(a, i) /\ Earlier(a, i) \in SUBSET GLRows(a)
    BY <1>1, <1>3, RowsOrdered DEF Earlier
  <1>7. Earlier(a, i) \cup {i} = {k \in GLRows(a) : posted[k].date <= hi}
    BY <1>5, <1>6
  <1>8. Closing(a, rows) = BalanceOf(a, Earlier(a, i)) + Signed(a, i)
    BY DEF Closing, BalanceBefore, BalanceOf, Earlier
  <1>9. BalanceOf(a, Earlier(a, i) \cup {i}) = BalanceOf(a, Earlier(a, i)) + Signed(a, i)
    <2> HIDE DEF i
    <2> QED
      BY <1>6, BalanceNext
  <1>10. Closing(a, rows) = BalanceOf(a, {k \in GLRows(a) : posted[k].date <= hi})
    BY <1>7, <1>8, <1>9
  <1> QED
    BY <1>10, DatedBalance

\* A page ends on the balance the next one begins with: no row of the account
\* is between the last of the one and the first of the other.
LEMMA PagesChain ==
    ASSUME LedgerInv, NEW a, NEW lo \in Int, NEW hi \in Int,
           NEW cut \in 1..(Cardinality(Window(a, lo, hi)) - 1)
    PROVE  LET rows == Window(a, lo, hi)
               size == Cardinality(rows)
               Page(m, n) == {Nth(rows, k) : k \in m..n}
           IN  Closing(a, Page(1, cut)) = Opening(a, Page(cut + 1, size))
  <1> DEFINE rows == Window(a, lo, hi)
             size == Cardinality(rows)
             P == {Nth(rows, k) : k \in 1..cut}
             Q == {Nth(rows, k) : k \in (cut + 1)..size}
             x == Nth(rows, cut)
             y == Nth(rows, cut + 1)
  <1>1. rows \in SUBSET DOMAIN posted /\ rows \in SUBSET GLRows(a)
    BY WindowIs
  <1>2. size \in Nat /\ cut \in 1..(size - 1)
    BY <1>1, RankGrows
  <1> HIDE DEF rows
  <1>3. /\ \A k \in 1..size : Nth(rows, k) \in rows /\ RankIn(rows, Nth(rows, k)) = k - 1
        /\ \A i \in rows : RankIn(rows, i) \in 0..(size - 1)
        /\ \A i \in rows : Nth(rows, RankIn(rows, i) + 1) = i
        /\ \A i, j \in rows : InDateOrder(i, j) <=> RankIn(rows, i) < RankIn(rows, j)
        /\ \A i, j \in rows : RankIn(rows, i) = RankIn(rows, j) => i = j
    <2>1. \A k \in 1..size : Nth(rows, k) \in rows /\ RankIn(rows, Nth(rows, k)) = k - 1
      BY <1>1, NthIs
    <2>2. /\ \A i \in rows : RankIn(rows, i) \in 0..(size - 1)
          /\ \A i, j \in rows : InDateOrder(i, j) <=> RankIn(rows, i) < RankIn(rows, j)
          /\ \A i, j \in rows : RankIn(rows, i) = RankIn(rows, j) => i = j
      BY <1>1, RankGrows
    <2>3. ASSUME NEW i \in rows PROVE Nth(rows, RankIn(rows, i) + 1) = i
      <3>1. RankIn(rows, i) \in Int
        BY <2>2
      <3>2. PICK n \in Int : n = RankIn(rows, i) + 1
        BY <3>1
      <3>3. RankIn(rows, i) = n - 1
        BY <3>1, <3>2
      <3>4. Nth(rows, n) = i
        BY <1>1, <3>3, NthOnly
      <3> QED
        BY <3>2, <3>4
    <2> QED
      BY <2>1, <2>2, <2>3
  <1> HIDE DEF size
  <1>4. /\ cut \in 1..size /\ cut + 1 \in 1..size /\ cut \in Int
        /\ x \in rows /\ y \in rows /\ RankIn(rows, x) = cut - 1 /\ RankIn(rows, y) = cut
    BY <1>2, <1>3
  <1> HIDE DEF x, y
  <1>5. P = RowsBefore(rows, y)
    <2>1. ASSUME NEW k \in 1..cut PROVE Nth(rows, k) \in RowsBefore(rows, y)
      <3>1. k \in 1..size /\ k - 1 < cut
        BY <1>2
      <3> QED
        BY <1>3, <1>4, <3>1 DEF RowsBefore
    <2>2. ASSUME NEW i \in RowsBefore(rows, y) PROVE i \in P
      <3>1. i \in rows /\ RankIn(rows, i) \in 0..(size - 1) /\ RankIn(rows, i) < cut
        BY <1>3, <1>4 DEF RowsBefore
      <3>2. RankIn(rows, i) + 1 \in 1..cut /\ Nth(rows, RankIn(rows, i) + 1) = i
        BY <1>2, <1>3, <3>1
      <3> QED
        BY <3>2
    <2> QED
      BY <2>1, <2>2
  <1>6. /\ Q \in SUBSET rows /\ y \in Q
        /\ \A i \in Q : RankIn(rows, i) >= cut
    <2>1. ASSUME NEW k \in (cut + 1)..size
          PROVE  Nth(rows, k) \in rows /\ RankIn(rows, Nth(rows, k)) >= cut
      <3>1. k \in 1..size /\ k - 1 >= cut
        BY <1>2
      <3> QED
        BY <1>3, <3>1
    <2>2. cut + 1 \in (cut + 1)..size
      BY <1>4
    <2> QED
      BY <2>1, <2>2 DEF y
  <1> HIDE DEF P, Q
  <1>7. /\ P \in SUBSET rows /\ P \in SUBSET DOMAIN posted /\ Q \in SUBSET DOMAIN posted
        /\ Cardinality(P) = cut
    BY <1>1, <1>4, <1>5, <1>6 DEF RowsBefore, RankIn
  <1>8. Nth(P, cut) = x
    <2>1. x \in P
      BY <1>3, <1>4, <1>5 DEF RowsBefore
    <2>2. RowsBefore(P, x) = RowsBefore(rows, x)
      <3>1. ASSUME NEW i \in RowsBefore(rows, x) PROVE i \in P
        <4>1. i \in rows /\ RankIn(rows, i) \in 0..(size - 1) /\ RankIn(rows, i) < cut - 1
          BY <1>3, <1>4 DEF RowsBefore
        <4>2. RankIn(rows, i) < RankIn(rows, y)
          BY <1>4, <4>1
        <4> QED
          BY <1>3, <1>4, <1>5, <4>1, <4>2 DEF RowsBefore
      <3> QED
        BY <1>7, <3>1 DEF RowsBefore
    <2>3. RankIn(P, x) = cut - 1
      BY <1>4, <2>2 DEF RankIn
    <2> QED
      BY <1>4, <1>7, <2>1, <2>3, NthOnly
  <1>9. Nth(Q, 1) = y
    <2>1. ASSUME NEW i \in Q PROVE ~InDateOrder(i, y)
      <3>1. RankIn(rows, i) \in 0..(size - 1) /\ RankIn(rows, i) >= cut
        BY <1>3, <1>6
      <3>2. ~(RankIn(rows, i) < RankIn(rows, y))
        BY <1>4, <3>1
      <3> QED
        BY <1>3, <1>4, <1>6, <3>2
    <2>2. RowsBefore(Q, y) = {}
      BY <2>1 DEF RowsBefore
    <2>3. RankIn(Q, y) = 1 - 1
      BY <2>2, FS_EmptySet DEF RankIn
    <2> QED
      BY <1>6, <1>7, <2>3, NthOnly
  <1>10. Earlier(a, y) = Earlier(a, x) \cup {x}
    <2>1. InDateOrder(x, y) /\ x \in GLRows(a) /\ y \in GLRows(a)
      BY <1>1, <1>3, <1>4
    <2>2. GLRows(a) \in SUBSET DOMAIN posted
      BY DEF GLRows
    <2>3. ASSUME NEW k \in GLRows(a), InDateOrder(k, x) PROVE InDateOrder(k, y)
      BY <2>1, <2>2, <2>3, RowsOrdered
    <2>4. ASSUME NEW k \in GLRows(a), InDateOrder(k, y), k # x PROVE InDateOrder(k, x)
      <3>1. SUFFICES ASSUME ~InDateOrder(k, x) PROVE FALSE
        OBVIOUS
      <3>2. InDateOrder(x, k)
        BY <2>1, <2>2, <2>4, <3>1, RowsOrdered
      <3>3. k \in rows
        <4>1. /\ posted[k].date \in Int /\ posted[x].date \in Int /\ posted[y].date \in Int
              /\ lo <= posted[x].date /\ posted[y].date <= hi
          BY <1>4, <2>1, WindowIs DEF rows
        <4>2. posted[x].date <= posted[k].date /\ posted[k].date <= posted[y].date
          BY <2>4, <3>2, <4>1 DEF InDateOrder
        <4>3. lo <= posted[k].date /\ posted[k].date <= hi
          BY <4>1, <4>2
        <4> QED
          BY <4>3, WindowIs DEF rows
      <3>4. RankIn(rows, k) \in Int /\ cut - 1 < RankIn(rows, k) /\ RankIn(rows, k) < cut
        BY <1>3, <1>4, <2>4, <3>2, <3>3
      <3> QED
        BY <1>4, <3>4
    <2> QED
      BY <2>1, <2>3, <2>4 DEF Earlier
  <1>11. BalanceOf(a, Earlier(a, y)) = BalanceOf(a, Earlier(a, x)) + Signed(a, x)
    <2>1. /\ x \in GLRows(a) /\ x \notin Earlier(a, x) /\ Earlier(a, x) \in SUBSET GLRows(a)
      BY <1>1, <1>4, RowsOrdered DEF Earlier
    <2>2. BalanceOf(a, Earlier(a, x) \cup {x}) = BalanceOf(a, Earlier(a, x)) + Signed(a, x)
      BY <2>1, BalanceNext
    <2> QED
      BY <1>10, <2>2
  <1>12. Closing(a, P) = BalanceOf(a, Earlier(a, x)) + Signed(a, x)
    BY <1>7, <1>8 DEF Closing, BalanceBefore, BalanceOf, Earlier
  <1>13. Opening(a, Q) = BalanceOf(a, Earlier(a, y))
    BY <1>9 DEF Opening, BalanceBefore, BalanceOf, Earlier
  <1>14. Closing(a, P) = Opening(a, Q)
    BY <1>11, <1>12, <1>13
  <1> QED
    BY <1>14 DEF P, Q, rows, size

LEMMA PagesAgree == LedgerInv => LedgerPagesChain
  <1> SUFFICES ASSUME LedgerInv, NEW a \in Ledger, NEW lo \in Dates, NEW hi \in Dates,
                      Cardinality(Window(a, lo, hi)) > 0
               PROVE  LET rows == Window(a, lo, hi)
                          size == Cardinality(rows)
                          Page(m, n) == {Nth(rows, k) : k \in m..n}
                      IN  /\ Opening(a, rows) = Net(a, 0, lo - 1)
                          /\ Closing(a, rows) = Net(a, 0, hi)
                          /\ \A cut \in 1..(size - 1) :
                                Closing(a, Page(1, cut)) = Opening(a, Page(cut + 1, size))
    BY DEF LedgerPagesChain
  <1>1. lo \in Int /\ hi \in Int
    BY DatesAre
  <1> QED
    BY <1>1, OpensOnDate, ClosesOnDate, PagesChain

-----------------------------------------------------------------------------
(* Reports, the statements.  Every entry in the ledger is between two live *)
(* accounts, so whatever is added up over the live accounts cancels out.   *)

DebitsIn(a, lo, hi) == {e \in InLedger : e.date \in lo..hi /\ e.debit = a}
CreditsIn(a, lo, hi) == {e \in InLedger : e.date \in lo..hi /\ e.credit = a}

LEMMA LiveIs ==
    /\ IsFiniteSet(Node) /\ IsFiniteSet(Live) /\ Live \subseteq Node
    /\ LedgerInv /\ WholeChart => \A e \in InLedger : e.debit \in Live /\ e.credit \in Live
  <1>1. IsFiniteSet(Ledger) /\ IsFiniteSet(Header)
    BY DirectoryAssumption
  <1>2. IsFiniteSet(Node)
    BY <1>1, FS_Union DEF Node
  <1>3. IsFiniteSet(Live)
    <2>1. Live \in SUBSET Ledger
      BY DEF Live
    <2> QED
      BY <1>1, <2>1, FS_Subset
  <1>4. Live \subseteq Node
    BY DEF Live, Node
  <1>5. ASSUME LedgerInv, WholeChart, NEW e \in InLedger
        PROVE  e.debit \in Live /\ e.credit \in Live
    <2>1. e \in Entries
      BY <1>5, LedgerIs
    <2>2. e.debit \in Ledger /\ e.credit \in Ledger
      BY <2>1, DirectoryAssumption
    <2>3. e.debit \notin deleted /\ e.credit \notin deleted
      BY <1>5 DEF WholeChart
    <2> QED
      BY <2>2, <2>3 DEF Live
  <1> QED
    BY <1>2, <1>3, <1>4, <1>5

LEMMA NetIs ==
    ASSUME LedgerInv, NEW a, NEW lo, NEW hi
    PROVE  /\ Net(a, lo, hi) = Total(DebitsIn(a, lo, hi)) - Total(CreditsIn(a, lo, hi))
           /\ Priced(DebitsIn(a, lo, hi)) /\ Priced(CreditsIn(a, lo, hi))
           /\ Net(a, lo, hi) \in Int
  <1>1. Priced(InLedger)
    BY LedgerIs DEF Priced
  <1>2. Priced(DebitsIn(a, lo, hi)) /\ Priced(CreditsIn(a, lo, hi))
    <2>1. DebitsIn(a, lo, hi) \subseteq InLedger /\ CreditsIn(a, lo, hi) \subseteq InLedger
      BY DEF DebitsIn, CreditsIn
    <2> QED
      BY <1>1, <2>1, PricedPart
  <1>3. Net(a, lo, hi) = Total(DebitsIn(a, lo, hi)) - Total(CreditsIn(a, lo, hi))
    <2> DEFINE window == {e \in InLedger : e.date \in lo..hi}
    <2>1. /\ DebitsIn(a, lo, hi) = {e \in window : e.debit = a}
          /\ CreditsIn(a, lo, hi) = {e \in window : e.credit = a}
      BY DEF DebitsIn, CreditsIn
    <2>2. Net(a, lo, hi) = Amount({e \in window : e.debit = a}) - Amount({e \in window : e.credit = a})
      BY DEF Net
    <2> QED
      BY <2>1, <2>2 DEF Amount, Total
  <1> QED
    BY <1>2, <1>3, TotalType

LEMMA NetsCancel ==
    ASSUME LedgerInv, WholeChart, NEW lo, NEW hi
    PROVE  SumFunction([a \in Live |-> Net(a, lo, hi)]) = 0
  <1> DEFINE W == {e \in InLedger : e.date \in lo..hi}
             f == [e \in W |-> e.amount]
             dr == [e \in W |-> e.debit]
             cr == [e \in W |-> e.credit]
             g == [a \in Live |-> Total(DebitsIn(a, lo, hi))]
             h == [a \in Live |-> Total(CreditsIn(a, lo, hi))]
             n == [a \in Live |-> Net(a, lo, hi)]
  <1>1. Summable(f) /\ DOMAIN f = W
    <2>1. IsFiniteSet(W) /\ \A e \in W : e.amount \in Int
      BY LedgerIs, FS_Subset
    <2> QED
      BY <2>1 DEF Summable
  <1>2. IsFiniteSet(Live) /\ (\A e \in W : dr[e] \in Live) /\ \A e \in W : cr[e] \in Live
    BY LiveIs
  <1>3. ASSUME NEW a \in Live
        PROVE  /\ g[a] = SumFunction(Restrict(f, Fiber(f, dr, a)))
               /\ h[a] = SumFunction(Restrict(f, Fiber(f, cr, a)))
    <2>1. Fiber(f, dr, a) = DebitsIn(a, lo, hi) /\ Fiber(f, cr, a) = CreditsIn(a, lo, hi)
      BY DEF Fiber, DebitsIn, CreditsIn
    <2>2. DebitsIn(a, lo, hi) \subseteq W /\ CreditsIn(a, lo, hi) \subseteq W
      BY DEF DebitsIn, CreditsIn
    <2>3. /\ Restrict(f, DebitsIn(a, lo, hi)) = [e \in DebitsIn(a, lo, hi) |-> e.amount]
          /\ Restrict(f, CreditsIn(a, lo, hi)) = [e \in CreditsIn(a, lo, hi) |-> e.amount]
      BY <2>2 DEF Restrict
    <2> QED
      BY <2>1, <2>3 DEF Total
  <1>4. \A a \in Live : g[a] = n[a] + h[a]
    <2> SUFFICES ASSUME NEW a \in Live PROVE g[a] = n[a] + h[a]
      OBVIOUS
    <2>1. /\ Net(a, lo, hi) = Total(DebitsIn(a, lo, hi)) - Total(CreditsIn(a, lo, hi))
          /\ Total(DebitsIn(a, lo, hi)) \in Int /\ Total(CreditsIn(a, lo, hi)) \in Int
      BY NetIs, TotalType
    <2> QED
      BY <2>1
  <1>5. DOMAIN g = Live /\ DOMAIN h = Live /\ DOMAIN n = Live /\ Summable(n)
    BY <1>2, NetIs DEF Summable
  <1> HIDE DEF W, f, g, h, n, dr, cr
  <1>6. Summable(g) /\ SumFunction(g) = SumFunction(f)
    BY <1>1, <1>2, <1>3, <1>5, SumFibers
  <1>7. Summable(h) /\ SumFunction(h) = SumFunction(f)
    BY <1>1, <1>2, <1>3, <1>5, SumFibers
  <1>8. SumFunction(g) = SumFunction(n) + SumFunction(h)
    BY <1>4, <1>5, <1>7, SumPlus
  <1>9. SumFunction(n) \in Int /\ SumFunction(h) \in Int
    BY <1>5, <1>7, SumType
  <1>10. SumFunction(n) = 0
    BY <1>6, <1>7, <1>8, <1>9
  <1> QED
    BY <1>10 DEF n

LEMMA TotalsFoot ==
    ASSUME LedgerInv, WholeChart, NEW asOf
    PROVE  TotalDebit(asOf) = TotalCredit(asOf)
  <1> DEFINE n == [a \in Live |-> Net(a, 0, asOf)]
             dr == [a \in Live |-> Positive(Net(a, 0, asOf))]
             cr == [a \in Live |-> Positive(-Net(a, 0, asOf))]
  <1>1. ASSUME NEW a \in Live
        PROVE  /\ n[a] \in Int /\ dr[a] \in Int /\ cr[a] \in Int
               /\ dr[a] = n[a] + cr[a]
    <2>1. Net(a, 0, asOf) \in Int
      BY NetIs
    <2> QED
      BY <2>1 DEF Positive
  <1>2. IsFiniteSet(Live)
    BY LiveIs
  <1>3. /\ DOMAIN n = Live /\ DOMAIN dr = Live /\ DOMAIN cr = Live
        /\ Summable(n) /\ Summable(dr) /\ Summable(cr)
    BY <1>1, <1>2 DEF Summable
  <1>4. TotalDebit(asOf) = SumFunction(dr) /\ TotalCredit(asOf) = SumFunction(cr)
    BY DEF TotalDebit, TotalCredit
  <1>5. SumFunction(n) = 0
    BY NetsCancel
  <1> HIDE DEF n, dr, cr
  <1>6. SumFunction(dr) = SumFunction(n) + SumFunction(cr)
    BY <1>1, <1>3, SumPlus
  <1>7. SumFunction(cr) \in Int
    BY <1>3, SumType
  <1> QED
    BY <1>4, <1>5, <1>6, <1>7

LEMMA SheetBalances ==
    ASSUME LedgerInv, WholeChart, NEW asOf
    PROVE  Assets(asOf) = LiabilitiesAndEquity(asOf)
  <1> DEFINE n == [a \in Live |-> Net(a, 0, asOf)]
             A == {x \in Live : TypeOf[x] \in {"asset"}}
             L == {x \in Live : TypeOf[x] \in {"liability", "equity", "revenue", "expense"}}
  <1>1. Summable(n) /\ DOMAIN n = Live
    BY LiveIs, NetIs DEF Summable
  <1>2. Live = A \cup L /\ A \cap L = {}
    <2>1. \A x \in Live : TypeOf[x] \in {"asset", "liability", "equity", "revenue", "expense"}
      BY DirectoryAssumption DEF Live
    <2> QED
      BY <2>1
  <1>3. /\ Restrict(n, A) = [a \in A |-> Net(a, 0, asOf)]
        /\ Restrict(n, L) = [a \in L |-> Net(a, 0, asOf)]
    BY DEF Restrict
  <1>4. Assets(asOf) = SumFunction(Restrict(n, A))
    BY <1>3 DEF Assets, Side
  <1>5. LiabilitiesAndEquity(asOf) = -SumFunction(Restrict(n, L))
    BY <1>3 DEF LiabilitiesAndEquity, Side
  <1>6. SumFunction(n) = 0
    BY NetsCancel
  <1> HIDE DEF n, A, L
  <1>7. SumFunction(n) = SumFunction(Restrict(n, A)) + SumFunction(Restrict(n, L))
    BY <1>1, <1>2, SumSplit
  <1>8. SumFunction(Restrict(n, A)) \in Int /\ SumFunction(Restrict(n, L)) \in Int
    BY <1>1, <1>2, PartSummable, SumType
  <1> QED
    BY <1>4, <1>5, <1>6, <1>7, <1>8

LEMMA EarningsAdd ==
    ASSUME LedgerInv, NEW mid \in Dates, NEW asOf \in Dates, mid < asOf
    PROVE  NetIncome(0, mid) + NetIncome(mid + 1, asOf) = NetIncome(0, asOf)
  <1> DEFINE S == {x \in Live : TypeOf[x] \in {"revenue", "expense"}}
             f == [a \in S |-> Net(a, 0, asOf)]
             g == [a \in S |-> Net(a, 0, mid)]
             h == [a \in S |-> Net(a, mid + 1, asOf)]
  <1>1. mid \in Nat /\ asOf \in Nat
    BY DatesAre
  <1>2. 0..asOf = (0..mid) \cup ((mid + 1)..asOf) /\ (0..mid) \cap ((mid + 1)..asOf) = {}
    BY <1>1
  <1>3. ASSUME NEW a PROVE Net(a, 0, asOf) = Net(a, 0, mid) + Net(a, mid + 1, asOf)
    <2>1. /\ DebitsIn(a, 0, asOf) = DebitsIn(a, 0, mid) \cup DebitsIn(a, mid + 1, asOf)
          /\ DebitsIn(a, 0, mid) \cap DebitsIn(a, mid + 1, asOf) = {}
      BY <1>2 DEF DebitsIn
    <2>2. /\ CreditsIn(a, 0, asOf) = CreditsIn(a, 0, mid) \cup CreditsIn(a, mid + 1, asOf)
          /\ CreditsIn(a, 0, mid) \cap CreditsIn(a, mid + 1, asOf) = {}
      BY <1>2 DEF CreditsIn
    <2>3. /\ Priced(DebitsIn(a, 0, mid)) /\ Priced(DebitsIn(a, mid + 1, asOf))
          /\ Priced(CreditsIn(a, 0, mid)) /\ Priced(CreditsIn(a, mid + 1, asOf))
      BY NetIs
    <2>4. /\ Total(DebitsIn(a, 0, asOf))
               = Total(DebitsIn(a, 0, mid)) + Total(DebitsIn(a, mid + 1, asOf))
          /\ Total(CreditsIn(a, 0, asOf))
               = Total(CreditsIn(a, 0, mid)) + Total(CreditsIn(a, mid + 1, asOf))
      BY <2>1, <2>2, <2>3, TotalUnion
    <2>5. /\ Total(DebitsIn(a, 0, mid)) \in Int /\ Total(DebitsIn(a, mid + 1, asOf)) \in Int
          /\ Total(CreditsIn(a, 0, mid)) \in Int /\ Total(CreditsIn(a, mid + 1, asOf)) \in Int
      BY <2>3, TotalType
    <2>6. /\ Net(a, 0, asOf) = Total(DebitsIn(a, 0, asOf)) - Total(CreditsIn(a, 0, asOf))
          /\ Net(a, 0, mid) = Total(DebitsIn(a, 0, mid)) - Total(CreditsIn(a, 0, mid))
          /\ Net(a, mid + 1, asOf)
               = Total(DebitsIn(a, mid + 1, asOf)) - Total(CreditsIn(a, mid + 1, asOf))
      BY NetIs
    <2> QED
      BY <2>4, <2>5, <2>6
  <1>4. /\ DOMAIN f = S /\ DOMAIN g = S /\ DOMAIN h = S /\ Summable(g) /\ Summable(h)
        /\ \A a \in S : f[a] = g[a] + h[a]
    <2>1. IsFiniteSet(S)
      BY LiveIs, FS_Subset
    <2> QED
      BY <1>3, <2>1, NetIs DEF Summable
  <1>5. /\ NetIncome(0, asOf) = -SumFunction(f) /\ NetIncome(0, mid) = -SumFunction(g)
        /\ NetIncome(mid + 1, asOf) = -SumFunction(h)
    BY DEF NetIncome
  <1> HIDE DEF S, f, g, h
  <1>6. SumFunction(f) = SumFunction(g) + SumFunction(h)
    BY <1>4, SumPlus
  <1>7. SumFunction(g) \in Int /\ SumFunction(h) \in Int
    BY <1>4, SumType
  <1> QED
    BY <1>5, <1>6, <1>7

-----------------------------------------------------------------------------
(* Reports, the tree.  In a whole chart every live account stands under    *)
(* one root, which its way up passes once.                                 *)

Up(x) ==
    IF x = NoAccount THEN NoAccount
    ELSE IF parent[x] \in deleted THEN NoAccount
    ELSE parent[x]

Climb(u, a, k) == u = [n \in 0..k |-> IF n = 0 THEN a ELSE Up(u[n - 1])]

LEMMA ClimbsAgree ==
    ASSUME NEW a, NEW k \in Nat, NEW l \in Nat, k <= l,
           NEW u, Climb(u, a, k), NEW w, Climb(w, a, l)
    PROVE  \A n \in 0..k : u[n] = w[n]
  <1> DEFINE Bad == {n \in 0..k : u[n] # w[n]}
  <1>1. /\ \A n \in 0..k : u[n] = IF n = 0 THEN a ELSE Up(u[n - 1])
        /\ \A n \in 0..l : w[n] = IF n = 0 THEN a ELSE Up(w[n - 1])
    BY DEF Climb
  <1>2. Bad = {}
    <2> SUFFICES ASSUME Bad # {} PROVE FALSE
      OBVIOUS
    <2>1. PICK n \in Bad : \A j \in Bad : n <= j
      <3>1. Bad \in SUBSET Nat
        OBVIOUS
      <3> HIDE DEF Bad
      <3> QED
        BY <3>1, SmallestNumber
    <2>2. n \in 0..k /\ n \in 0..l /\ u[n] # w[n]
      BY <2>1
    <2>3. n # 0
      BY <1>1, <2>2
    <2>4. n - 1 \in 0..k /\ n - 1 \notin Bad
      <3>1. n - 1 \in 0..k /\ ~(n <= n - 1)
        BY <2>2, <2>3
      <3> HIDE DEF Bad
      <3> QED
        BY <2>1, <3>1
    <2>5. u[n - 1] = w[n - 1]
      BY <2>4
    <2> QED
      BY <1>1, <2>2, <2>3, <2>5
  <1> QED
    BY <1>2

LEMMA ClimbExists ==
    ASSUME LedgerInv, NEW a \in Node, NEW k \in Nat
    PROVE  \E u \in [0..k -> Node \cup {NoAccount}] : Climb(u, a, k)
  <1> DEFINE V == Node \cup {NoAccount}
             g == [p \in (1..k) \X V |-> Up(p[2])]
  <1>1. \A x \in V : Up(x) \in V
    BY DEF LedgerInv, Up
  <1>2. \A n \in 1..k, x \in V : g[<<n, x>>] = Up(x)
    OBVIOUS
  <1>3. a \in V
    OBVIOUS
  <1> HIDE DEF V, g
  <1>4. \A n \in 1..k, x \in V : g[<<n, x>>] \in V
    BY <1>1, <1>2
  <1>5. PICK u \in [0..k -> V] : Iterated(u, a, g, k)
    BY <1>3, <1>4, Iterates
  <1>6. ASSUME NEW n \in 0..k PROVE u[n] = IF n = 0 THEN a ELSE Up(u[n - 1])
    <2>1. u[n] = IF n = 0 THEN a ELSE g[<<n, u[n - 1]>>]
      BY <1>5 DEF Iterated
    <2>2. n # 0 => n \in 1..k /\ u[n - 1] \in V
      OBVIOUS
    <2>3. n # 0 => g[<<n, u[n - 1]>>] = Up(u[n - 1])
      BY <1>2, <2>2
    <2> QED
      BY <2>1, <2>3
  <1>7. Climb(u, a, k)
    BY <1>6 DEF Climb
  <1> QED
    BY <1>7 DEF V

LEMMA AboveIs ==
    ASSUME LedgerInv, NEW a \in Node
    PROVE  /\ Above(a, 0) = a
           /\ \A k \in Nat : /\ Above(a, k) \in Node \cup {NoAccount}
                             /\ Above(a, k + 1) = Up(Above(a, k))
  <1>1. ASSUME NEW k \in Nat, NEW l \in Nat, k <= l, NEW w, Climb(w, a, l)
        PROVE  Above(a, k) = w[k]
    <2> DEFINE u == CHOOSE u : Climb(u, a, k)
    <2>1. Above(a, k) = u[k]
      BY DEF Above, Climb, Up
    <2>2. \E v : Climb(v, a, k)
      BY ClimbExists
    <2>3. Climb(u, a, k)
      BY <2>2
    <2> HIDE DEF u
    <2>4. \A n \in 0..k : u[n] = w[n]
      BY <1>1, <2>3, ClimbsAgree
    <2> QED
      BY <2>1, <2>4
  <1>2. ASSUME NEW k \in Nat
        PROVE  /\ Above(a, 0) = a
               /\ Above(a, k) \in Node \cup {NoAccount}
               /\ Above(a, k + 1) = Up(Above(a, k))
    <2>1. PICK w \in [0..(k + 1) -> Node \cup {NoAccount}] : Climb(w, a, k + 1)
      BY ClimbExists
    <2>2. k + 1 \in Nat /\ 0 <= k + 1 /\ k <= k + 1 /\ k + 1 <= k + 1 /\ 0 \in Nat
      OBVIOUS
    <2>3. Above(a, 0) = w[0]
      BY <1>1, <2>1, <2>2
    <2>4. Above(a, k) = w[k] /\ Above(a, k + 1) = w[k + 1]
      BY <1>1, <2>1, <2>2
    <2>5. \A n \in 0..(k + 1) : w[n] = IF n = 0 THEN a ELSE Up(w[n - 1])
      BY <2>1 DEF Climb
    <2>6. w[0] = a /\ w[k + 1] = Up(w[k]) /\ w[k] \in Node \cup {NoAccount}
      <3>1. 0 \in 0..(k + 1) /\ k \in 0..(k + 1) /\ k + 1 \in 0..(k + 1) /\ k + 1 # 0
            /\ k + 1 - 1 = k
        OBVIOUS
      <3> QED
        BY <2>1, <2>5, <3>1
    <2> QED
      BY <2>3, <2>4, <2>6
  <1>3. 0 \in Nat
    OBVIOUS
  <1> QED
    BY <1>2, <1>3

\* Two nodes that meet on their way up have the rest of it in common.
LEMMA SameFromHere ==
    ASSUME LedgerInv, NEW a \in Node, NEW i \in Nat, NEW j \in Nat, Above(a, i) = Above(a, j)
    PROVE  \A t \in Nat : Above(a, i + t) = Above(a, j + t)
  <1> DEFINE Bad == {t \in Nat : Above(a, i + t) # Above(a, j + t)}
  <1>1. Bad = {}
    <2> SUFFICES ASSUME Bad # {} PROVE FALSE
      OBVIOUS
    <2>1. PICK t \in Bad : \A s \in Bad : t <= s
      <3>1. Bad \in SUBSET Nat
        OBVIOUS
      <3> HIDE DEF Bad
      <3> QED
        BY <3>1, SmallestNumber
    <2>2. t \in Nat /\ Above(a, i + t) # Above(a, j + t)
      BY <2>1
    <2>3. t # 0
      BY <2>2
    <2>4. PICK s \in Nat : t = s + 1
      <3>1. t - 1 \in Nat /\ t = (t - 1) + 1
        BY <2>2, <2>3
      <3> QED
        BY <3>1
    <2>5. s \notin Bad
      <3>1. ~(t <= s)
        BY <2>4
      <3> HIDE DEF Bad
      <3> QED
        BY <2>1, <3>1
    <2>6. Above(a, i + s) = Above(a, j + s)
      BY <2>5
    <2>7. /\ i + s \in Nat /\ j + s \in Nat
          /\ i + t = (i + s) + 1 /\ j + t = (j + s) + 1
      BY <2>4
    <2>8. /\ Above(a, (i + s) + 1) = Up(Above(a, i + s))
          /\ Above(a, (j + s) + 1) = Up(Above(a, j + s))
      BY <2>7, AboveIs
    <2> QED
      BY <2>2, <2>6, <2>7, <2>8
  <1> QED
    BY <1>1

LEMMA EndsForGood ==
    ASSUME LedgerInv, NEW a \in Node, NEW m \in Nat, Above(a, m) = NoAccount
    PROVE  \A t \in Nat : Above(a, m + t) = NoAccount
  <1> DEFINE Bad == {t \in Nat : Above(a, m + t) # NoAccount}
  <1>1. Bad = {}
    <2> SUFFICES ASSUME Bad # {} PROVE FALSE
      OBVIOUS
    <2>1. PICK t \in Bad : \A s \in Bad : t <= s
      <3>1. Bad \in SUBSET Nat
        OBVIOUS
      <3> HIDE DEF Bad
      <3> QED
        BY <3>1, SmallestNumber
    <2>2. t \in Nat /\ Above(a, m + t) # NoAccount
      BY <2>1
    <2>3. t # 0
      BY <2>2
    <2>4. PICK s \in Nat : t = s + 1
      <3>1. t - 1 \in Nat /\ t = (t - 1) + 1
        BY <2>2, <2>3
      <3> QED
        BY <3>1
    <2>5. s \notin Bad
      <3>1. ~(t <= s)
        BY <2>4
      <3> HIDE DEF Bad
      <3> QED
        BY <2>1, <3>1
    <2>6. Above(a, m + s) = NoAccount /\ m + s \in Nat /\ m + t = (m + s) + 1
      BY <2>4, <2>5
    <2>7. Above(a, (m + s) + 1) = Up(Above(a, m + s))
      BY <2>6, AboveIs
    <2> QED
      BY <2>2, <2>6, <2>7 DEF Up
  <1> QED
    BY <1>1

\* Where the way up is at a root, and that root.
Height(a) == CHOOSE k \in Nat : Above(a, k) \in Roots
RootOf(a) == Above(a, Height(a))

LEMMA RootIs ==
    ASSUME LedgerInv, WholeChart, NEW a \in Node \ deleted
    PROVE  /\ Height(a) \in 0..Cardinality(Node \ deleted)
           /\ RootOf(a) \in Roots
           /\ \A k \in Nat : Above(a, k) \in Roots => k = Height(a)
  <1> DEFINE Ends == {k \in Nat : Above(a, k) = NoAccount}
             live == Node \ deleted
  <1>0. NoAccount \notin Node /\ a \in Node
    BY DirectoryAssumption DEF Node
  <1>1. /\ Above(a, 0) = a
        /\ \A k \in Nat : /\ Above(a, k) \in Node \cup {NoAccount}
                          /\ Above(a, k + 1) = Up(Above(a, k))
    BY <1>0, AboveIs
  <1>2. PICK m \in Ends : \A k \in Ends : m <= k
    <2>1. Cardinality(Node) \in Nat
      BY LiveIs, FS_CardinalityType
    <2>2. Cardinality(Node) \in Ends
      BY <1>0, <2>1 DEF WholeChart
    <2>3. Ends \in SUBSET Nat /\ Ends # {}
      BY <2>2
    <2> HIDE DEF Ends
    <2> QED
      BY <2>3, SmallestNumber
  <1>3. m \in Nat /\ Above(a, m) = NoAccount /\ \A k \in Nat : Above(a, k) = NoAccount => m <= k
    BY <1>2
  <1> HIDE DEF Ends
  <1>4. m # 0
    BY <1>0, <1>1, <1>3
  <1>5. PICK h \in Nat : m = h + 1
    <2>1. m - 1 \in Nat /\ m = (m - 1) + 1
      BY <1>3, <1>4
    <2> QED
      BY <2>1
  \* Up to h the way is among the accounts that are there.
  <1>6. ASSUME NEW k \in 0..h PROVE Above(a, k) \in live
    <2>1. k \in Nat /\ ~(m <= k)
      BY <1>5
    <2>2. Above(a, k) \in Node /\ Above(a, k) # NoAccount
      BY <1>1, <1>3, <2>1
    <2>3. CASE k = 0
      BY <1>1, <2>3
    <2>4. CASE k # 0
      <3>1. PICK n \in Nat : k = n + 1
        <4>1. k - 1 \in Nat /\ k = (k - 1) + 1
          BY <2>1, <2>4
        <4> QED
          BY <4>1
      <3>2. Above(a, k) = Up(Above(a, n))
        BY <1>1, <3>1
      <3> QED
        BY <2>2, <3>2 DEF Up
    <2> QED
      BY <2>3, <2>4
  \* At h it is at a root, and then it ends.
  <1>7. Above(a, h) \in Roots
    <2>1. Above(a, h) \in live /\ Up(Above(a, h)) = NoAccount
      BY <1>1, <1>3, <1>5, <1>6
    <2>2. Above(a, h) # NoAccount
      BY <1>0, <2>1
    <2>3. \A d \in deleted : parent[Above(a, h)] # d
      BY <2>1 DEF WholeChart
    <2>4. parent[Above(a, h)] = NoAccount
      BY <2>1, <2>2, <2>3 DEF Up
    <2> QED
      BY <2>1, <2>4 DEF Roots
  <1>8. ASSUME NEW k \in Nat, Above(a, k) \in Roots PROVE k = h
    <2>1. Above(a, k + 1) = NoAccount
      <3>1. Above(a, k + 1) = Up(Above(a, k)) /\ parent[Above(a, k)] = NoAccount
        BY <1>1, <1>8 DEF Roots
      <3> QED
        BY <3>1 DEF Up
    <2>2. m <= k + 1
      BY <1>3, <2>1
    <2>3. ~(m <= k)
      <3> SUFFICES ASSUME m <= k PROVE FALSE
        OBVIOUS
      <3>1. PICK t \in Nat : k = m + t
        <4>1. k - m \in Nat /\ k = m + (k - m)
          BY <1>3
        <4> QED
          BY <4>1
      <3>2. Above(a, m + t) = NoAccount
        BY <1>0, <1>3, EndsForGood
      <3> QED
        BY <1>0, <1>8, <3>1, <3>2 DEF Roots
    <2> QED
      BY <1>3, <1>5, <2>2, <2>3
  \* No account is passed twice, or the way would not end.
  <1>9. ASSUME NEW i \in 0..h, NEW j \in 0..h, i < j PROVE Above(a, i) # Above(a, j)
    <2> SUFFICES ASSUME Above(a, i) = Above(a, j) PROVE FALSE
      OBVIOUS
    <2>1. i \in Nat /\ j \in Nat /\ m - j \in Nat /\ j + (m - j) = m
          /\ i + (m - j) \in Nat /\ ~(m <= i + (m - j))
      BY <1>5, <1>9
    <2>2. \A t \in Nat : Above(a, i + t) = Above(a, j + t)
      BY <1>0, <2>1, SameFromHere
    <2>3. Above(a, i + (m - j)) = NoAccount
      BY <1>3, <2>1, <2>2
    <2> QED
      BY <1>3, <2>1, <2>3
  <1>10. h <= Cardinality(live)
    <2> DEFINE way == [k \in 0..h |-> Above(a, k)]
    <2>1. IsFiniteSet(live) /\ Cardinality(live) \in Nat
      BY LiveIs, FS_Subset, FS_CardinalityType
    <2>2. IsFiniteSet(0..h) /\ Cardinality(0..h) = h + 1
      <3>1. 0 \in Int /\ h \in Int /\ ~(0 > h)
        OBVIOUS
      <3> QED
        BY <3>1, FS_Interval
    <2>3. way \in [0..h -> live]
      BY <1>6
    <2>4. ~ \E i, j \in 0..h : i # j /\ way[i] = way[j]
      <3> SUFFICES ASSUME NEW i \in 0..h, NEW j \in 0..h, i # j PROVE Above(a, i) # Above(a, j)
        OBVIOUS
      <3>1. i < j \/ j < i
        OBVIOUS
      <3> QED
        BY <1>9, <3>1
    <2> HIDE DEF way, live
    <2>5. ~(Cardinality(live) < Cardinality(0..h))
      BY <2>1, <2>2, <2>3, <2>4, FS_PigeonHole
    <2> QED
      BY <2>1, <2>2, <2>5
  <1>11. Height(a) = h
    <2>1. Height(a) \in Nat /\ Above(a, Height(a)) \in Roots
      BY <1>7 DEF Height
    <2> QED
      BY <1>8, <2>1
  <1>12. Cardinality(live) \in Nat
    BY LiveIs, FS_Subset, FS_CardinalityType
  <1>13. Height(a) \in 0..Cardinality(live)
    <2> HIDE DEF live
    <2> QED
      BY <1>10, <1>11, <1>12
  <1> QED
    BY <1>7, <1>8, <1>11, <1>13 DEF RootOf

LEMMA VisitsAre ==
    ASSUME LedgerInv, WholeChart, NEW d \in Live, NEW r \in Roots
    PROVE  Visits(d, r) = IF RootOf(d) = r /\ d # r THEN 1 ELSE 0
  <1> DEFINE size == Cardinality(Node \ deleted)
             passed == {k \in 1..(size + 1) : Above(d, k) = r}
             h == Height(d)
  <1>1. d \in Node \ deleted
    BY LiveIs DEF Live
  <1>2. h \in 0..size /\ size \in Nat /\ \A k \in Nat : Above(d, k) \in Roots => k = h
    <2>1. size \in Nat
      BY LiveIs, FS_Subset, FS_CardinalityType
    <2> QED
      BY <1>1, <2>1, RootIs
  <1>3. Above(d, 0) = d
    BY <1>1, AboveIs
  <1>4. Visits(d, r) = Cardinality(passed)
    BY DEF Visits
  <1> HIDE DEF size
  <1>5. CASE RootOf(d) = r /\ d # r
    <2>1. Above(d, h) = r /\ h # 0
      BY <1>3, <1>5 DEF RootOf
    <2>2. passed = {h}
      <3> HIDE DEF h
      <3> QED
        BY <1>2, <2>1
    <2>3. Cardinality({h}) = 1
      BY FS_Singleton
    <2> QED
      BY <1>4, <1>5, <2>2, <2>3
  <1>6. CASE ~(RootOf(d) = r /\ d # r)
    <2>1. ASSUME NEW k \in 1..(size + 1), Above(d, k) = r PROVE FALSE
      <3>1. k = h /\ RootOf(d) = r
        BY <1>2, <2>1 DEF RootOf
      <3>2. d = r
        BY <1>6, <3>1
      <3>3. h = 0
        BY <1>2, <1>3, <3>2
      <3> HIDE DEF h
      <3> QED
        BY <3>1, <3>3
    <2>2. passed = {}
      BY <2>1
    <2> QED
      BY <1>4, <1>6, <2>2, FS_EmptySet
  <1> QED
    BY <1>5, <1>6

\* A root gathers what stands under it, itself included.
Under(r) == {d \in Live : RootOf(d) = r}

LEMMA RolledUpIs ==
    ASSUME LedgerInv, WholeChart, NEW r \in Roots, NEW v \in [Live -> Int]
    PROVE  RolledUp(r, v) = SumFunction(Restrict(v, Under(r)))
  <1> DEFINE p == [d \in Live |-> Visits(d, r) * v[d]]
             q == [d \in Live |-> IF d = r THEN v[d] ELSE 0]
             s == [d \in Live |-> IF RootOf(d) = r THEN v[d] ELSE 0]
             own == IF r \in Live THEN v[r] ELSE 0
             mine == {d \in Live : d = r}
  <1>1. IsFiniteSet(Live)
    BY LiveIs
  <1>2. ASSUME NEW d \in Live PROVE p[d] \in Int /\ q[d] \in Int /\ s[d] = p[d] + q[d]
    <2>1. Visits(d, r) = IF RootOf(d) = r /\ d # r THEN 1 ELSE 0
      BY VisitsAre
    <2>2. d = r => RootOf(d) = r
      <3> SUFFICES ASSUME d = r PROVE RootOf(d) = r
        OBVIOUS
      <3>1. d \in Node \ deleted
        BY LiveIs DEF Live
      <3>2. Above(d, 0) = d
        BY <3>1, AboveIs
      <3>3. Height(d) = 0
        BY <3>1, <3>2, RootIs
      <3> QED
        BY <3>2, <3>3 DEF RootOf
    <2>3. v[d] \in Int /\ 1 * v[d] = v[d] /\ 0 * v[d] = 0
      OBVIOUS
    <2> QED
      BY <2>1, <2>2, <2>3
  <1>3. /\ DOMAIN p = Live /\ DOMAIN q = Live /\ DOMAIN s = Live /\ DOMAIN v = Live
        /\ Summable(p) /\ Summable(q)
    BY <1>1, <1>2 DEF Summable
  <1>4. Summable(s)
    <2>1. \A d \in Live : s[d] \in Int
      OBVIOUS
    <2> QED
      BY <1>1, <2>1 DEF Summable
  <1>5. /\ Under(r) \in SUBSET Live /\ mine \in SUBSET Live
        /\ \A d \in Live \ Under(r) : s[d] = 0
        /\ \A d \in Live \ mine : q[d] = 0
        /\ Restrict(s, Under(r)) = Restrict(v, Under(r))
    BY DEF Under, Restrict
  <1>6. RolledUp(r, v) = own + SumFunction(p)
    BY DEF RolledUp
  <1>7. SumFunction(Restrict(q, mine)) = own
    <2>1. CASE r \in Live
      <3> DEFINE f == Restrict(q, {})
                 g == Restrict(q, mine)
      <3>1. mine = {r} /\ own = v[r]
        BY <2>1
      <3>2. IsFiniteSet(mine)
        BY <3>1, FS_Singleton
      <3>3. /\ DOMAIN f = {} /\ DOMAIN g = {r} /\ g[r] = v[r] /\ v[r] \in Int
        BY <2>1, <3>1 DEF Restrict
      <3>4. Summable(g) /\ r \notin DOMAIN f /\ DOMAIN g = DOMAIN f \cup {r} /\ Agree(f, g, DOMAIN f)
        BY <3>1, <3>2, <3>3 DEF Summable, Agree
      <3> HIDE DEF f, g, own
      <3>5. SumFunction(g) = SumFunction(f) + g[r]
        BY <3>4, SumAdd
      <3>6. SumFunction(f) = 0
        BY <3>3, SumEmpty
      <3>7. SumFunction(g) = own
        BY <3>1, <3>3, <3>5, <3>6
      <3> QED
        BY <3>7 DEF g
    <2>2. CASE r \notin Live
      <3>1. DOMAIN Restrict(q, mine) = {} /\ own = 0
        BY <2>2 DEF Restrict
      <3> HIDE DEF q, mine, own
      <3> QED
        BY <3>1, SumEmpty
    <2> QED
      BY <2>1, <2>2
  <1> HIDE DEF p, q, s, own, mine
  <1>8. SumFunction(s) = SumFunction(p) + SumFunction(q)
    BY <1>2, <1>3, SumPlus
  <1>9. SumFunction(q) = own
    BY <1>3, <1>5, <1>7, SumSupport
  <1>10. SumFunction(s) = SumFunction(Restrict(v, Under(r)))
    <2>1. SumFunction(s) = SumFunction(Restrict(s, Under(r)))
      BY <1>3, <1>4, <1>5, SumSupport
    <2> QED
      BY <1>5, <2>1
  <1>11. SumFunction(p) \in Int /\ SumFunction(q) \in Int
    BY <1>3, SumType
  <1> QED
    BY <1>6, <1>8, <1>9, <1>10, <1>11

LEMMA TreeAddsUp ==
    ASSUME LedgerInv, WholeChart, NEW v \in [Live -> Int]
    PROVE  SumFunction([r \in Roots |-> RolledUp(r, v)]) = SumFunction(v)
  <1> DEFINE g == [r \in Roots |-> RolledUp(r, v)]
             root == [d \in Live |-> RootOf(d)]
  <1>1. Summable(v) /\ DOMAIN v = Live
    BY LiveIs DEF Summable
  <1>2. IsFiniteSet(Roots)
    <2>1. Roots \in SUBSET Node
      BY DEF Roots
    <2> QED
      BY <2>1, LiveIs, FS_Subset
  <1>3. ASSUME NEW d \in Live PROVE root[d] \in Roots
    <2>1. d \in Node \ deleted
      BY LiveIs DEF Live
    <2> QED
      BY <2>1, RootIs
  <1>4. ASSUME NEW r \in Roots PROVE g[r] = SumFunction(Restrict(v, Fiber(v, root, r)))
    <2>1. Fiber(v, root, r) = Under(r)
      BY <1>1 DEF Fiber, Under
    <2> QED
      BY <2>1, RolledUpIs
  <1>5. DOMAIN g = Roots
    OBVIOUS
  <1> HIDE DEF g, root
  <1>6. SumFunction(g) = SumFunction(v)
    BY <1>1, <1>2, <1>3, <1>4, <1>5, SumFibers
  <1> QED
    BY <1>6 DEF g

\* Whatever is posted in whatever order: the statements of a whole chart foot,
\* balance and add up, and the pages of every account's ledger chain.
THEOREM ReportsAreOne == ReportSpec => []ReportsAgree
  <1>1. LedgerInv => StatementsAgree
    <2> SUFFICES ASSUME LedgerInv, WholeChart, NEW asOf \in Dates
                 PROVE  LET debit == [a \in Live |-> Positive(Net(a, 0, asOf))]
                            credit == [a \in Live |-> Positive(-Net(a, 0, asOf))]
                        IN  /\ TotalDebit(asOf) = TotalCredit(asOf)
                            /\ Assets(asOf) = LiabilitiesAndEquity(asOf)
                            /\ SumFunction([r \in Roots |-> RolledUp(r, debit)]) = TotalDebit(asOf)
                            /\ SumFunction([r \in Roots |-> RolledUp(r, credit)]) = TotalCredit(asOf)
                            /\ \A mid \in Dates : mid < asOf =>
                                  NetIncome(0, mid) + NetIncome(mid + 1, asOf) = NetIncome(0, asOf)
      BY DEF StatementsAgree
    <2> DEFINE debit == [a \in Live |-> Positive(Net(a, 0, asOf))]
               credit == [a \in Live |-> Positive(-Net(a, 0, asOf))]
    <2>1. debit \in [Live -> Int] /\ credit \in [Live -> Int]
      <3>1. \A a \in Live : Net(a, 0, asOf) \in Int
        BY NetIs
      <3> QED
        BY <3>1 DEF Positive
    <2>2. TotalDebit(asOf) = SumFunction(debit) /\ TotalCredit(asOf) = SumFunction(credit)
      BY DEF TotalDebit, TotalCredit
    <2> HIDE DEF debit, credit
    <2>3. /\ SumFunction([r \in Roots |-> RolledUp(r, debit)]) = SumFunction(debit)
          /\ SumFunction([r \in Roots |-> RolledUp(r, credit)]) = SumFunction(credit)
      BY <2>1, TreeAddsUp
    <2>4. TotalDebit(asOf) = TotalCredit(asOf) /\ Assets(asOf) = LiabilitiesAndEquity(asOf)
      BY TotalsFoot, SheetBalances
    <2>5. \A mid \in Dates : mid < asOf =>
              NetIncome(0, mid) + NetIncome(mid + 1, asOf) = NetIncome(0, asOf)
      BY EarningsAdd
    <2> QED
      BY <2>2, <2>3, <2>4, <2>5 DEF debit, credit
  <1>2. ReportInv => ReportsAgree
    BY <1>1, PagesAgree DEF ReportInv, ReportsAgree
  <1> QED
    BY <1>2, ReportStart, ReportStep, PTL DEF ReportSpec
=============================================================================
