---------------------------- MODULE ChartInstall ----------------------------
(***************************************************************************)
(* ChartInstallService: the accounts of a dataset are written over the     *)
(* chart that is there, if nothing but its own rows is in the way.  The    *)
(* gates read and the upserts write in one READ COMMITTED transaction      *)
(* without locks, and no unique index is left on numbers and codes, so     *)
(* what managers do in between matters.  Creations, renumberings and other *)
(* installs are kept out of that window here; the README says what they    *)
(* do in it.  Paths and levels, which follow from the parents, are left    *)
(* out, and so are the names and settings an install leaves to managers.   *)
(***************************************************************************)
EXTENDS Integers, FiniteSets

CONSTANTS
    AccountId,   \* ids, those derived from a chart and a code among them
    Manual,      \* ids of accounts managers create
    IdOf,        \* <<chart, code>> -> id: deterministic_id
    Dataset,     \* registered datasets: sets of numbers, by version
    ChartCode,   \* the chart each is a version of
    Number, Code,
    CodeOf,      \* the code of a number in a dataset: its dots are stripped
    Null

ASSUME ChartAssumption ==
    /\ Null \notin DOMAIN Dataset /\ Manual \subseteq AccountId
    /\ CodeOf \in [Number -> Code]
    /\ \A v \in DOMAIN Dataset : Dataset[v] \subseteq Number

\* Ids are hashes that do not collide.
ASSUME HashAssumption ==
    \A v \in DOMAIN Dataset : \A m, n \in Dataset[v] :
        LET id(k) == IdOf[ChartCode[v], CodeOf[k]]
        IN  id(m) \in AccountId /\ (id(m) = id(n) => CodeOf[m] = CodeOf[n])

VARIABLES
    chart,       \* accounting.accounts, by id
    hasLines,    \* journal lines exist
    gate         \* the version whose install is past its gates

chartVars == <<chart, hasLines, gate>>

Absent == [live |-> FALSE, number |-> Null, code |-> Null, chart |-> Null]

ChartInit ==
    /\ chart = [i \in AccountId |-> Absent]
    /\ hasLines = FALSE
    /\ gate = Null

\* validate_dataset: no number, hence no code, is there twice.
Valid(v) == \A m, n \in Dataset[v] : CodeOf[m] = CodeOf[n] => m = n

Rows(v) == {[id |-> IdOf[ChartCode[v], CodeOf[n]], code |-> CodeOf[n], number |-> n] :
               n \in Dataset[v]}

\* overlapping_accounts.
Overlapping(v) ==
    {i \in AccountId :
        /\ chart[i].live
        /\ \E r \in Rows(v) : r.number = chart[i].number \/ r.code = chart[i].code}

OwnByChart(v, i) ==            \* bug: any row of the chart is the engine's own
    chart[i].chart = ChartCode[v]

\* The engine's own row: derived id, same chart, and not moved off both its
\* number and its code.
Own(v, i) ==
    /\ chart[i].chart = ChartCode[v]
    /\ \E r \in Rows(v) : r.id = i /\ (r.number = chart[i].number \/ r.code = chart[i].code)

\* The gates of install: bad datasets, live books and foreign overlaps are
\* refused.
PassGates(v) ==
    /\ gate = Null
    /\ Valid(v)
    /\ ~hasLines
    /\ \A i \in Overlapping(v) : Own(v, i)
    /\ gate' = v
    /\ UNCHANGED <<chart, hasLines>>

\* upsert_account for every row: what the engine owns is rewritten, a deleted
\* row comes back.
WriteChart ==
    /\ gate # Null
    /\ chart' = [i \in AccountId |->
          IF \E r \in Rows(gate) : r.id = i
          THEN LET r == CHOOSE x \in Rows(gate) : x.id = i
               IN  [live |-> TRUE, number |-> r.number, code |-> r.code,
                    chart |-> ChartCode[gate]]
          ELSE chart[i]]
    /\ gate' = Null
    /\ UNCHANGED hasLines

\* What managers do through the generic account routes, which check nothing.
CreateAccount(i, n, c) ==
    /\ gate = Null /\ chart[i] = Absent
    /\ chart' = [chart EXCEPT ![i] = [live |-> TRUE, number |-> n, code |-> c, chart |-> Null]]
    /\ UNCHANGED <<hasLines, gate>>

Renumber(i, n, c) ==
    /\ gate = Null /\ chart[i].live
    /\ chart' = [chart EXCEPT ![i].number = n, ![i].code = c]
    /\ UNCHANGED <<hasLines, gate>>

DeleteSoftly(i) ==
    /\ chart[i].live
    /\ chart' = [chart EXCEPT ![i].live = FALSE]
    /\ UNCHANGED <<hasLines, gate>>

FirstPosting ==
    /\ ~hasLines
    /\ hasLines' = TRUE
    /\ UNCHANGED <<chart, gate>>

ChartNext ==
    \/ \E v \in DOMAIN Dataset : PassGates(v)
    \/ WriteChart
    \/ \E i \in Manual, n \in Number, c \in Code : CreateAccount(i, n, c)
    \/ \E i \in AccountId : DeleteSoftly(i)
    \/ \E i \in AccountId, n \in Number, c \in Code : Renumber(i, n, c)
    \/ FirstPosting

ChartSpec == ChartInit /\ [][ChartNext]_chartVars

-----------------------------------------------------------------------------
Unique(C) ==
    \A i, j \in AccountId : i # j /\ C[i].live /\ C[j].live =>
        C[i].number # C[j].number /\ C[i].code # C[j].code

\* "Manual accounts and other charts' accounts are never absorbed": whatever
\* was renumbered, dropped from a version or deleted before, an install over a
\* chart whose numbers and codes are unique leaves them unique, and rows that
\* are not in the dataset as they were.
InstallAbsorbsNothing ==
    [][gate # Null /\ gate' = Null =>
          /\ Unique(chart) => Unique(chart')
          /\ \A i \in AccountId :
                (\A r \in Rows(gate) : r.id # i) => chart'[i] = chart[i]]_chartVars
=============================================================================
