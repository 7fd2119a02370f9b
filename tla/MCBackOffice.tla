---------------------------- MODULE MCBackOffice ----------------------------
(***************************************************************************)
(* The components that share no state with posting beyond reading it, in   *)
(* one instance for TLC.  They do not meet in the code either, so a scene  *)
(* is chosen at the start and only its component moves: the state spaces   *)
(* add up instead of multiplying.                                          *)
(***************************************************************************)
EXTENDS SettlementMoves, CheckPrinting, BankReconciliation, TaxTagRepair,
        ChartInstall, Reports, TLC

CONSTANTS inv, r1, r2, r3, note,               \* receivable lines
          st1, st2, noref, rA, rB,             \* statements and references
          p1, p2, l1, l2, l3, acc1, acc2, any,   \* periods, lines, accounts
          mA, mB, mC, mM, chA, chB, null,   \* account ids and charts
          bank, ar, rev, exp, cap, head, top, noacc

VARIABLE scene

-----------------------------------------------------------------------------
(* An invoice of 9 at rate 3 that deferred 5, receipts that pay it in      *)
(* parts, one at rate 2, and a credit note that deferred 2 itself.         *)

Bases == inv :> 9 @@ r1 :> 3 @@ r2 :> 4 @@ r3 :> 2 @@ note :> 3
Rates == inv :> 3 @@ r1 :> 3 @@ r2 :> 3 @@ r3 :> 2 @@ note :> 3
Taxes == inv :> 5 @@ r1 :> 0 @@ r2 :> 0 @@ r3 :> 0 @@ note :> 2
Months == inv :> 1 @@ r1 :> 1 @@ r2 :> 2 @@ r3 :> 2 @@ note :> 1

\* Two receipts of one amount with references, a third of another amount.
EntryAmounts == <<1, 1, 2>>
EntryRefs == <<rA, rB, rA>>
StatementLines == [amount : {1, 2}, ref : {rA, rB, noref}]

\* Two periods of two days, lines on either side of their border.
Starts == p1 :> 1 @@ p2 :> 3
Ends2 == p1 :> 2 @@ p2 :> 4
LineDates == l1 :> 1 @@ l2 :> 2 @@ l3 :> 3
LineAccounts == l1 :> acc1 @@ l2 :> acc2 @@ l3 :> acc1
TagRules == {<<[account |-> acc1, tags |-> "a"]>>,
             <<[account |-> any, tags |-> "b"], [account |-> acc2, tags |-> "a"]>>}

\* Numbers "1.1", "11" and "2", the first two of one code; versions of chart A
\* that move a dot, add an account, drop one and have one twice; a chart B.
Codes == "1.1" :> 1 @@ "11" :> 1 @@ "2" :> 2
DerivedIds == [x \in {chA, chB} \X {1, 2} |->
    IF x[1] = chB THEN mB ELSE IF x[2] = 1 THEN mA ELSE mC]
Datasets == "A1" :> {"1.1"} @@ "A2" :> {"11", "2"} @@ "A3" :> {"2"} @@
            "A4" :> {"1.1", "11"} @@ "B1" :> {"11"}
Charts == "A1" :> chA @@ "A2" :> chA @@ "A3" :> chA @@ "A4" :> chA @@
          "B1" :> chB

\* A sale, its receipt and capital; by hand a sale that the ledger has two days
\* after its own date and a write-off that it has the day before.
E(t, d, x, y, n) ==
    [transaction |-> t, date |-> d, debit |-> x, credit |-> y, amount |-> n]
ByHand == {E(1, 3, ar, rev, 1), E(3, 2, exp, ar, 1)}
SomeEntries == {E(1, 1, ar, rev, 3), E(2, 2, bank, ar, 2), E(1, 1, bank, cap, 2)} \cup ByHand
Types == bank :> "asset" @@ ar :> "asset" @@ rev :> "revenue" @@
         exp :> "expense" @@ cap :> "equity"
Moves == {<<bank, head>>, <<head, top>>}

-----------------------------------------------------------------------------
Init ==
    /\ scene \in {"moves", "checks", "bank", "repair", "chart", "reports"}
    /\ MoveInit /\ CheckInit /\ BankInit /\ RepairInit /\ ChartInit /\ ReportInit

Others(mine) ==
    /\ UNCHANGED scene
    /\ mine # "moves" => UNCHANGED moveVars
    /\ mine # "checks" => UNCHANGED checkVars
    /\ mine # "bank" => UNCHANGED bankVars
    /\ mine # "repair" => UNCHANGED repairVars
    /\ mine # "chart" => UNCHANGED chartVars
    /\ mine # "reports" => UNCHANGED reportVars

Next ==
    \/ scene = "moves" /\ MoveNext /\ Others("moves")
    \/ scene = "checks" /\ CheckNext /\ Others("checks")
    \/ scene = "bank" /\ BankNext /\ Others("bank")
    \/ scene = "repair" /\ RepairNext /\ Others("repair")
    \/ scene = "chart" /\ ChartNext /\ Others("chart")
    \/ scene = "reports" /\ ReportNext /\ Others("reports")

Spec == Init /\ [][Next]_<<scene, moveVars, checkVars, bankVars, repairVars, chartVars, reportVars>>
=============================================================================
