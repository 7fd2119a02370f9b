---------------------------- MODULE CheckPrinting ----------------------------
(***************************************************************************)
(* CheckPrintingService: the check numbers of one bank journal.  Every     *)
(* transaction locks the row of the sequence before it does anything, so   *)
(* each is one step; one that is refused rolls back and is no step.        *)
(*                                                                         *)
(* A manual number is kept as the officer wrote it: "007" and "7" are two  *)
(* strings, told apart here as padded and plain.                           *)
(***************************************************************************)
EXTENDS Integers, Sequences

CONSTANTS
    MaxCheckNumber,     \* MAX_CHECK_NUMBER
    Count               \* how many numbers callers allocate at a time

ASSUME CheckAssumption == MaxCheckNumber \in Nat \ {0} /\ Count \subseteq Nat \ {0}

VARIABLES
    sequence,    \* bank_check_sequences: mode ("none" without a row) and next
    printed,     \* printed_checks
    first,       \* next_number at the last registration
    handed       \* numbers given out since, in order

checkVars == <<sequence, printed, first, handed>>

Check == [number : 1..MaxCheckNumber, form : {"plain", "padded"}]

CheckInit ==
    /\ sequence = [mode |-> "none", next |-> 1]
    /\ printed = [c \in Check |-> "never"]
    /\ first = 1 /\ handed = << >>

\* register_sequence inserts the row or replaces what it says.
Register(mode, n) ==
    /\ sequence' = [mode |-> mode, next |-> n]
    /\ first' = n /\ handed' = << >>
    /\ UNCHANGED printed

\* allocate_check_numbers_on: the cursor is bumped, and an overflow refused
\* after the fact.
Allocated(count) ==
    /\ sequence.mode = "auto"
    /\ sequence.next + count - 1 <= MaxCheckNumber
    /\ sequence' = [sequence EXCEPT !.next = @ + count]
    /\ handed' = handed \o [k \in 1..count |-> sequence.next + k - 1]

Allocate(count) == Allocated(count) /\ UNCHANGED <<printed, first>>

\* The registry row; uq_printed_checks_bank_number holds for voided ones too.
WriteCheck(c) ==
    /\ printed[c] = "never"
    /\ printed' = [printed EXCEPT ![c] = "printed"]

RecordAutoCommitsBump ==       \* bug: the bump survives a duplicate number
    LET c == [number |-> sequence.next, form |-> "plain"] IN
    /\ sequence.mode = "auto" /\ sequence.next <= MaxCheckNumber
    /\ UNCHANGED first
    /\ sequence' = [sequence EXCEPT !.next = @ + 1]
    /\ \/ printed[c] # "never" /\ UNCHANGED <<printed, handed>>
       \/ WriteCheck(c) /\ handed' = Append(handed, c.number)

\* record_printed_check: the number and the registry row, or neither.
RecordAuto ==
    /\ Allocated(1)
    /\ WriteCheck([number |-> sequence.next, form |-> "plain"])
    /\ UNCHANGED first

RecordManual(c) ==
    /\ sequence.mode = "manual"
    /\ WriteCheck(c)
    /\ UNCHANGED <<sequence, first, handed>>

\* A voided number stays consumed.
Void(c) ==
    /\ printed[c] = "printed"
    /\ printed' = [printed EXCEPT ![c] = "voided"]
    /\ UNCHANGED <<sequence, first, handed>>

CheckNext ==
    \/ \E mode \in {"auto", "manual"}, n \in 1..MaxCheckNumber : Register(mode, n)
    \/ \E count \in Count : Allocate(count)
    \/ RecordAuto
    \/ \E c \in Check : RecordManual(c) \/ Void(c)

CheckSpec == CheckInit /\ [][CheckNext]_checkVars

-----------------------------------------------------------------------------
\* "There is no window in which two callers read the same cursor" and "no
\* number is consumed" by a refusal: however allocations, prints and refusals
\* mix, the numbers given out since a registration are consecutive, end below
\* the cursor and never exceed the ceiling.
NumbersUnbroken ==
    /\ handed = [k \in 1..(sequence.next - first) |-> first + k - 1]
    /\ sequence.next <= MaxCheckNumber + 1
=============================================================================
