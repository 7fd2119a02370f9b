SPECIFICATION FairSpec
CONSTANTS
    Nil = Nil  s1 = s1  s2 = s2
    Session = {s1, s2}
    Line = {1, 2, 3, 4}
    Debit <- Debits
    Face <- Faces
    Pairable <- Pairs
    Reversal <- Reversals
    Amount = {2}
    MaxEdge = 2
INVARIANTS TypeOK NothingOverApplied StampedIsSettled
PROPERTIES HeldIsStable LinkStampsSettled FreedIsReversed EveryVerbEnds
