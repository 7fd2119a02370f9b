SPECIFICATION FairSpec
CONSTANTS
    c1 = c1  c2 = c2  c3 = c3  a1 = a1  a2 = a2  w1 = w1  w2 = w2  rev = rev  exp = exp
    Closer = {c1, c2, c3}
    Admin = {a1, a2}
    Verb <- Verbs
    Writer = {w1, w2}
    PL = {rev, exp}
    Effect <- Sales
    Starting <- SomeLoss
    Faulty = {c1, c2}
    Mortal = {c1}
INVARIANTS TypeOK ClaimExclusive NothingRolledTwice ClosedIsZero
PROPERTIES LockedIsFinal AdjustingIsRestored ClaimReleased
