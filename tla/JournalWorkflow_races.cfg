SPECIFICATION FairSpec
CONSTANTS
    c1 = c1  c2 = c2  c3 = c3  c4 = c4  c5 = c5  c6 = c6
    alice = alice  bob = bob  carol = carol  Nil = Nil
    Call = {c1, c2, c3, c4, c5, c6}
    Verb <- Verbs
    Person <- People
    Creator = alice
    AllowSelf = FALSE
    Mortal = {c2, c4, c5}
INVARIANTS TypeOK LedgerFollowsStatus PostedOnce AnswersStand
PROPERTY VoidResumes
