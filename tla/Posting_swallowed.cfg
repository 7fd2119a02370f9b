SPECIFICATION Spec
CONSTANTS
    c1 = c1  c2 = c2  c3 = c3  c4 = c4  k1 = k1  k2 = k2  s1 = s1  s2 = s2  p1 = p1
    Nil = Nil
    Call = {c1, c2}
    Account = {1, 2, 3}
    NormalDebit = {1, 2}
    PartyAccount = {2}
    Opening <- SomeOpening
    Key = {k1, k2}
    Source = {s1, s2}
    Period = {p1}
    Req <- MixedReq
    Verdict = {"within"}
    StatusMoves = {}
    PeriodMoves = {}
INVARIANT ReuseIsArbitrated
