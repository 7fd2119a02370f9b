SPECIFICATION Spec
CONSTANTS
    inv = inv  r1 = r1  r2 = r2  r3 = r3  note = note
    st1 = st1  st2 = st2  noref = noref  rA = rA  rB = rB
    p1 = p1  p2 = p2  l1 = l1  l2 = l2  l3 = l3  acc1 = acc1  acc2 = acc2  any = any
    mA = mA  mB = mB  mC = mC  mM = mM  chA = chA  chB = chB  null = null
    bank = bank  ar = ar  rev = rev  exp = exp  cap = cap  head = head  top = top  noacc = noacc
    Invoice = {inv}
    Payment = {r1, r2, r3, note}
    Base <- Bases
    Rate <- Rates
    Tax <- Taxes
    Month <- Months
    HasFxAccount = TRUE
    Request = {2, 3, 9}
    Unlinkable = {"pair"}
    MaxLinks = 4
    MaxCheckNumber = 3
    Count = {1, 2}
    Statement = {st1, st2}
    Entry = {1, 2, 3}
    EntryAmount <- EntryAmounts
    EntryRef <- EntryRefs
    NoRef = noref
    StatementLine <- StatementLines
    MaxStatement = 2
    TagPeriod = {p1, p2}
    From <- Starts
    To <- Ends2
    TagLine = {l1, l2, l3}
    DateOf <- LineDates
    AccountOf <- LineAccounts
    Tag = {"old", "a", "b"}
    Untagged = "old"
    Rules <- TagRules
    AnyAccount = any
    Days = {1, 2, 3}
    MaxRuns = 2
    AccountId = {mA, mB, mC, mM}
    Manual = {mM}
    IdOf <- DerivedIds
    Dataset <- Datasets
    ChartCode <- Charts
    CodeOf <- Codes
    Number = {"1.1", "11", "2"}
    Code = {1, 2}
    Null = null
    Ledger = {bank, ar, rev, exp, cap}
    Header = {head, top}
    NoAccount = noacc
    TypeOf <- Types
    Parents <- Moves
    Deletable = {bank, top}
    Entries <- SomeEntries
    Drafts <- ByHand
    Receivable = ar
    Dates = {1, 2, 3}
INVARIANTS TaxFollowsPayment BooksFollowPartials NumbersUnbroken MatchIsMaximal ReportsAgree ResidualsTie
PROPERTIES LockedLinesKeepTags InstallAbsorbsNothing
CHECK_DEADLOCK FALSE
