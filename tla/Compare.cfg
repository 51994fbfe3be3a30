SPECIFICATION Spec
CONSTANTS
    r1 = r1
    r2 = r2
    one = one
    oneText = oneText
    two = two
    NoId = none
    Null = null
    TextOf <- Texts
    Runs = {r1, r2}
    RecordsOf <- TwoLists
    Samples <- ShortLists
    MaxLosses = 2
    MaxCommits = 8
INVARIANTS TypeOK AnswersAreTrue ReadsWhatTheSummaryNames FinishedIsReadable DifferenceIsExact
CHECK_DEADLOCK FALSE
