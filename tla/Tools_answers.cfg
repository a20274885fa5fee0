SPECIFICATION Spec
CONSTANTS
    Null = Null
    NumericIds = {"7"}
    Undefined = Undefined
    Projects <- MCProjects
    Fixture <- MCFixture
    Labels = {"cat"}
    Filters <- MCFilters
    Limits = {1, 50}
INVARIANTS
    NothingLostSilently
    ValidIsShown
    CuesAccounted
    SummarySpanFindsAll
    SearchAgreesWithSummary
    SearchSharesAnInstant
    RefusedIsNotValid
