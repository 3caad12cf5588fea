CONSTANTS
    Limit = 3
    Counts = {0, 1, 2, 5, 9}
SPECIFICATION Spec
INVARIANTS BatchInv ResultIsFinal FailureBudget BatchProgress
PROPERTIES BatchReturns
