SPECIFICATION Spec
CONSTANTS
    MaxJobs = 3
    MaxEdits = 2
INVARIANTS
    TypeOK
    ReceiptHonest
    RetryPossible
PROPERTIES
    StartsVerified
    KeepsGood
CHECK_DEADLOCK FALSE
