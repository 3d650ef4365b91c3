\* Up to three attempts of an operation with a timeout; delays that grow past
\* the cap and past the width, with and without jitter, and a delay of zero.
SPECIFICATION FairSpec
CONSTANTS
    MaxRetries = {0, 1, 2}
    BaseDelays = {0, 10}
    Backoffs = {2, 3, 4, 6}
    MaxDelays = {15, 31}
    Rands = {0, 500, 999}
    SizeMax = 15
    LongMax = 31
INVARIANTS
    RetryTypeOK
    NoOrphanedOperation
    ResultEarned
    BackoffFollowed
PROPERTIES
    RetryEnds
CHECK_DEADLOCK FALSE
