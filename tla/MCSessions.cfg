\* Two sessions of one device, three refreshes at a time, five token pairs; the
\* statements of one of the refreshes may fail.
SPECIFICATION FairSpec
CONSTANTS
    phone = phone
    r1 = r1
    r2 = r2
    q1 = q1
    q2 = q2
    q3 = q3
    NoSession = NoSession
    SessionIds <- MCSessions2
    DeviceOf <- MCDeviceOf2
    Requests <- MCRequests3
    MaxTokens = 5
    Fallible <- MCFallible
INVARIANTS
    ExchangedOnce
PROPERTIES
    RefreshIsAtomic
    DoubleSpendRevokes
    PreviousTokenRevokes
