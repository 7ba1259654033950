SPECIFICATION FairSpec
CONSTANT Requests <- MCRequests
CHECK_DEADLOCK FALSE
INVARIANTS SuccessIsLatest RetryDiscipline LeftoversTimedOut
PROPERTY CallerAnswered
