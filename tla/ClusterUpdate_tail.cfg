\* Updates that return early, end through recover() after an eviction, or
\* run to the end, each spawning the notifier; alerts, retries and
\* privilege reads in between.
CONSTANTS
    UserConfigured = TRUE
    MaxRefreshes <- MCMaxRefreshes
    MaxAlerts <- MCMaxAlerts
    Capacity <- MCCapacity
    MaxRuns <- MCMaxRuns
    MailerConfigured = TRUE
SPECIFICATION Spec
INVARIANT TypeOK
INVARIANT AtMostFiveAttempts
PROPERTY NoAttemptAfterSuccess
 
 
PROPERTY OwedAlertsDrained
\* All updates and alerts done, every sender finished: no step follows.
CHECK_DEADLOCK FALSE
