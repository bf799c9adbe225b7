\* A CurrentUserPrivileges() read between the two stores of the slice header.
CONSTANTS
    UserConfigured = TRUE
    MaxRefreshes <- MCMaxRefreshes
    MaxAlerts <- MCMaxAlerts
    Capacity <- MCCapacity
    MaxRuns <- MCMaxRuns
    MailerConfigured = TRUE
SPECIFICATION Spec
INVARIANT PrivilegesNotTorn
