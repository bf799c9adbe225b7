\* The alias is set when the cluster is registered and never cleared: the
\* refresh, the mail goroutine and two handlers share c.mutex.  With the
\* alias set no goroutine takes a nested read lock, and deadlock checking
\* stays on.
SPECIFICATION Spec
CONSTANTS
    Handlers <- TwoHandlers
    AliasValues <- AliasAlwaysNamed
    MailerConfigured = TRUE
    NoG = NoG
    t1 = t1
    t2 = t2
INVARIANT TypeOK
