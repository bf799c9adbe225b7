\* Disk() reads c.aggNodeCalcStats twice without c.mutex.
SPECIFICATION Spec
CONSTANTS
    Handlers <- OneHandler
    AliasValues <- AliasAlwaysNamed
    MailerConfigured = FALSE
    NoG = NoG
    t1 = t1
    t2 = t2
INVARIANT DiskNotTorn
