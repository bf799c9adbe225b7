\* No alias, or SetAlias("") cleared it: Alias() then takes the read lock twice.
SPECIFICATION Spec
CONSTANTS
    Handlers <- OneHandler
    AliasValues <- AliasMayClear
    MailerConfigured = TRUE
    NoG = NoG
    t1 = t1
    t2 = t2
CHECK_DEADLOCK FALSE
PROPERTY RefreshAlwaysCompletes
