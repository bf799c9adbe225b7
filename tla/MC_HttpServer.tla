--------------------------- MODULE MC_HttpServer ---------------------------
EXTENDS HttpServer

CONSTANTS c1, c2, p1, p2

OneClient == {c1}
TwoClients == {c1, c2}
TwoPorts == {p1, p2}
OnePort == {p1}

MCUsers == {"", "admin"}
MCPasswords == {"", "pw"}
MCDurations == {0, 2}
MCServices == {"start", "restart", "stop", ""}

\* Every combination of static path, basic-auth settings in the config
\* file and in AMC_AUTH_USER / AMC_AUTH_PASSWORD, and a CertFile.
AllConfigs ==
    [static : BOOLEAN, user : MCUsers, pass : MCPasswords,
     envUser : MCUsers, envPass : MCPasswords, cert : BOOLEAN]

\* A served configuration with basic auth from the config file only.
PlainConfig ==
    {[static |-> TRUE, user |-> "admin", pass |-> "pw",
      envUser |-> "", envPass |-> "", cert |-> FALSE]}
=============================================================================
