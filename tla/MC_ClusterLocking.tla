------------------------- MODULE MC_ClusterLocking -------------------------
EXTENDS ClusterLocking

CONSTANTS t1, t2

TwoHandlers == {t1, t2}
OneHandler == {t1}

\* SetAlias is only ever called with a non-empty name.
AliasAlwaysNamed == {"dc-east"}

\* SetAlias may also clear the alias.
AliasMayClear == {"dc-east", ""}
=============================================================================
