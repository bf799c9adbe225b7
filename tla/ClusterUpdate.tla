---------------------------- MODULE ClusterUpdate ----------------------------
(***************************************************************************)
(* Cluster.update as the composition of the client-handle refresh         *)
(* (ClusterClient) and alert notification (Mailer).  They meet at update's *)
(* deferred `go c.SendEmailNotifications()`: whichever way update returns  *)
(* (an early return at its gates, a panic absorbed by recover(), or the    *)
(* end of the pipeline) the step that returns also spawns the notifier.   *)
(* Every other step belongs to one of the two and leaves the other's      *)
(* variables alone.                                                        *)
(***************************************************************************)
EXTENDS Naturals

CONSTANTS
    UserConfigured, MaxRefreshes,                      \* ClusterClient
    MaxAlerts, Capacity, MaxRuns, MailerConfigured     \* Mailer

VARIABLES
    client, rpc, refreshes, privPtr, privLen, privTorn,
    raised, bucket, cursor, runs, sender, attempts, delivered, drained,
    owed        \* alerts undrained in the bucket when some update returned

cvars == <<client, rpc, refreshes, privPtr, privLen, privTorn>>
mvars == <<raised, bucket, cursor, runs, sender, attempts, delivered, drained>>
vars == <<cvars, mvars, owed>>

C == INSTANCE ClusterClient
M == INSTANCE Mailer

\* A refresh step after which update has returned.
Returns == rpc # "idle" /\ rpc' = "idle"

Init == C!Init /\ M!Init /\ owed = {}

\* The alerts a notifier spawned now will find.
Owe == owed' = owed \cup M!NewAlerts

\* Mutant: the spawn is the last statement of update, not deferred.
UpdateReturnsNotDeferred ==
    /\ C!Step /\ Returns
    /\ IF rpc = "rest" THEN M!SpawnNotifier ELSE UNCHANGED mvars
    /\ Owe

\* update returns; its deferred function starts the notifier goroutine.
UpdateReturns ==
    /\ C!Step /\ Returns
    /\ M!SpawnNotifier
    /\ Owe

\* A refresh step inside update.
UpdateStep ==
    /\ C!Step /\ ~Returns
    /\ UNCHANGED <<mvars, owed>>

\* Dispatch, eviction and privilege reads.
ClientEnv ==
    /\ C!StartRefresh \/ C!CloseAndUnset \/ C!CurrentUserPrivileges
    /\ UNCHANGED <<mvars, owed>>

\* Alerts, the notifier and the senders.
MailStep ==
    /\ M!AddAlert \/ M!Notify \/ \E a \in M!Ids : M!SendAttempt(a) \/ M!WakeUp(a)
    /\ UNCHANGED <<cvars, owed>>

Next == UpdateReturns \/ UpdateStep \/ ClientEnv \/ MailStep

\* The refresh goroutine, the notifier and the senders are scheduled.
Fairness ==
    /\ WF_vars(UpdateReturns \/ UpdateStep)
    /\ WF_vars(MailStep /\ M!Notify)
    /\ \A a \in M!Ids : /\ WF_vars(MailStep /\ M!SendAttempt(a))
                        /\ WF_vars(MailStep /\ M!WakeUp(a))

Spec == Init /\ [][Next]_vars /\ Fairness

-----------------------------------------------------------------------------
(* Properties                                                              *)

TypeOK == C!TypeOK /\ M!TypeOK /\ owed \subseteq M!Ids

AtMostFiveAttempts == M!AtMostFiveAttempts

\* ... none after a successful one ...
NoAttemptAfterSuccess == M!NoAttemptAfterSuccess

PrivilegesNotTorn == C!PrivilegesNotTorn

\* Whichever way update returns (an early return at its gates, a panic on
\* an evicted client absorbed by recover(), or the end of the pipeline),
\* an alert waiting in the bucket at that moment is eventually drained by
\* a notifier, unless newer alerts push it out of the bucket first.
OwedAlertsDrained ==
    \A a \in M!Ids : (a \in owed) ~> (a \in drained \/ a \notin bucket)

=============================================================================
