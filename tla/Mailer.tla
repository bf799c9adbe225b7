------------------------------- MODULE Mailer -------------------------------
(***************************************************************************)
(* Alert notification of one Cluster (models/cluster.go):                  *)
(* Cluster.update defers `go c.SendEmailNotifications()`; that goroutine   *)
(* drains the new alerts of c.alerts and, when Mailer.Host is configured,  *)
(* starts one sender goroutine per alert, which calls mailer.SendMail up  *)
(* to 5 times, sleeping 5 s after each failure and stopping at the first  *)
(* success.                                                                *)
(*                                                                         *)
(* The alert bucket (common.AlertBucket) is not in this source; it is     *)
(* modelled from the spec: a bounded FIFO of alerts with increasing ids   *)
(* that drops the oldest when full, and a cursor for DrainNewAlerts.      *)
(***************************************************************************)
EXTENDS Naturals, FiniteSets

CONSTANTS
    MaxAlerts,         \* alerts raised in a behaviour (ids 1..MaxAlerts)
    Capacity,          \* bucket capacity (50 in newCluster)
    MaxRuns,           \* SendEmailNotifications goroutines not yet run
    MailerConfigured   \* len(Mailer.Host) > 0

Ids == 1..MaxAlerts

\* for i := 0; i < 5; i++ { ... }
MaxAttempts == 5

VARIABLES
    raised,     \* id of the latest alert added to the bucket
    bucket,     \* ids the bucket still holds
    cursor,     \* id of the latest alert drained
    runs,       \* SendEmailNotifications goroutines spawned, not yet run
    sender,     \* state of the sender goroutine of each alert
    attempts,   \* SendMail calls made for each alert
    delivered,  \* alerts whose mail went out
    drained     \* alerts some DrainNewAlerts returned (newAlerts)

vars == <<raised, bucket, cursor, runs, sender, attempts, delivered, drained>>

SenderStates == {"none", "ready", "sleeping", "done"}

-----------------------------------------------------------------------------
(* The alert bucket (from the spec)                                        *)

\* Add: the next id; the oldest alert is dropped when the bucket is full.
AddAlert ==
    /\ raised < MaxAlerts
    /\ raised' = raised + 1
    /\ bucket' = IF Cardinality(bucket) = Capacity
                   THEN (bucket \ {CHOOSE a \in bucket : \A b \in bucket : a <= b})
                        \cup {raised + 1}
                   ELSE bucket \cup {raised + 1}
    /\ UNCHANGED <<cursor, runs, sender, attempts, delivered, drained>>

\* DrainNewAlerts: the alerts newer than the cursor; the cursor advances.
NewAlerts == {a \in bucket : a > cursor}

-----------------------------------------------------------------------------

Init ==
    /\ raised = 0
    /\ bucket = {}
    /\ cursor = 0
    /\ runs = 0
    /\ sender = [a \in Ids |-> "none"]
    /\ attempts = [a \in Ids |-> 0]
    /\ delivered = {}
    /\ drained = {}

\* defer func() { go c.SendEmailNotifications() }() in Cluster.update.
SpawnNotifier ==
    /\ runs < MaxRuns
    /\ runs' = runs + 1
    /\ UNCHANGED <<raised, bucket, cursor, sender, attempts, delivered, drained>>

Notify ==
    /\ runs > 0
    /\ runs' = runs - 1
    /\ cursor' = raised
    /\ drained' = drained \cup NewAlerts
    /\ sender' = IF MailerConfigured
                   THEN [a \in Ids |-> IF a \in NewAlerts THEN "ready" ELSE sender[a]]
                   ELSE sender
    /\ UNCHANGED <<raised, bucket, attempts, delivered>>

\* Mutant: no break after a successful send.
SendAttemptNoBreak(a) ==
    /\ sender[a] = "ready"
    /\ attempts' = [attempts EXCEPT ![a] = @ + 1]
    /\ \/ delivered' = delivered \cup {a}
       \/ UNCHANGED delivered
    /\ sender' = [sender EXCEPT ![a] = "sleeping"]
    /\ UNCHANGED <<raised, bucket, cursor, runs, drained>>

\* One iteration of the sender loop: err := mailer.SendMail(...); on nil
\* break, else log and time.Sleep(5 s) (also after the fifth call).
SendAttempt(a) ==
    /\ sender[a] = "ready"
    /\ attempts' = [attempts EXCEPT ![a] = @ + 1]
    /\ \/ /\ delivered' = delivered \cup {a}
          /\ sender' = [sender EXCEPT ![a] = "done"]
       \/ /\ UNCHANGED delivered
          /\ sender' = [sender EXCEPT ![a] = "sleeping"]
    /\ UNCHANGED <<raised, bucket, cursor, runs, drained>>

\* Mutant: the loop runs while i <= 5.
WakeUpOffByOne(a) ==
    /\ sender[a] = "sleeping"
    /\ sender' = [sender EXCEPT ![a] =
                    IF attempts[a] <= MaxAttempts THEN "ready" ELSE "done"]
    /\ UNCHANGED <<raised, bucket, cursor, runs, attempts, delivered, drained>>

\* time.Sleep(5 * time.Second) returns; i++ and the loop test i < 5.
WakeUp(a) ==
    /\ sender[a] = "sleeping"
    /\ sender' = [sender EXCEPT ![a] =
                    IF attempts[a] < MaxAttempts THEN "ready" ELSE "done"]
    /\ UNCHANGED <<raised, bucket, cursor, runs, attempts, delivered, drained>>

Next ==
    \/ AddAlert
    \/ SpawnNotifier
    \/ Notify
    \/ \E a \in Ids : SendAttempt(a) \/ WakeUp(a)

\* Spawned goroutines are run by the scheduler and a sleep returns: weak
\* fairness of the notifier and of every sender's steps.  Alerts and
\* refreshes are the environment and need not happen.
Fairness ==
    /\ WF_vars(Notify)
    /\ \A a \in Ids : WF_vars(SendAttempt(a)) /\ WF_vars(WakeUp(a))

Spec == Init /\ [][Next]_vars /\ Fairness

-----------------------------------------------------------------------------
(* Properties                                                              *)

TypeOK ==
    /\ raised \in 0..MaxAlerts
    /\ bucket \subseteq 1..raised
    /\ cursor \in 0..raised
    /\ runs \in 0..MaxRuns
    /\ sender \in [Ids -> SenderStates]
    /\ attempts \in [Ids -> Nat]
    /\ delivered \subseteq Ids
    /\ drained \subseteq 1..cursor

\* The spec's bounded retry: SendMail is attempted at most 5 times per
\* alert, and never again once a call succeeded.
AtMostFiveAttempts ==
    \A a \in Ids : attempts[a] <= MaxAttempts

NoAttemptAfterSuccess ==
    [][\A a \in delivered : attempts'[a] = attempts[a]]_vars

=============================================================================
