---------------------------- MODULE BackupRestore ----------------------------
(***************************************************************************)
(* Starting a backup or a restore of one Cluster (Cluster.Backup and       *)
(* Cluster.Restore in models/cluster.go), called by concurrent HTTP        *)
(* handler goroutines (postInitiateBackup / postInitiateRestore).          *)
(*                                                                         *)
(* Both functions run the same steps on their own field (activeBackup or  *)
(* activeRestore), none of them under c.mutex:                            *)
(*   1. refuse if the field holds a record whose status is in-progress;   *)
(*   2. store a new in-progress record in the field;                      *)
(*   3. c.field.Save() -- the field is read again; on error it is set nil *)
(*   4. return c.field, c.field.Execute() -- read a third time.           *)
(* Execute starts the job in the background; the job later ends with a    *)
(* status other than in-progress (worker internals are out of scope).     *)
(***************************************************************************)
EXTENDS Naturals, FiniteSets, Functions

CONSTANTS
    Requests,   \* HTTP handler goroutines starting a backup or a restore
    JobIds,     \* Backup / Restore records that may be alive at once
    NoJob       \* nil *Backup / *Restore

Kinds == {"backup", "restore"}
ASSUME NoJob \notin JobIds

VARIABLES
    active,     \* c.activeBackup / c.activeRestore
    jobKind,    \* kind of each record
    jobStatus,  \* Status field of each record
    execs,      \* how many times each record has been Execute()d
    running,    \* records whose background execution has not ended
    pc,         \* program counter of each request
    rkind,      \* which of Backup / Restore a request runs
    rjob        \* the record a request created

vars == <<active, jobKind, jobStatus, execs, running, pc, rkind, rjob>>

Status == {"in-progress", "ok", "failed", "aborted"}

-----------------------------------------------------------------------------

\* Records something refers to; the others are garbage and may be reused.
LiveJobs == (Range(active) \cup running \cup Range(rjob)) \ {NoJob}
FreeJobs == JobIds \ LiveJobs

InProgress(j) == j # NoJob /\ jobStatus[j] = "in-progress"

Init ==
    /\ active = [k \in Kinds |-> NoJob]
    /\ jobKind = [j \in JobIds |-> "backup"]
    /\ jobStatus = [j \in JobIds |-> "ok"]
    /\ execs = [j \in JobIds |-> 0]
    /\ running = {}
    /\ pc = [r \in Requests |-> "idle"]
    /\ rkind = [r \in Requests |-> "backup"]
    /\ rjob = [r \in Requests |-> NoJob]

-----------------------------------------------------------------------------
(* The steps of Backup / Restore                                           *)

\* if c.activeX != nil && c.activeX.Status == InProgress { return error }
Check(r, k) ==
    /\ pc[r] = "idle"
    /\ rkind' = [rkind EXCEPT ![r] = k]
    /\ pc' = [pc EXCEPT ![r] = IF InProgress(active[k]) THEN "idle" ELSE "assign"]
    /\ UNCHANGED <<active, jobKind, jobStatus, execs, running, rjob>>

\* c.activeX = &X{BackupRestore: NewBackupRestore(..., InProgress)}
Assign(r) ==
    /\ pc[r] = "assign"
    /\ \E j \in FreeJobs :
         /\ active' = [active EXCEPT ![rkind[r]] = j]
         /\ jobKind' = [jobKind EXCEPT ![j] = rkind[r]]
         /\ jobStatus' = [jobStatus EXCEPT ![j] = "in-progress"]
         /\ execs' = [execs EXCEPT ![j] = 0]
         /\ rjob' = [rjob EXCEPT ![r] = j]
    /\ pc' = [pc EXCEPT ![r] = "save"]
    /\ UNCHANGED <<running, rkind>>

\* if err := c.activeX.Save(); err != nil { c.activeX = nil; return err }
\* Save persists whatever record the field holds now; on nil it panics and
\* the request ends (echo's Recover middleware answers the request).
Save(r) ==
    LET k == rkind[r] IN
    /\ pc[r] = "save"
    /\ \/ /\ active[k] = NoJob
          /\ pc' = [pc EXCEPT ![r] = "idle"]
          /\ UNCHANGED active
       \/ /\ active[k] # NoJob
          /\ pc' = [pc EXCEPT ![r] = "execute"]
          /\ UNCHANGED active
       \/ /\ active[k] # NoJob
          /\ active' = [active EXCEPT ![k] = NoJob]
          /\ pc' = [pc EXCEPT ![r] = "idle"]
    /\ rjob' = [rjob EXCEPT ![r] = IF pc'[r] = "idle" THEN NoJob ELSE @]
    /\ UNCHANGED <<jobKind, jobStatus, execs, running, rkind>>

\* return c.activeX, c.activeX.Execute(): runs whatever record the field
\* holds now in the background (a nil field panics as above).
Execute(r) ==
    LET j == active[rkind[r]] IN
    /\ pc[r] = "execute"
    /\ IF j # NoJob
         THEN /\ execs' = [execs EXCEPT ![j] = @ + 1]
              /\ running' = running \cup {j}
         ELSE UNCHANGED <<execs, running>>
    /\ pc' = [pc EXCEPT ![r] = "idle"]
    /\ rjob' = [rjob EXCEPT ![r] = NoJob]
    /\ UNCHANGED <<active, jobKind, jobStatus, rkind>>

\* The background job ends and sets the record's status.
JobEnds(j) ==
    /\ j \in running
    /\ \E s \in Status \ {"in-progress"} :
         jobStatus' = [jobStatus EXCEPT ![j] = s]
    /\ running' = running \ {j}
    /\ UNCHANGED <<active, jobKind, execs, pc, rkind, rjob>>

\* Cluster.Backup and Cluster.Restore: the steps of one call, by kind.
Backup(r) ==
    \/ Check(r, "backup")
    \/ rkind[r] = "backup" /\ (Assign(r) \/ Save(r) \/ Execute(r))

Restore(r) ==
    \/ Check(r, "restore")
    \/ rkind[r] = "restore" /\ (Assign(r) \/ Save(r) \/ Execute(r))

Next ==
    \/ \E r \in Requests : Backup(r) \/ Restore(r)
    \/ \E j \in JobIds : JobEnds(j)

Spec == Init /\ [][Next]_vars

-----------------------------------------------------------------------------
(* Properties                                                              *)

TypeOK ==
    /\ active \in [Kinds -> JobIds \cup {NoJob}]
    /\ jobKind \in [JobIds -> Kinds]
    /\ jobStatus \in [JobIds -> Status]
    /\ execs \in [JobIds -> Nat]
    /\ running \subseteq JobIds
    /\ pc \in [Requests -> {"idle", "assign", "save", "execute"}]
    /\ rkind \in [Requests -> Kinds]
    /\ rjob \in [Requests -> JobIds \cup {NoJob}]
    \* the record a call created lives in its local frame only during the call
    /\ \A r \in Requests : (rjob[r] = NoJob) <=> (pc[r] \in {"idle", "assign"})

\* A new start is refused while the previous one is in progress: of each
\* kind, at most one job runs at a time.
AtMostOneRunning ==
    \A k \in Kinds : Cardinality({j \in running : jobKind[j] = k}) <= 1

\* Execute() starts each record at most once.
ExecutedOnce ==
    \A j \in JobIds : execs[j] <= 1

=============================================================================
