---------------------------- MODULE ClusterClient ----------------------------
(***************************************************************************)
(* The database client handle of one Cluster and the fields the refresh   *)
(* writes from it (models/cluster.go).  The refresh goroutine              *)
(* (Cluster.update) passes the IsSet() gate and then calls c.client in    *)
(* updateCluster and updateUsers without the lock; the observer may close *)
(* the client (closeAndUnset, eviction) at any point in between; a        *)
(* handler reads c.currentUserPrivileges under the read lock while        *)
(* updateUsers assigns it without any lock.                                *)
(*                                                                         *)
(* Every c.mutex section here is a single step: none of them waits for   *)
(* another while holding the lock.  A call on a nil c.client panics.  The *)
(* slice header of currentUserPrivileges is two words written one after   *)
(* the other (a data race: the reader may see either word of either      *)
(* value); "ptr" and "len" hold the refresh each word comes from.         *)
(***************************************************************************)
EXTENDS Naturals

CONSTANTS
    UserConfigured,   \* c.user != nil && len(*c.user) > 0
    MaxRefreshes      \* refreshes in a behaviour

VARIABLES
    client,     \* c.client != nil
    rpc,        \* where the refresh goroutine is
    refreshes,  \* refreshes started
    privPtr,    \* refresh the data word of currentUserPrivileges is from
    privLen,    \* refresh the length word is from
    privTorn    \* a CurrentUserPrivileges() result mixed two slices

vars == <<client, rpc, refreshes, privPtr, privLen, privTorn>>

RefreshPcs == {"idle", "gate", "cluster", "user", "privlen", "lists",
               "install", "rest"}

-----------------------------------------------------------------------------

Init ==
    /\ client = TRUE
    /\ rpc = "idle"
    /\ refreshes = 0
    /\ privPtr = 0
    /\ privLen = 0
    /\ privTorn = FALSE

\* A call on c.client: with a nil client it panics, and update's deferred
\* recover() ends the refresh (wg.Done and the mail spawn still run).
UseClient(next) ==
    rpc' = IF client THEN next ELSE "idle"

\* The observer dispatches Cluster.update.
StartRefresh ==
    /\ rpc = "idle"
    /\ refreshes < MaxRefreshes
    /\ rpc' = "gate"
    /\ refreshes' = refreshes + 1
    /\ UNCHANGED <<client, privPtr, privLen, privTorn>>

\* if !c.IsSet() { return nil }, under the read lock; shouldUpdate() may
\* also return early.
Gate ==
    /\ rpc = "gate"
    /\ \/ /\ client
          /\ rpc' = "cluster"
       \/ rpc' = "idle"
    /\ UNCHANGED <<client, refreshes, privPtr, privLen, privTorn>>

\* Mutant: update without its deferred recover(): the process dies.
UpdateClusterNoRecover ==
    /\ rpc = "cluster"
    /\ rpc' = IF client THEN "user" ELSE "crashed"
    /\ UNCHANGED <<client, refreshes, privPtr, privLen, privTorn>>

\* updateCluster: range c.client.GetNodes(), no lock (updateStats and
\* updateJobs, which use the nodes only, follow).
UpdateCluster ==
    /\ rpc = "cluster"
    /\ UseClient(IF UserConfigured THEN "user" ELSE "lists")
    /\ UNCHANGED <<client, refreshes, privPtr, privLen, privTorn>>

\* updateUsers: c.client.QueryUser and QueryRole; on a QueryUser error
\* updateUsers returns before the lists; on success the data word of the
\* new slice is stored into c.currentUserPrivileges, without the lock.
QueryCurrentUser ==
    /\ rpc = "user"
    /\ IF client
         THEN \/ /\ rpc' = "privlen"
                 /\ privPtr' = refreshes
              \/ /\ rpc' = "rest"
                 /\ UNCHANGED privPtr
         ELSE rpc' = "idle" /\ UNCHANGED privPtr
    /\ UNCHANGED <<client, refreshes, privLen, privTorn>>

\* ... and its length word.
StorePrivilegesLen ==
    /\ rpc = "privlen"
    /\ privLen' = refreshes
    /\ rpc' = "lists"
    /\ UNCHANGED <<client, refreshes, privPtr, privTorn>>

QueryLists ==
    /\ rpc = "lists"
    /\ UseClient("install")
    /\ UNCHANGED <<client, refreshes, privPtr, privLen, privTorn>>

\* c.users, c.roles = users, roles under the write lock.
InstallLists ==
    /\ rpc = "install"
    /\ rpc' = "rest"
    /\ UNCHANGED <<client, refreshes, privPtr, privLen, privTorn>>

\* updateDatacenterInfo, checkHealth, setUpdatedAt: no c.client calls.
FinishRefresh ==
    /\ rpc = "rest"
    /\ rpc' = "idle"
    /\ UNCHANGED <<client, refreshes, privPtr, privLen, privTorn>>

\* closeAndUnset, under the write lock: Close() and nil a live client.
CloseAndUnset ==
    /\ client
    /\ client' = FALSE
    /\ UNCHANGED <<rpc, refreshes, privPtr, privLen, privTorn>>

\* A handler calls CurrentUserPrivileges: the read lock around a read of
\* the slice header, which the unlocked store may be half way through.
CurrentUserPrivileges ==
    /\ privTorn' = (privTorn \/ privPtr # privLen)
    /\ UNCHANGED <<client, rpc, refreshes, privPtr, privLen>>

Step ==
    \/ Gate \/ UpdateCluster \/ QueryCurrentUser \/ StorePrivilegesLen
    \/ QueryLists \/ InstallLists \/ FinishRefresh

Next ==
    \/ StartRefresh \/ Step \/ CloseAndUnset \/ CurrentUserPrivileges

\* The refresh goroutine, once dispatched, is scheduled: weak fairness of
\* its steps.  Dispatch, eviction and requests are the environment.
Spec == Init /\ [][Next]_vars /\ WF_vars(Step)

-----------------------------------------------------------------------------
(* Properties                                                              *)

TypeOK ==
    /\ client \in BOOLEAN
    /\ rpc \in RefreshPcs
    /\ refreshes \in 0..MaxRefreshes
    /\ privPtr \in 0..MaxRefreshes
    /\ privLen \in 0..MaxRefreshes
    /\ privTorn \in BOOLEAN

PrivilegesNotTorn == ~privTorn

=============================================================================
