--------------------------- MODULE ClusterLocking ---------------------------
(***************************************************************************)
(* The c.mutex discipline of one Cluster (models/cluster.go): the refresh  *)
(* goroutine, the mail goroutine it spawns, and HTTP handler goroutines    *)
(* take the cluster's read/write lock in the order the code does.          *)
(*                                                                         *)
(* c.mutex is a go-deadlock RWMutex wrapping sync.RWMutex.  Lock() first   *)
(* takes the writer mutex and announces itself; from then on every new    *)
(* RLock() blocks, also one by a goroutine that already holds a read lock; *)
(* the writer proceeds when the readers present have left.                *)
(*                                                                         *)
(* Each goroutine runs a method as a sequence of instructions.  Read-only *)
(* sections that take and release the read lock around a copy (Nodes(),  *)
(* IsSet(), Id(), ...) and hold nothing else are left out: they wait for  *)
(* a writer but never hold the lock while waiting.                        *)
(***************************************************************************)
EXTENDS Naturals, Sequences

CONSTANTS
    Handlers,          \* HTTP handler goroutines
    AliasValues,       \* values SetAlias may be called with ("" = clear)
    MailerConfigured,  \* Mailer.Host is set: SendEmailNotifications goes on
    NoG                \* no goroutine

Refresh == "refresh"
Mailer == "mailer"
Gs == {Refresh, Mailer} \cup Handlers
ASSUME NoG \notin Gs

VARIABLES
    readers,    \* read locks each goroutine holds
    writer,     \* goroutine holding the write lock
    announced,  \* writer holding the writer mutex, waiting for readers
    prog,       \* instructions each goroutine still has to run
    alias,      \* c.alias != nil
    aggGen,     \* which refresh c.aggNodeCalcStats comes from (parity)
    diskRead,   \* first read of c.aggNodeCalcStats by Disk()
    diskTorn    \* some Disk() combined values from two refreshes

vars == <<readers, writer, announced, prog, alias, aggGen, diskRead, diskTorn>>

-----------------------------------------------------------------------------
(* Methods as instruction sequences                                        *)

Locked(body) == <<"lock", "lockwait">> \o body \o <<"unlock">>

\* Mutant: a second deferred RUnlock in Alias().
AliasMDoubleUnlock ==
    <<"rlock", "alias?", "runlock">>

\* Alias(): RLock; if c.alias is set return it, else Name() -> Nodes(),
\* which takes the read lock again.  The branch is the "alias?" step.
AliasM ==
    <<"rlock", "alias?">>

\* Cluster.update after its gates: registerNode (when the client reports a
\* new node), the aggregate install of updateStats, updateUsers (which
\* returns before locking when QueryUser fails), Alias() in datacenterInfo,
\* setUpdatedAt, and the deferred go SendEmailNotifications.
UpdateM(newNode, usersStored) ==
    (IF newNode THEN Locked(<<>>) ELSE <<>>)
    \o Locked(<<"install">>)
    \o (IF usersStored THEN Locked(<<>>) ELSE <<>>)
    \o AliasM
    \o Locked(<<>>)
    \o <<"spawnmail">>

\* The observer evicted the cluster (closeAndUnset) after the IsSet() gate:
\* the next c.client call panics and update's recover() leaves only the
\* deferred spawn.  GetNodes in updateCluster panics before any lock;
\* QueryUser or QueryUsers in updateUsers after registerNode and the
\* install of updateStats.  None of the calls is made under c.mutex.
PanicRuns(newNode) ==
    {<<"spawnmail">>,
     (IF newNode THEN Locked(<<>>) ELSE <<>>) \o Locked(<<"install">>)
        \o <<"spawnmail">>}

\* IsSet() or shouldUpdate() is false: only the deferred spawn runs; or
\* update runs to its end; or it panics on an evicted client.
UpdateRuns ==
    {<<"spawnmail">>} \cup {UpdateM(n, u) : n, u \in BOOLEAN}
    \cup UNION {PanicRuns(n) : n \in BOOLEAN}

\* SendEmailNotifications: c.Id(), then c.Alias() for the cluster name.
MailM == AliasM

\* Handler methods: SetAlias, a plain writer (SetUpdateInterval, or
\* BuildDetails' updateLastestPing), Alias() itself, and Disk(), which reads
\* c.aggNodeCalcStats twice without the lock ("used", then "free").
HandlerMethods ==
    {Locked(<<"setalias:" \o v>>) : v \in AliasValues}
    \cup {Locked(<<>>), AliasM, <<"diskread1", "diskread2">>}

-----------------------------------------------------------------------------

Init ==
    /\ readers = [g \in Gs |-> 0]
    /\ writer = NoG
    /\ announced = NoG
    /\ prog = [g \in Gs |-> <<>>]
    /\ alias \in {("" # v) : v \in AliasValues}
    /\ aggGen = 0
    /\ diskRead = [g \in Handlers |-> 0]
    /\ diskTorn = FALSE

FreeOfWriters == writer = NoG /\ announced = NoG

Ins(g) == Head(prog[g])
Advance(g) == prog' = [prog EXCEPT ![g] = Tail(@)]

\* c.mutex.RLock(): blocks while a writer holds or waits for the lock.
RLock(g) ==
    /\ Ins(g) = "rlock"
    /\ FreeOfWriters
    /\ readers' = [readers EXCEPT ![g] = @ + 1]
    /\ Advance(g)
    /\ UNCHANGED <<writer, announced, alias, aggGen, diskRead, diskTorn>>

\* c.mutex.RUnlock() (deferred).
RUnlock(g) ==
    /\ Ins(g) = "runlock"
    /\ readers' = [readers EXCEPT ![g] = @ - 1]
    /\ Advance(g)
    /\ UNCHANGED <<writer, announced, alias, aggGen, diskRead, diskTorn>>

\* c.mutex.Lock(), first half: take the writer mutex and announce.
Lock(g) ==
    /\ Ins(g) = "lock"
    /\ FreeOfWriters
    /\ announced' = g
    /\ Advance(g)
    /\ UNCHANGED <<readers, writer, alias, aggGen, diskRead, diskTorn>>

\* c.mutex.Lock(), second half: wait until the readers have left.
LockWait(g) ==
    /\ Ins(g) = "lockwait"
    /\ \A x \in Gs : readers[x] = 0
    /\ writer' = g
    /\ announced' = NoG
    /\ Advance(g)
    /\ UNCHANGED <<readers, alias, aggGen, diskRead, diskTorn>>

\* c.mutex.Unlock() (deferred).
Unlock(g) ==
    /\ Ins(g) = "unlock"
    /\ writer' = NoG
    /\ Advance(g)
    /\ UNCHANGED <<readers, announced, alias, aggGen, diskRead, diskTorn>>

\* Alias(), under its read lock: a non-empty c.alias is returned; otherwise
\* Name() ranges over c.Nodes(), which takes the read lock again.
AliasBranch(g) ==
    /\ Ins(g) = "alias?"
    /\ prog' = [prog EXCEPT ![g] =
                  IF alias THEN <<"runlock">> \o Tail(@)
                  ELSE <<"rlock", "runlock", "runlock">> \o Tail(@)]
    /\ UNCHANGED <<readers, writer, announced, alias, aggGen, diskRead, diskTorn>>

\* updateStats, under the write lock: the new aggregates replace the old.
Install(g) ==
    /\ Ins(g) = "install"
    /\ aggGen' = 1 - aggGen
    /\ Advance(g)
    /\ UNCHANGED <<readers, writer, announced, alias, diskRead, diskTorn>>

\* SetAlias, under the write lock: "" sets c.alias to nil.
SetAlias(g) ==
    /\ \E v \in AliasValues :
         /\ Ins(g) = "setalias:" \o v
         /\ alias' = (v # "")
    /\ Advance(g)
    /\ UNCHANGED <<readers, writer, announced, aggGen, diskRead, diskTorn>>

\* Disk(): "used" read from c.aggNodeCalcStats without the lock ...
DiskReadUsed(g) ==
    /\ Ins(g) = "diskread1"
    /\ diskRead' = [diskRead EXCEPT ![g] = aggGen]
    /\ Advance(g)
    /\ UNCHANGED <<readers, writer, announced, alias, aggGen, diskTorn>>

\* ... and "free" read from it again.
DiskReadFree(g) ==
    /\ Ins(g) = "diskread2"
    /\ diskTorn' = (diskTorn \/ diskRead[g] # aggGen)
    /\ Advance(g)
    /\ UNCHANGED <<readers, writer, announced, alias, aggGen, diskRead>>

\* defer func() { go c.SendEmailNotifications() }(): the mail goroutine
\* goes on to Alias() only when Mailer.Host is configured.  One mail
\* goroutine is modelled; a spawn while it still runs adds nothing new.
SpawnMail(g) ==
    /\ Ins(g) = "spawnmail"
    /\ prog' = [prog EXCEPT ![g] = Tail(@),
                 ![Mailer] = IF MailerConfigured /\ prog[Mailer] = <<>>
                             THEN MailM ELSE @]
    /\ UNCHANGED <<readers, writer, announced, alias, aggGen, diskRead, diskTorn>>

\* Run the instruction at the head of g's program.
Step(g) ==
    /\ prog[g] # <<>>
    /\ \/ RLock(g) \/ RUnlock(g) \/ Lock(g) \/ LockWait(g) \/ Unlock(g)
       \/ AliasBranch(g) \/ Install(g) \/ SetAlias(g)
       \/ DiskReadUsed(g) \/ DiskReadFree(g) \/ SpawnMail(g)

\* The observer starts the next refresh of the cluster.
StartRefresh ==
    /\ prog[Refresh] = <<>>
    /\ \E m \in UpdateRuns : prog' = [prog EXCEPT ![Refresh] = m]
    /\ UNCHANGED <<readers, writer, announced, alias, aggGen, diskRead, diskTorn>>

\* An HTTP request arrives on an idle handler goroutine.
CallMethod(t) ==
    /\ prog[t] = <<>>
    /\ \E m \in HandlerMethods : prog' = [prog EXCEPT ![t] = m]
    /\ UNCHANGED <<readers, writer, announced, alias, aggGen, diskRead, diskTorn>>

Next ==
    \/ StartRefresh
    \/ \E t \in Handlers : CallMethod(t)
    \/ \E g \in Gs : Step(g)

\* The Go scheduler runs every runnable goroutine, and a goroutine blocked
\* on c.mutex gets it once it is released for good (sync.RWMutex hands the
\* lock to waiting readers on Unlock; sync.Mutex's starvation mode hands it
\* to a waiting writer): strong fairness for every goroutine's steps.  The
\* observer keeps ticking: the next refresh is started.
Fairness ==
    /\ \A g \in Gs : SF_vars(Step(g))
    /\ WF_vars(StartRefresh)

Spec == Init /\ [][Next]_vars /\ Fairness

-----------------------------------------------------------------------------
(* Properties                                                              *)

TypeOK ==
    /\ readers \in [Gs -> Nat]
    /\ writer \in Gs \cup {NoG}
    /\ announced \in Gs \cup {NoG}
    /\ alias \in BOOLEAN
    /\ aggGen \in {0, 1}
    /\ diskRead \in [Handlers -> {0, 1}]
    /\ diskTorn \in BOOLEAN

\* The refresh pipeline never stalls on the cluster lock: every refresh the
\* observer starts runs to its end (setUpdatedAt and the mail goroutine).
RefreshAlwaysCompletes ==
    []<>(prog[Refresh] = <<>>)

\* Disk() returns "used" and "free" from one published aggregate: a reader
\* never combines values installed by two different refreshes.
DiskNotTorn == ~diskTorn

=============================================================================
