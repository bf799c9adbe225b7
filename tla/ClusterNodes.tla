---------------------------- MODULE ClusterNodes ----------------------------
(***************************************************************************)
(* The node map of one Cluster (models/cluster.go) and the refresh         *)
(* pipeline that reconciles and polls it, run concurrently with the HTTP   *)
(* handlers AddNode and RemoveNodeByAddress.                               *)
(*                                                                         *)
(* c.nodes maps a host to a *Node.  Node objects are numbered; an object   *)
(* that nothing refers to any more (map, pending fan-out goroutine, a      *)
(* handler's local variable) is garbage and its number may be reused.     *)
(*                                                                         *)
(* The refresh goroutine (Cluster.update) runs updateCluster, whose loop  *)
(* takes one client-reported node per step, then updateStats: it adds     *)
(* len(c.nodes) to a WaitGroup, ranges over c.nodes spawning one          *)
(* goroutine per node, waits, and installs the aggregates under the lock. *)
(* Both reads of c.nodes in updateStats are made without the lock.        *)
(***************************************************************************)
EXTENDS Naturals, FiniteSets, Functions

CONSTANTS
    Hosts,        \* host:port addresses of database nodes
    Handlers,     \* HTTP handler goroutines calling AddNode / RemoveNodeByAddress
    MaxNodeObjs,  \* number of *Node objects that may be alive at once
    NoNode        \* nil *Node

NodeObjs == 1..MaxNodeObjs

ASSUME NoNode \notin NodeObjs
\* Live objects: one per host in the map, one per handler, the one
\* updateCluster found, and the objects of fan-out goroutines not yet Done.  Until the WaitGroup count goes wrong
\* (WaitGroupMatchesPending) the last are at most one per host, and
\* allocation never runs out; after it, MaxNodeObjs bounds the model.
ASSUME MaxNodeObjs >= 2 * Cardinality(Hosts) + Cardinality(Handlers) + 1

\* A *Node: its identity, node.Status(), whether origNode() != nil, and
\* (history) the outcome of its poll in the current refresh.
Polls == {"none", "ok", "fail"}
NodeRec == [id : NodeObjs, status : {"on", "off"}, orig : BOOLEAN, polled : Polls]

VARIABLES
    clientNodes,  \* hosts the client library reports (client.GetNodes())
    nodes,        \* c.nodes : host -> *Node
    rpc,          \* program counter of the refresh goroutine
    toReconcile,  \* client nodes updateCluster has still to visit
    regHost,      \* host updateCluster is about to registerNode
    wg,           \* the WaitGroup counter of updateStats
    pending,      \* fan-out goroutines spawned and not yet Done
    published,    \* what readers see: per host, the status aggregated last
    hpc,          \* program counter of each handler
    harg,         \* the address a handler works on
    hobj,         \* the *Node a handler found (RemoveNodeByAddress)
    found         \* the *Node updateCluster found, until setOrigNode

refreshVars == <<rpc, toReconcile, regHost, found, wg, pending, published>>
handlerVars == <<hpc, harg, hobj>>
vars == <<clientNodes, nodes, refreshVars, handlerVars>>

-----------------------------------------------------------------------------
(* Helpers                                                                 *)

\* Hosts present in c.nodes, and the ids of the objects stored there.
Tracked == {h \in Hosts : nodes[h] # NoNode}
MapIds == {nodes[h].id : h \in Tracked}

\* Objects something still refers to; a new object takes the least other
\* id (ids are interchangeable, so one canonical choice is enough).
LiveObjs == MapIds \cup pending \cup ((Range(hobj) \cup {found}) \ {NoNode})
CanAlloc == NodeObjs \ LiveObjs # {}
NewId == CHOOSE o \in NodeObjs \ LiveObjs : \A p \in NodeObjs \ LiveObjs : o =< p

\* newNode(c, n): a fresh node is off until its first successful poll.
NewNode(orig) ==
    [id |-> NewId, status |-> "off", orig |-> orig, polled |-> "none"]

\* The map newCluster builds from client.GetNodes().
InitialNodes(cn) ==
    CHOOSE f \in [Hosts -> NodeRec \cup {NoNode}] :
        /\ \A h \in Hosts : (f[h] = NoNode) <=> (h \notin cn)
        /\ \A h \in cn : f[h].status = "off" /\ f[h].orig /\ f[h].polled = "none"
        /\ \A x, y \in cn : f[x].id = f[y].id => x = y

-----------------------------------------------------------------------------
(* Initial state: newCluster with the client's nodes, no call in flight.  *)

Init ==
    /\ clientNodes \in SUBSET Hosts
    /\ nodes = InitialNodes(clientNodes)
    /\ rpc = "idle"
    /\ toReconcile = {}
    /\ regHost = NoNode
    /\ found = NoNode
    /\ wg = 0
    /\ pending = {}
    /\ published = [h \in Hosts |-> "absent"]
    /\ hpc = [t \in Handlers |-> "idle"]
    /\ harg = [t \in Handlers |-> NoNode]
    /\ hobj = [t \in Handlers |-> NoNode]

-----------------------------------------------------------------------------
(* The database: a node joins or leaves the cluster the client sees.     *)

ClientNodesChange ==
    /\ \E h \in Hosts : clientNodes' = IF h \in clientNodes THEN clientNodes \ {h}
                                                        ELSE clientNodes \cup {h}
    /\ UNCHANGED <<nodes, refreshVars, handlerVars>>

-----------------------------------------------------------------------------
(* Refresh goroutine: Cluster.update                                       *)

\* update(): IsSet() and shouldUpdate() hold; updateCluster snapshots
\* client.GetNodes().
StartRefresh ==
    /\ rpc = "idle"
    /\ rpc' = "reconcile"
    /\ toReconcile' = clientNodes
    /\ nodes' = [h \in Hosts |-> IF nodes[h] = NoNode THEN NoNode
                                 ELSE [nodes[h] EXCEPT !.polled = "none"]]
    /\ UNCHANGED <<clientNodes, regHost, found, wg, pending, published,
                   handlerVars>>

\* Mutant: a node missing from c.nodes is skipped instead of registered.
ReconcileFindSkipsNew(h) ==
    /\ rpc = "reconcile"
    /\ h \in toReconcile
    /\ toReconcile' = toReconcile \ {h}
    /\ IF nodes[h] # NoNode
         THEN rpc' = "setorig" /\ found' = nodes[h].id
         ELSE UNCHANGED <<rpc, found>>
    /\ UNCHANGED <<clientNodes, nodes, regHost, wg, pending, published,
                   handlerVars>>

\* updateCluster, one client node: FindNodeByAddress under the read lock
\* (its FindNodeById fallback finds the same node: the host is the node's
\* identity here); a missing node is registered in a later step, after
\* the read lock is released.
ReconcileFind(h) ==
    /\ rpc = "reconcile"
    /\ h \in toReconcile
    /\ toReconcile' = toReconcile \ {h}
    /\ IF nodes[h] # NoNode
         THEN /\ rpc' = "setorig"
              /\ found' = nodes[h].id
              /\ UNCHANGED regHost
         ELSE /\ rpc' = "register"
              /\ regHost' = h
              /\ UNCHANGED found
    /\ UNCHANGED <<clientNodes, nodes, wg, pending, published, handlerVars>>

\* Mutant: setOrigNode only replaces a handle and never fills a nil one.
ReconcileSetOrigReplaceOnly ==
    /\ rpc = "setorig"
    /\ rpc' = "reconcile"
    /\ found' = NoNode
    /\ UNCHANGED <<clientNodes, nodes, toReconcile, regHost, wg, pending,
                   published, handlerVars>>

\* if node.origNode() != n: Close the old handle, node.setOrigNode(n), on
\* the *Node found and without c.mutex.  If RemoveNodeByAddress dropped it
\* in between, the handle goes to a node that is no longer in c.nodes.
ReconcileSetOrig ==
    /\ rpc = "setorig"
    /\ nodes' = [h \in Hosts |-> IF h \in Tracked /\ nodes[h].id = found
                                 THEN [nodes[h] EXCEPT !.orig = TRUE]
                                 ELSE nodes[h]]
    /\ rpc' = "reconcile"
    /\ found' = NoNode
    /\ UNCHANGED <<clientNodes, toReconcile, regHost, wg, pending, published,
                   handlerVars>>

\* registerNode(n.GetHost(), newNode(c, n)) under the write lock.
ReconcileRegister ==
    /\ rpc = "register"
    /\ CanAlloc
    /\ nodes' = [nodes EXCEPT ![regHost] = NewNode(TRUE)]
    /\ rpc' = "reconcile"
    /\ regHost' = NoNode
    /\ UNCHANGED <<clientNodes, toReconcile, found, wg, pending, published,
                   handlerVars>>

\* updateStats: wg.Add(len(c.nodes)), read without the lock.
FanOutAdd ==
    /\ rpc = "reconcile"
    /\ toReconcile = {}
    /\ wg' = wg + Cardinality(Tracked)
    /\ rpc' = "range"
    /\ UNCHANGED <<clientNodes, nodes, toReconcile, regHost, found, pending,
                   published, handlerVars>>

\* for _, node := range c.nodes { go node.update() }, again without the lock.
FanOutRange ==
    /\ rpc = "range"
    /\ pending' = pending \cup MapIds
    /\ rpc' = "wait"
    /\ UNCHANGED <<clientNodes, nodes, toReconcile, regHost, found, wg,
                   published, handlerVars>>

\* One fan-out goroutine: node.update() then wg.Done().  A poll can only
\* succeed through the node's client handle; it can always fail.  A node
\* no longer in c.nodes is updated all the same, where nobody looks.
NodeUpdate(o) ==
    /\ o \in pending
    /\ IF o \in MapIds
         THEN LET h == CHOOSE x \in Tracked : nodes[x].id = o IN
              \E r \in IF nodes[h].orig THEN {"ok", "fail"} ELSE {"fail"} :
                 nodes' = [nodes EXCEPT ![h].status = IF r = "ok" THEN "on" ELSE "off",
                                        ![h].polled = r]
         ELSE UNCHANGED nodes
    /\ pending' = pending \ {o}
    /\ wg' = wg - 1
    /\ UNCHANGED <<clientNodes, rpc, toReconcile, regHost, found, published,
                   handlerVars>>

\* Mutant: aggregation does not wait for the fan-out goroutines.
AggregateNoWait ==
    /\ rpc = "wait"
    /\ published' = [h \in Hosts |-> IF nodes[h] = NoNode THEN "absent"
                                     ELSE nodes[h].status]
    /\ rpc' = "idle"
    /\ UNCHANGED <<clientNodes, nodes, toReconcile, regHost, found, wg, pending,
                   handlerVars>>

\* Mutant: a host missing from c.nodes is published as nil.
AggregateNilAbsent ==
    /\ rpc = "wait"
    /\ wg = 0
    /\ published' = [h \in Hosts |-> IF nodes[h] = NoNode THEN NoNode
                                     ELSE nodes[h].status]
    /\ rpc' = "idle"
    /\ UNCHANGED <<clientNodes, nodes, toReconcile, regHost, found, wg, pending,
                   handlerVars>>

\* wg.Wait() returns; the aggregation loop ranges over c.nodes again and
\* the aggregates are installed under the write lock.  The remaining phases
\* (updateJobs .. checkHealth, setUpdatedAt) leave the node map alone.
Aggregate ==
    /\ rpc = "wait"
    /\ wg = 0
    /\ published' = [h \in Hosts |-> IF nodes[h] = NoNode THEN "absent"
                                     ELSE nodes[h].status]
    /\ rpc' = "idle"
    /\ UNCHANGED <<clientNodes, nodes, toReconcile, regHost, found, wg, pending,
                   handlerVars>>

-----------------------------------------------------------------------------
(* HTTP handlers                                                           *)

Finish(t) == hpc' = [hpc EXCEPT ![t] = "idle"]

\* AddNode: resolveHost(address) (modelled as resolving to the address
\* itself); an error or an empty list returns before anything changes, and
\* so does "Node already exists".  The existence check reads c.nodes
\* without the lock.
AddNodeCheck(t, a) ==
    /\ hpc[t] = "idle"
    /\ nodes[a] = NoNode
    /\ hpc' = [hpc EXCEPT ![t] = "add_insert"]
    /\ harg' = [harg EXCEPT ![t] = a]
    /\ UNCHANGED <<clientNodes, nodes, refreshVars, hobj>>

\* AddNode: AddSeeds, then c.nodes[*host] = newNode(c, nil) under the lock.
AddNodeInsert(t) ==
    /\ hpc[t] = "add_insert"
    /\ CanAlloc
    /\ nodes' = [nodes EXCEPT ![harg[t]] = NewNode(FALSE)]
    /\ Finish(t)
    /\ UNCHANGED <<clientNodes, refreshVars, harg, hobj>>

\* RemoveNodeByAddress: FindNodeByAddress, then node.Status(); an unknown
\* or active node is refused, which changes nothing.
RemoveNodeCheck(t, a) ==
    /\ hpc[t] = "idle"
    /\ nodes[a] # NoNode
    /\ nodes[a].status = "off"
    /\ hpc' = [hpc EXCEPT ![t] = "remove_commit"]
    /\ harg' = [harg EXCEPT ![t] = a]
    /\ hobj' = [hobj EXCEPT ![t] = nodes[a].id]
    /\ UNCHANGED <<clientNodes, nodes, refreshVars>>

\* RemoveNodeByAddress: under the lock, a new map without the found node.
RemoveNodeCommit(t) ==
    /\ hpc[t] = "remove_commit"
    /\ nodes' = [h \in Hosts |-> IF h \in Tracked /\ nodes[h].id = hobj[t]
                                 THEN NoNode ELSE nodes[h]]
    /\ hobj' = [hobj EXCEPT ![t] = NoNode]
    /\ Finish(t)
    /\ UNCHANGED <<clientNodes, refreshVars, harg>>

-----------------------------------------------------------------------------

\* A wg.Done() below zero panics in a goroutine without recover: the
\* process exits and nothing runs any more.
ProcessAlive == wg >= 0

\* wg.Wait() waits for more Done calls than there are goroutines left.
WaitBlocked == rpc = "wait" /\ wg > Cardinality(pending)

RefreshStep ==
    \/ StartRefresh
    \/ \E h \in Hosts : ReconcileFind(h)
    \/ ReconcileSetOrig
    \/ ReconcileRegister
    \/ FanOutAdd
    \/ FanOutRange
    \/ \E o \in NodeObjs : NodeUpdate(o)
    \/ Aggregate

HandlerStep(t) ==
    \/ \E a \in Hosts : AddNodeCheck(t, a) \/ RemoveNodeCheck(t, a)
    \/ AddNodeInsert(t)
    \/ RemoveNodeCommit(t)

Next ==
    /\ ProcessAlive
    /\ \/ ClientNodesChange
       \/ RefreshStep
       \/ \E t \in Handlers : HandlerStep(t)

\* The observer ticks for ever and the Go scheduler runs every runnable
\* goroutine: the refresh goroutine and its fan-out goroutines are fair.
Fairness ==
    /\ WF_vars(ProcessAlive /\ RefreshStep)

Spec == Init /\ [][Next]_vars /\ Fairness

-----------------------------------------------------------------------------
(* Properties                                                              *)

TypeOK ==
    /\ clientNodes \subseteq Hosts
    /\ nodes \in [Hosts -> NodeRec \cup {NoNode}]
    /\ rpc \in {"idle", "reconcile", "register", "setorig", "range", "wait"}
    /\ toReconcile \subseteq Hosts
    /\ regHost \in Hosts \cup {NoNode}
    /\ found \in NodeObjs \cup {NoNode}
    /\ wg \in Int
    /\ pending \subseteq NodeObjs
    /\ published \in [Hosts -> {"absent", "on", "off"}]
    /\ hpc \in [Handlers -> {"idle", "add_insert", "remove_commit"}]
    /\ harg \in [Handlers -> Hosts \cup {NoNode}]
    /\ hobj \in [Handlers -> NodeObjs \cup {NoNode}]

\* The view readers see was computed from one completed fan-out: when the
\* aggregates are installed (wg.Wait() returned in updateStats), every node
\* in c.nodes was polled in this refresh and is published with the status
\* that poll gave it, never a status left over from an earlier refresh.
PublishedViewCoherent ==
    [][ rpc = "wait" /\ rpc' = "idle" =>
          \A h \in Tracked :
              /\ nodes[h].polled # "none"
              /\ published'[h] = IF nodes[h].polled = "ok" THEN "on" ELSE "off"
      ]_vars

\* From some point on the HTTP handlers make no more AddNode or
\* RemoveNodeByAddress calls.
HandlersQuiesce == <>[](\A t \in Handlers : hpc[t] = "idle")

\* Cluster.update reconciles the node map with client.GetNodes(): once the
\* handlers stop, a host the client reports is eventually tracked in
\* c.nodes with its client handle set (setOrigNode), unless the client stops
\* reporting it first.  A node AddNode inserted has no handle, and a node
\* RemoveNodeByAddress dropped between updateCluster's find and its
\* setOrigNode is gone: the next refresh must make up for both.  The
\* obligation ends with the WaitGroup skew WaitGroupMatchesPending rules
\* out: a wg.Done() below zero ends the process, and a count above the
\* goroutines left blocks wg.Wait() for ever.
ReportedNodesEventuallyTracked ==
    HandlersQuiesce =>
        \A h \in Hosts :
            (h \in clientNodes) ~>
                \/ h \in Tracked /\ nodes[h].orig
                \/ h \notin clientNodes
                \/ ~ProcessAlive \/ WaitBlocked

\* updateStats waits on a WaitGroup sized by len(c.nodes) for goroutines
\* spawned by ranging over c.nodes: while it waits, the counter equals the
\* number of fan-out goroutines that have not called Done.
WaitGroupMatchesPending ==
    rpc = "wait" => wg = Cardinality(pending)

\* RemoveNodeByAddress only removes inactive nodes: a node leaves c.nodes
\* only while its status is off.
RemovedNodeWasOff ==
    [][ \A h \in Hosts :
          (nodes[h] # NoNode /\ nodes'[h] = NoNode) => nodes[h].status = "off"
      ]_vars

\* One node object per address: an entry of c.nodes is never overwritten by
\* a different *Node (AddNode answers "Node already exists" instead).
NodeNeverReplaced ==
    [][ \A h \in Hosts :
          nodes[h] # NoNode /\ nodes'[h] # NoNode => nodes'[h].id = nodes[h].id
      ]_vars

=============================================================================
