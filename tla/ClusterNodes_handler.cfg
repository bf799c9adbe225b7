\* One HTTP handler calling AddNode / RemoveNodeByAddress while refreshes
\* run: a node AddNode inserts, or one removed between updateCluster's find
\* and its setOrigNode, must still end up tracked with a client handle.
\* A wg.Done() below zero ends the process, so the model really can stop.
CONSTANTS
    a = a
    b = b
    h1 = h1
    NoNode = NoNode
    Hosts <- OneHost
    Handlers <- OneHandler
    MaxNodeObjs = 4
SPECIFICATION Spec
PROPERTY ReportedNodesEventuallyTracked
CHECK_DEADLOCK FALSE
