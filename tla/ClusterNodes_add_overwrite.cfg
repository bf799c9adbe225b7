\* AddNode's unlocked existence check races with updateCluster.
CONSTANTS
    a = a
    b = b
    h1 = h1
    NoNode = NoNode
    Hosts <- OneHost
    Handlers <- OneHandler
    MaxNodeObjs = 4
SPECIFICATION Spec
PROPERTY NodeNeverReplaced
\* After a wg.Done() below zero the process has exited: no step follows.
CHECK_DEADLOCK FALSE
