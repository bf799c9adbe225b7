\* RemoveNodeByAddress races with a poll that turns the node on.
CONSTANTS
    a = a
    b = b
    h1 = h1
    NoNode = NoNode
    Hosts <- OneHost
    Handlers <- OneHandler
    MaxNodeObjs = 4
SPECIFICATION Spec
PROPERTY RemovedNodeWasOff
\* After a wg.Done() below zero the process has exited: no step follows.
CHECK_DEADLOCK FALSE
