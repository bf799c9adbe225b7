\* A handler changes c.nodes between wg.Add(len(c.nodes)) and the range.
CONSTANTS
    a = a
    b = b
    h1 = h1
    NoNode = NoNode
    Hosts <- OneHost
    Handlers <- OneHandler
    MaxNodeObjs = 4
SPECIFICATION Spec
INVARIANT WaitGroupMatchesPending
\* After a wg.Done() below zero the process has exited: no step follows.
CHECK_DEADLOCK FALSE
