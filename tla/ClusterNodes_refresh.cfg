\* The refresh pipeline alone: reconciliation, fan-out and aggregation while
\* the database's node list changes and polls fail.
CONSTANTS
    a = a
    b = b
    h1 = h1
    NoNode = NoNode
    Hosts <- MCHosts
    Handlers <- NoHandlers
    MaxNodeObjs = 5
SPECIFICATION Spec
INVARIANT TypeOK
PROPERTY PublishedViewCoherent
PROPERTY ReportedNodesEventuallyTracked
