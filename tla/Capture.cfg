SPECIFICATION FairSpec
CONSTANTS
    EdgeRing = 4
    PpsRing = 2
    SwingRing = 2
    PpsBudget = 1
    SwingBudget = 1
    MaxEdges = 7
    MaxPps = 1
    MaxResets = 1
INVARIANTS
    TypeOK
    RowsConserved
    
    DropIrCoversRow
PROPERTIES
    EdgesAreFifo
    
    RowsAreDelivered
