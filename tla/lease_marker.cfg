CONSTANTS
    l1 = l1
    l2 = l2
    l3 = l3
    l4 = l4
    Leases = {l1, l2, l3}
    NoLease = NoLease
    Kind <- MCKind
    Faults = {}
CHECK_DEADLOCK FALSE
SPECIFICATION Spec
PROPERTIES
    MarkerMeansActiveWork
