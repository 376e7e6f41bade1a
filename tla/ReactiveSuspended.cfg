CONSTANTS
    ReactiveRoots = {r1}
    Derived = {d1}
    Places = {x, y}
    Suspended = {s}
    NoNode = None
    MaxVmRevision = 2
SPECIFICATION RXSpec
INVARIANTS
    DerivedCurrent
CHECK_DEADLOCK FALSE
