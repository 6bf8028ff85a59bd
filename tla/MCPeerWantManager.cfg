CONSTANTS
    p1 = p1
    p2 = p2
    w1 = w1
    w2 = w2
    w3 = w3
    Peers = {p1, p2}
    Wants = {w1, w2, w3}
SPECIFICATION Spec
SYMMETRY Symmetry
INVARIANTS
    ReverseIndexExact
    GaugesExact
    QueuesMatchWants
    CallsAllowed
PROPERTY
    RefinesPeerWantSpec
