\* Every subset of five nodes, six constraints, strategies with five weights.
SPECIFICATION Spec
CONSTANTS
    n1 = n1
    n2 = n2
    n3 = n3
    n4 = n4
    n5 = n5
    east = east
    west = west
    ssd = ssd
    None = None
    NodeSet <- MCNodeSet
    Constraints <- MCConstraints
    Weights <- MCWeights
INVARIANTS
    TypeOK
    TargetUndominated
    PreferenceDecides
