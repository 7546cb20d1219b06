SPECIFICATION Spec
CONSTANTS
    Client = {c1, c2}
    Node = {n1, n2}
    Copy = {d1}
    Pool <- MCPool
    MaxNodes = 2
    MaxTime = 1
    Expiries <- MCExpiries
    MaxRotation = 1
    Never = Never
    None = None
INVARIANTS
    AddressesUnique
    OneVerdict
    RotationFinal
PROPERTIES
    RotationNoticed
