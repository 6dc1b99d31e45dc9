CONSTANTS
    A = A
    B = B
    w = w
    x = x
    y = y
    z = z
    Gateways = {A, B}
    Addresses = {w, x, y, z}
    Flows = {f1, f2}
    Settings <- MCSettings
    MaxEntries = 2
    None = None
SPECIFICATION Spec
INVARIANTS
    TypeOK
    OneEntryPerGateway
    EntryKeepsGateway
PROPERTY
    RuntimeIdIsKept
SYMMETRY Symmetry
\* A reconfiguration that is refused is no step, and two entries that got one unique
\* id are both refused any.
CHECK_DEADLOCK FALSE
