SPECIFICATION TxSpec
CONSTANTS
    Runs = {r1, r2}
    Commands = {c1, c2}
    Payloads = {p1}
    MaxEvents = 2
    Conns = {k1, k2, k3}
    Appended = {"turn.event", "turn.completed"}
INVARIANTS
    TxTypeOK
    ReadStillCurrent
    OutboxIsUnackedSuffix
PROPERTIES
    ReleasesOnlyAcked
    AtomicStore
SYMMETRY StoreSymmetry
