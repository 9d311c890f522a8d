SPECIFICATION WorldsSpec
CONSTANTS
    Addresses = {a1, a2}
    Slots = {s1}
    Values = {0, 1}
    Balances = {0, 1}
    Nonces = {0, 1}
    Codes = {c1, c2}
    NoCode = NoCode
    None = None
    Fork <- RemoteContract
VIEW DatabaseView
INVARIANTS
    HistorySame
    DumpReloads
PROPERTY IsWorld
