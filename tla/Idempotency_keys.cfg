SPECIFICATION FairSpec
CONSTANTS
    Attempts = {a1, a2, a3}
    Payloads = {x, y}
    None = None
CHECK_DEADLOCK FALSE
INVARIANTS
    TypeOK
    KeyExcludes
    ReplayIsFaithful
PROPERTY
    KeyIsFreed
