SPECIFICATION Spec
CONSTANTS
    Users = {u1}
    Requests = {r1, r2}
    Codes = {k1}
    Families = {f1}
    Tokens = {t1, t2, t3}
    MaxTries = 2
    MaxSent = 1
    None = None
SYMMETRY Symmetry
INVARIANTS SessionsConsistent NothingLate
PROPERTY TriesFallOnlyWhenOutdated
