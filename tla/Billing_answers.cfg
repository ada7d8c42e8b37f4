\* Liveness: two request slots, fair scheduling, no symmetry.
SPECIFICATION FairSpec
CONSTANTS
    c1 = c1
    c2 = c2
    Requests = {r1, r2}
    Customers = {c1}
    WorkOrders = {w1}
    Attempts = {t1}
    GrandTotals = {2}
    PayAmounts = {1, 2}
    None = None
    CustomerOf <- MCCustomerOf
PROPERTY EveryRequestEnds
