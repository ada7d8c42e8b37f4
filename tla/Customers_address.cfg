SPECIFICATION CustomerSpec
CONSTANTS
    c1 = c1
    c2 = c2
    p0 = p0
    p1 = p1
    p2 = p2
    v1 = v1
    Customers = {c1, c2}
    Phones = {p0, p1, p2}
    Standard <- MCStandard
    Forms <- MCForms
    Unknown = p0
    Plates = {v1}
    Requests = {r1, r2}
    InitialCustomers <- MCInitialCustomers
    InitialVehicles <- MCInitialVehicles
    Masked = Masked
    Null = Null
SYMMETRY Symmetry
INVARIANT NothingPersonalLeft
CHECK_DEADLOCK FALSE
