SPECIFICATION Spec
CONSTANTS
    c1 = c1
    c2 = c2
    s1 = s1
    s2 = s2
    Products = {p1}
    Shelves = {s1, s2}
    Cells = {c1, c2}
    ShelfOf <- MCShelfOf
    Requests = {r1, r2}
    MaxStock = 2
    None = None
    Keep = Keep
SYMMETRY Symmetry
INVARIANT WarehouseConsistent
PROPERTY PlaceLostOnlyWhenOutdated
CHECK_DEADLOCK FALSE
