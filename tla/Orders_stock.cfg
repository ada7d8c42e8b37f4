SPECIFICATION Spec
CONSTANTS
    Requests = {r1, r2}
    Orders = {o1}
    Items = {i1, i2}
    Products = {p1}
    Vehicles = {car, other}
    VehicleOf <- TwoVehicles
    WithAppointment = {o1}
    Quantities = {1, 2}
    Levels = {1}
    InitialStock <- StockOfOne
    MaxStock = 1
    Ops = {"create", "add", "update", "remove", "status", "invoice", "edit", "crash",
           "appointment"}
    None = None
    r1 = r1
    r2 = r2
    o1 = o1
    o2 = o2
    i1 = i1
    i2 = i2
    p1 = p1
    car = car
    other = other
SYMMETRY Symmetry
INVARIANTS
    TypeOK
    StockNeverNegative
PROPERTY
    PartsLostOnlyWhenOutdated
CHECK_DEADLOCK FALSE
