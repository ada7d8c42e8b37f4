SPECIFICATION Spec
CONSTANTS
    Requests = {r1, r2}
    Orders = {o1, o2}
    Items = {}
    Products = {p1}
    Vehicles = {car, other}
    VehicleOf <- OneVehicle
    WithAppointment = {}
    Quantities = {1, 2}
    Levels = {}
    InitialStock <- StockOfTwo
    MaxStock = 3
    Ops = {"create", "status"}
    None = None
    r1 = r1
    r2 = r2
    o1 = o1
    o2 = o2
    i1 = i1
    i2 = i2
    p1 = p1
    car = car
    other = other
INVARIANT OneActiveOrderPerVehicle
CHECK_DEADLOCK FALSE
