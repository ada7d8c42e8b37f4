SPECIFICATION Spec
CONSTANTS
    u1 = u1
    u2 = u2
    Users = {u1, u2}
    Requests = {r1, r2, r3}
    Leaves = {l1, l2}
    Bookings = {b1}
    Days = {1, 2}
    InitialUsers <- MCInitialUsers
    None = None
SYMMETRY Symmetry
INVARIANT StaffConsistent
PROPERTIES OwnerProtected BookingKeepsMechanic LeavesOverlapOnlyWhenOutdated LastAdminOnlyWhenOutdated
CHECK_DEADLOCK FALSE
