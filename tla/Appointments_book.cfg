SPECIFICATION Spec
CONSTANTS
    Requests = {r1, r2}
    Bookings = {b1, b2}
    Mechanics = {m1}
    Lifts = {l1}
    Slots <- MCSlots
    Earlier = {b1}
    EarlierRows <- MCEarlierRows
    m1 = m1
    Ops = {"book", "online", "reschedule", "approve", "noShow", "setStatus", "cancel", "order"}
    None = None
SYMMETRY MCSymmetry
CHECK_DEADLOCK FALSE
INVARIANTS
    TypeOK
    NoDoubleBooking
PROPERTY
    ReopenedOnlyWhenOutdated
