SPECIFICATION WorkshopSpec
CONSTANTS
    Slots = {r1, r2}
    Names = {"lift1", "lift2", "desk"}
    Defaults = {"lift1"}
    Lifts = {"lift1", "lift2"}
    Fallback = {"desk"}
    Codes = {"srv01", "SRV01", "OIL"}
    Upper <- MCUpper
    FirstCode = "SRV01"
    Titles = {"oil", "wash"}
    Photos = {p1}
    Phones = {n1}
    Tenants = {t1}
    Home = Home
    InitialBays <- MCInitialBays
    InitialServices <- MCInitialServices
    InitialBookings <- MCInitialBookings
    InitialConsents <- MCInitialConsents
    Staff = {boss, mech}
    Managers = {boss}
    InitialNotes <- MCInitialNotes
    Kilometres = {1, 2}
    Keys = {k1, k2}
    InitialSecrets <- MCInitialSecrets
    Formats = {png, svg}
    Elsewhere = Elsewhere
    Null = Null
SYMMETRY Symmetry
INVARIANT WorkshopConsistent
PROPERTY BrokenOnlyWhenOutdated
CHECK_DEADLOCK FALSE
