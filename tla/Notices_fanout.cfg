SPECIFICATION NoticeSpec
CONSTANTS
    Staff = {s1, s2}
    Role = {"OWNER", "CASHIER"}
    Notices = {n1}
    Channels = {"sms", "email"}
    MaxChanges = 2
    Null = Null
SYMMETRY Symmetry
INVARIANT NoticesConsistent
PROPERTY SwitchedOffOnlyWhenOutdated
