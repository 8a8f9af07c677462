CONSTANTS
    t1 = t1  t2 = t2
    u1 = u1  u2 = u2
    none = none
    None = none
    Tabs = {t1, t2}
    Users = {u1, u2}
    AccountsOf <- Accounts
    Usable <- Member
    MaxSignIns = 2
    SignsIn <- WhoSignsIn
    Ends <- HowSessionsEnd
    Late = {t1}
    MaxRefreshes = 2
SPECIFICATION Spec
PROPERTIES SignOutEndsBackendSession
CHECK_DEADLOCK FALSE
