SPECIFICATION Spec
CONSTANTS
    x = x
    y = y
    a = a
    aa = aa
    b = b
    Absent = Absent
    Unset = Unset
    Me = c1
    Threads = {c1, c2}
    Ips = {x, y}
    Contents <- MCContents
    MaxEdits = 2
    Countries = {"J", "K", "L", "M"}
    Span = 2
    MinCountries = 3
    Users = {a, aa, b}
    AccountOf <- MCAccountOf
    Home = {"J"}
    Logs <- MCLogs
    BusyLogs <- MCBusyLogs
    SprayMin = 2
    MinUsers = 2
    RiskAnswers <- MCRiskAnswers
PROPERTIES TablesGoForward
INVARIANTS WindowIsExact FindingsAreLowerBound NotAtHomeIsProved TableIsCurrent AccountsAreCountedOnce
