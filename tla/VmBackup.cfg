SPECIFICATION ToolsSpec
CONSTANTS
    s1 = s1
    s2 = s2
    v1 = v1
    v2 = v2
    m1 = m1
    m2 = m2
    g1 = g1
    g2 = g2
    vmAdmin = vmAdmin
    vmAlert = vmAlert
    diskAdmin = diskAdmin
    netAdmin = netAdmin
    alien = alien
    Subs = {s1, s2}
    Vaults = {v1, v2}
    Vms = {m1, m2}
    HomeOf <- MCHomeOf
    ItemStates <- MCItemStates
    MaxChanges = 1
    Wanted = {m1, m2}
    Groups = {g1, g2}
    GroupOf <- MCGroupOf
    Events = {vmAdmin, vmAlert, diskAdmin, netAdmin, alien}
    EventAt <- MCEventAt
INVARIANTS AbsenceIsProved LiveItemWins OrphansWereAbsent UncappedIsComplete SearchIsProved EventsAreShown
