SPECIFICATION Spec
CONSTANTS
    a1 = a1
    a2 = a2
    b1 = b1
    ga = ga
    gb = gb
    chat = chat
    Tasks = {a1, a2, b1}
    Groups = {ga, gb}
    GroupOf <- MCGroupOf
    Scopes = {chat}
    ScopeGroups <- MCScopeGroups
    Blockers = {disk}
    MaxHistory = 2
    MaxGroups = 1
    MaxLimit = 2
    MaxExpected = 1
INVARIANTS TypeOK QueueIsConsistent
PROPERTIES GroupStartsInOrder ExecutesWithinLimit
CHECK_DEADLOCK FALSE
