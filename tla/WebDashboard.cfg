SPECIFICATION FairSpec
CONSTANTS
    Owners = {u1, u2}
    NoUser = nobody
    Refreshes = {r1, r2}
    Presses = {p1}
    PageLimit = 1
    MaxRows = 2
    MaxFaults = 1
INVARIANTS
    TypeOK
    OneOwner
    RestartsBootstrap
PROPERTIES
    PillSettles
    ExecutionsReappear
