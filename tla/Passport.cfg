SPECIFICATION Spec
CONSTANTS
    a1 = a1
    a2 = a2
    Contents <- MCContents
    JsonbOf <- MCJsonbOf
    Servers <- MCServers
    Writers = {a1, a2}
    MaxEntries = 3
    MaxClock = 2
SYMMETRY Symmetry
INVARIANTS
    TypeOK
    VerifiedIsGenuine
    NoFalseAlarm
PROPERTY BrokenStaysBroken
