CONSTANTS
    Devicetypes = {philips, sony}
    Requests = {r1, r2, r3}
    MaxUsers = 3
SPECIFICATION Spec
INVARIANTS TypeOK BurstIsConsistent AnsweredIsKnown
