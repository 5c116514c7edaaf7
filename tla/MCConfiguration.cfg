CONSTANTS
    b1 = b1
    b2 = b2
    elsewhere = elsewhere
    tv1 = tv1
    tv2 = tv2
    NoHost = NoHost
    Bridges = {b1, b2}
    Hosts = {b1, b2, elsewhere}
    Areas <- TwoBridgeAreas
    Tvs = {tv1, tv2}
    Ports = {1925, 1926}
    DefaultPort = 1926
    TvPort <- TwoTvPorts
    Positions = {"auto", "top"}
    Lights = {"light"}
SPECIFICATION Spec
INVARIANTS TypeOK EntryIsConsistent
PROPERTY SectionsAreIndependent
