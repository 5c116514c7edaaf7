CONSTANTS
    Topology <- SmallTopology
    Reversed = {"left"}
    Channels = {1, 2, 3, 4, 5}
    Position <- FivePositions
    Mapping <- FiveMappings
    Unit = 2
    Zones <- ReportedZones
    Colours = {40, 301}
SPECIFICATION AmbilightSpec
INVARIANT ChannelsShowTheirZones
