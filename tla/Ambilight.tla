------------------------------- MODULE Ambilight -------------------------------
(***************************************************************************)
(* The frame that the JointSpace source makes of a measurement, and how    *)
(* the controller scales it: measured_points, map_points_to_channels and   *)
(* _scale_channels.                                                        *)
(*                                                                         *)
(* A measurement maps zones <<edge, index>> to a colour, of which one      *)
(* component stands for all three.  Zones the TV leaves out, or sends      *)
(* without a colour, are not in its domain.  For "auto" the order in which *)
(* it lists them decides between equally near zones: any may be taken.     *)
(***************************************************************************)
EXTENDS Integers, FiniteSets, Functions

CONSTANTS
    Topology,     \* edge -> number of its zones
    Reversed,     \* the edges whose zones count from the other end
    Channels,     \* the channels of the virtual bridge
    Position,     \* channel -> <<x, y, z>>, in units
    Mapping,      \* channel -> one of TV_RELATIVE_POSITIONS
    Unit,         \* how many units are 1.0
    Zones,        \* <<edge, index>>, what the TV may report, beyond the topology too
    Colours       \* and with which values

VARIABLES
    measured,     \* the TV's measurement
    intensity     \* SyncController._intensity, in quarters

ambilight == <<measured, intensity>>

Edges == {"left", "top", "right", "bottom"}

\* What a channel may be mapped to.
TV_RELATIVE_POSITIONS ==
    {"auto", "top", "bottom", "left_top", "left_middle", "left_bottom", "right_top",
     "right_middle", "right_bottom"}

\* The zones of an edge are a whole number of units apart.
ASSUME AmbilightAssumption ==
    /\ Topology \in [Edges -> Nat] /\ Reversed \subseteq Edges
    /\ Zones \subseteq Edges \X Int /\ IsFiniteSet(Zones) /\ Colours \subseteq Int
    /\ Mapping \in [Channels -> TV_RELATIVE_POSITIONS]
    /\ Position \in [Channels -> Int \X Int \X Int]
    /\ Unit \in Nat \ {0}
    /\ \A e \in Edges : Topology[e] > 1 => (2 * Unit) % (Topology[e] - 1) = 0

Largest(a, b) == IF a > b THEN a ELSE b
Smallest(a, b) == IF a < b THEN a ELSE b

\* round(a / b): to the nearest integer, and from halfway to the even one.
Round(a, b) ==
    LET q == a \div b
        r == 2 * (a % b)
    IN  IF r > b \/ (r = b /\ q % 2 = 1) THEN q + 1 ELSE q

\* Where a zone is on its edge, from -1.0 to 1.0.
Coordinate(e, i) ==
    LET n == Topology[e]
    IN  ((2 * Unit * (IF e \in Reversed THEN n - 1 - i ELSE i)) \div Largest(n - 1, 1)) - Unit

ZonePosition(z) ==
    LET c == Coordinate(z[1], z[2])
    IN  CASE z[1] = "left" -> <<-Unit, c, 0>>
          [] z[1] = "right" -> <<Unit, c, 0>>
          [] z[1] = "top" -> <<c, Unit, 0>>
          [] z[1] = "bottom" -> <<c, -Unit, 0>>

\* measured_points: the zones of the topology, with their colour cut to 0..255.
Measured(m) ==
    [z \in {z \in DOMAIN m : z[2] \in 0..Topology[z[1]] - 1} |->
        Largest(0, Smallest(255, m[z]))]

Absolute(n) == IF n < 0 THEN -n ELSE n

\* Erroneous variant: the differences are added without being squared.
CityDistance(p, q) == Absolute(p[1] - q[1]) + Absolute(p[2] - q[2]) + Absolute(p[3] - q[3])

SquareDistance(p, q) ==
    (p[1] - q[1]) * (p[1] - q[1]) + (p[2] - q[2]) * (p[2] - q[2]) + (p[3] - q[3]) * (p[3] - q[3])

\* The zones at the least distance, by the given measure.
Nearest(zones, Distance(_)) ==
    {z \in zones : \A y \in zones : Distance(z) <= Distance(y)}

Segments ==
    [m \in {"left_top", "left_middle", "left_bottom", "right_top", "right_middle", "right_bottom"} |->
        CASE m = "left_top" -> <<"left", Unit>>
          [] m = "left_middle" -> <<"left", 0>>
          [] m = "left_bottom" -> <<"left", -Unit>>
          [] m = "right_top" -> <<"right", Unit>>
          [] m = "right_middle" -> <<"right", 0>>
          [] m = "right_bottom" -> <<"right", -Unit>>]

\* _points_for_location: the sets of zones it may return for a mapping.
Selections(zones, mapping) ==
    LET OnEdge(e) == {z \in zones : z[1] = e}
        Off(z) == Absolute(Coordinate(z[1], z[2]) - Segments[mapping][2])
    IN  CASE mapping \in {"top", "bottom"} -> {OnEdge(mapping)} \ {{}}
          [] mapping \in DOMAIN Segments ->
               LET near == Nearest(OnEdge(Segments[mapping][1]), Off)
               IN  {{z} : z \in Nearest(near, LAMBDA z : Coordinate(z[1], z[2]))}
          [] OTHER -> {}

Total(points, zones) == FoldFunctionOnSet(LAMBDA x, y : x + y, 0, points, zones)

Average(points, zones) ==
    Round(Total(points, zones), Cardinality(zones))

\* map_points_to_channels: the colours a channel may get, the nearest zone's if its
\* mapping selects none.
ChannelColours(points, c) ==
    LET zones == DOMAIN points
        chosen == Selections(zones, Mapping[c])
        Off(z) == SquareDistance(ZonePosition(z), Position[c])
        auto == {{z} : z \in Nearest(zones, Off)}
    IN  {257 * Average(points, s) : s \in IF chosen = {} THEN auto ELSE chosen}

\* The frames a measurement may yield; none if nothing was measured.
FramesOf(m) ==
    LET points == Measured(m)
    IN  IF points = <<>> \/ Channels = {} THEN {}
        ELSE {f \in [Channels -> UNION {ChannelColours(points, c) : c \in Channels}] :
                \A c \in Channels : f[c] \in ChannelColours(points, c)}

\* _scale_channels, with the intensity in quarters.
Scaled(f, quarters) ==
    IF quarters >= 4 THEN f ELSE [c \in DOMAIN f |-> Round(f[c] * quarters, 4)]

AmbilightInit == measured = <<>> /\ intensity \in 0..4

\* A zone changes its colour, or is reported no more.
ZoneChanges(z) ==
    /\ \/ \E v \in Colours :
            measured' = [y \in DOMAIN measured \cup {z} |-> IF y = z THEN v ELSE measured[y]]
       \/ measured' = [y \in DOMAIN measured \ {z} |-> measured[y]]
    /\ UNCHANGED intensity

\* The light entity's brightness.
SetIntensity == intensity' \in 0..4 /\ UNCHANGED measured

AmbilightNext == SetIntensity \/ \E z \in Zones : ZoneChanges(z)

AmbilightSpec == AmbilightInit /\ [][AmbilightNext]_ambilight

-----------------------------------------------------------------------------
(* Reference: what the README promises of a mapping, by zone numbers *)

\* How many zones of its edge are below a zone: they count upwards unless reversed.
Height(z) == IF z[1] \in Reversed THEN Topology[z[1]] - 1 - z[2] ELSE z[2]

\* A zone that may stand for a segment of its edge.
StandsFor(z, zones, mapping) ==
    LET others == {y \in zones : y[1] = z[1]}
        Skew(y) == Absolute(2 * Height(y) - (Topology[y[1]] - 1))
    IN  CASE mapping \in {"left_top", "right_top"} -> \A y \in others : Height(y) <= Height(z)
          [] mapping \in {"left_bottom", "right_bottom"} -> \A y \in others : Height(y) >= Height(z)
          [] OTHER -> \A y \in others : Skew(y) >= Skew(z)

\* Where a zone is: the zones of an edge are equal steps apart, from its lower or left
\* end to the other, and one alone is at that end.
Place(z) ==
    LET step == (2 * Unit) \div Largest(Topology[z[1]] - 1, 1)
        along == Height(z) * step - Unit
    IN  CASE z[1] = "left" -> <<-Unit, along>>
          [] z[1] = "right" -> <<Unit, along>>
          [] z[1] = "top" -> <<along, Unit>>
          [] z[1] = "bottom" -> <<along, -Unit>>

\* How far a zone is from a channel's position; their depths differ by the same for all.
Gap(z, p) ==
    (Place(z)[1] - p[1]) * (Place(z)[1] - p[1]) + (Place(z)[2] - p[2]) * (Place(z)[2] - p[2])

IsNearest(z, zones, p) == \A y \in zones : Gap(z, p) <= Gap(y, p)

\* A colour at full scale is as near to that part of c as an integer can be.
IsScaled(v, c, quarters) ==
    v \in Nat /\ v <= 65535 /\ Absolute(4 * v - quarters * c) <= 2

\* What a channel may show: the average of an edge, within half of 1/255; a zone that
\* stands for its segment; or, if that was not measured or it is mapped to "auto", a zone
\* that no other is nearer than.
Shows(v, c, quarters, points) ==
    LET Edge(e) == {z \in DOMAIN points : z[1] = e}
        mapping == Mapping[c]
        edge == IF mapping \in DOMAIN Segments THEN Segments[mapping][1] ELSE mapping
        zones == Edge(edge)
    IN  CASE zones = {} -> \E z \in DOMAIN points :
               /\ IsNearest(z, DOMAIN points, Position[c])
               /\ IsScaled(v, 257 * points[z], quarters)
          [] zones # {} /\ mapping = edge ->
               \E a \in 0..255 : /\ 2 * Absolute(a * Cardinality(zones) - Total(points, zones))
                                      <= Cardinality(zones)
                                 /\ IsScaled(v, 257 * a, quarters)
          [] OTHER -> \E z \in zones : /\ StandsFor(z, DOMAIN points, mapping)
                                      /\ IsScaled(v, 257 * points[z], quarters)

-----------------------------------------------------------------------------
(* Properties *)

\* Whatever frame is made of a measurement, each channel shows what was measured where
\* its mapping says, whichever zones the TV left out and whichever end of an edge they
\* count from, scaled by the intensity.
ChannelsShowTheirZones ==
    \A f \in FramesOf(measured) : \A c \in Channels :
        Shows(Scaled(f, intensity)[c], c, intensity, Measured(measured))
=============================================================================
