---------------------------- MODULE MCConfiguration ----------------------------
EXTENDS Configuration
CONSTANTS b1, b2, elsewhere, tv1, tv2

\* Two bridges with areas of different width, one of them with two; TVs at two ports.
TwoBridgeAreas == {<<b1, 1>>, <<b1, 2>>, <<b2, 2>>}
TwoTvPorts == [t \in Tvs |-> IF t = tv1 THEN DefaultPort ELSE 1925]
=============================================================================
