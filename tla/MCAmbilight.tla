------------------------------ MODULE MCAmbilight ------------------------------
(* A TV with three zones at its left, counted from the top, two at its top and one at *)
(* its right; zones before and after those of the topology; colours beyond 255.  The  *)
(* last channel takes the nearest zone, the others do when theirs were not measured.  *)
EXTENDS Ambilight

ReportedZones ==
    {<<"left", -1>>, <<"left", 0>>, <<"left", 1>>, <<"left", 2>>, <<"left", 3>>,
     <<"top", 0>>, <<"top", 1>>, <<"right", 0>>}
SmallTopology == [e \in Edges |-> CASE e = "left" -> 3 [] e = "top" -> 2 [] e = "right" -> 1
                                    [] e = "bottom" -> 0]
FivePositions == [c \in Channels |->
    CASE c = 1 -> <<-2, 2, 0>> [] c = 2 -> <<-2, 0, 1>> [] c = 3 -> <<0, 2, 0>>
      [] c = 4 -> <<2, -1, 0>> [] c = 5 -> <<1, 0, 2>>]
FiveMappings == [c \in Channels |->
    CASE c = 1 -> "left_top" [] c = 2 -> "left_middle" [] c = 3 -> "top"
      [] c = 4 -> "right_top" [] c = 5 -> "auto"]
=============================================================================
