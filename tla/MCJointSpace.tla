----------------------------- MODULE MCJointSpace -----------------------------
(* JointSpace with three calls waiting for the lock: a start and a stop in any order, *)
(* and the one that overtakes neither.                                                *)
EXTENDS JointSpace
=============================================================================
