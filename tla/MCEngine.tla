------------------------------ MODULE MCEngine ------------------------------
(***************************************************************************)
(* Small instances of Engine: the bodies the TV sends in classic mode, the *)
(* symmetry of the task identities, and a view without silent, shown,      *)
(* scene and target (for the runs whose properties do not read them).      *)
(***************************************************************************)
EXTENDS Engine, TLC

\* a brightness, an explicit "on", an "off"
AllBodies == {{"bri"}, {"on"}, {"off"}}
OneBody == {{"bri"}}
NoBodies == {}

TaskSymmetry == Permutations(Tasks)

ControlView == <<active, saved, releasing, forcing, graceTimer, pausedUntil, pauseTimer,
                 restore, slots, drain, available>>
=============================================================================
