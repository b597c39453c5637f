------------------------------- MODULE MCLifecycle -------------------------------
(***************************************************************************)
(* Instances of ChallengeLifecycle for TLC.                                 *)
(***************************************************************************)
EXTENDS ChallengeLifecycle

TwoStages      == 1 .. 2
ThreeStages    == 1 .. 3
StageThree     == {3}
OneStage       == {1}
NoStage        == {}
================================================================================
