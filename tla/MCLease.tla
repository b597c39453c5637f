--------------------------------- MODULE MCLease ---------------------------------
(***************************************************************************)
(* Instances of ChallengeLease for TLC.                                     *)
(***************************************************************************)
EXTENDS ChallengeLease
================================================================================
