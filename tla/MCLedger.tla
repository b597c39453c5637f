-------------------------------- MODULE MCLedger --------------------------------
(***************************************************************************)
(* Instances of Ledger for TLC.                                             *)
(***************************************************************************)
EXTENDS Ledger, TLC

CONSTANTS u1, u2, k1, k2

Req(k, net, anyZero, resolved) ==
    [key |-> k, net |-> net, anyZero |-> anyZero, resolved |-> resolved]

\* Account 3 is u1's: the user is named twice.
Grant    == Req(k1, u1 :> 1 @@ 3 :> 1 @@ Treasury :> -2, FALSE, TRUE)
Purchase == Req(k2, u1 :> -1 @@ Purchases :> 1, FALSE, TRUE)
Gift     == Req(NoKey, u1 :> -1 @@ u2 :> 1, FALSE, TRUE)
Back     == Req(NoKey, 3 :> 1 @@ 4 :> -1, FALSE, FALSE)
Uneven   == Req(k2, u1 :> 2 @@ Treasury :> -1, FALSE, TRUE)
Zero     == Req(k2, u1 :> 1 @@ Treasury :> -1, TRUE, TRUE)

OneMember == <<u1>>

Postings == {Grant, Purchase, Gift, Back, Uneven, Zero}
================================================================================
