---------------------------- MODULE MCDiscovery -----------------------------
(* Discovery with one thread for each side, for TLC. *)
EXTENDS Discovery, TLC

CONSTANTS m1, m2, sum

OneName == sum :> sum
OrderOfTwo == (m1 :> 1) @@ (m2 :> 2)
JustSum == {<<sum>>}
=============================================================================
