----------------------------- MODULE MCRegistry -----------------------------
(* Registry on small tables, for TLC. *)
EXTENDS Registry, TLC

CONSTANTS t1, t2, m1, m2, sum, plus

\* One name, and two spellings of one canonical name.
OneName == sum :> "sum"
TwoSpellings == (sum :> "sum") @@ (plus :> "sum")

BareOrSum == {<<>>, <<sum>>}
JustSum == {<<sum>>}

ThreadSymmetry == Permutations({t1, t2})
Symmetry == Permutations({t1, t2}) \cup Permutations({m1, m2})
=============================================================================
