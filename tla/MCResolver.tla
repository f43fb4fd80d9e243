----------------------------- MODULE MCResolver -----------------------------
(* Resolver on small tables, for TLC. *)
EXTENDS Resolver, TLC

CONSTANTS r1, r2, m1, m2, sum, plus

\* Two spellings of one name, of which the first is canonical.
TwoSpellings == (sum :> sum) @@ (plus :> sum)
OneName == sum :> sum
OrderOfTwo == (m1 :> 1) @@ (m2 :> 2)

Symmetry == Permutations({r1, r2})
=============================================================================
