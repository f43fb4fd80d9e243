----------------------------- MODULE MCDatabase -----------------------------
(* Database with spellings of one name, two other names, and two spellings *)
(* of one that has no letters, for TLC.                                    *)
EXTENDS Database, TLC

Capitals == ("A" :> "a") @@ ("B" :> "b")

Spellings == {<<"a", "B">>, <<"a", "_", "b">>, <<"A", "-", " ", "B">>, <<"A", "B">>}
OtherNames == {<<"a", "b">>, <<"a", ".", "b">>, <<"-", ".">>, <<" ", "-", ".">>}
MCNames == Spellings \cup OtherNames
=============================================================================
