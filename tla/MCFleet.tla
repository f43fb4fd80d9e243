------------------------------ MODULE MCFleet ------------------------------
(* Fleet with workers at the limit of what their leases allow, for TLC.    *)
EXTENDS Fleet, TLC

AllRuntimes == {"python", "java", "node"}

\* In ticks of half a second.  A grace of 2.25 loses a part of a second to
\* int(): 1 s is granted 2 s and 2 s are granted 4 s.  Node sends every 1.5 s,
\* announces 2 s and may have two sends under way.
MCInterval == ("python" :> 2) @@ ("java" :> 2) @@ ("node" :> 3)
MCMaxDelay == ("python" :> 1) @@ ("java" :> 2) @@ ("node" :> 5)
=============================================================================
