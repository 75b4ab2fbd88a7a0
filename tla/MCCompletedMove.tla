--------------------------- MODULE MCCompletedMove ---------------------------
(* Two files in a folder and one outside, which has the name of one of them.    *)
EXTENDS CompletedMove, TLC

CONSTANTS f1, f2, f3, d1, n1, n2

MCFolder == f1 :> d1 @@ f2 :> d1 @@ f3 :> None
MCChoices == {{f1, f2}, {f1, f3}}
MCName   == f1 :> n1 @@ f2 :> n2 @@ f3 :> n1
==============================================================================
