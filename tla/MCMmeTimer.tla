----------------------------- MODULE MCMmeTimer -----------------------------
(* Small instances of MmeTimer for TLC.                                    *)
EXTENDS MmeTimer, TLC

CONSTANTS s1, s2, x1, x2, a1, a2

OneHome == x1 :> s1 @@ x2 :> s1
TwoHomes == x1 :> s1 @@ x2 :> s2

\* The applications are interchangeable.
Apps2 == Permutations({a1, a2})
=============================================================================
