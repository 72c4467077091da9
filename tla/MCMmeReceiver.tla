---------------------------- MODULE MCMmeReceiver ----------------------------
(* Small instances of MmeReceiver for TLC.                                 *)
EXTENDS MmeReceiver, TLC

CONSTANTS s1, i1, u1, a1, a2

\* An inbox and a subscription on one session.
PairHome == i1 :> s1 @@ u1 :> s1

\* Applications are interchangeable.
Apps2 == Permutations({a1, a2})
=============================================================================
