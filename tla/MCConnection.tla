---------------------------- MODULE MCConnection ----------------------------
(* Small instances of Connection for TLC.                                  *)
EXTENDS Connection, TLC

CONSTANTS s1, s2, s3, a1, a2

Symmetry == Permutations({s1, s2, s3})
=============================================================================
