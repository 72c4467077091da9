----------------------------- MODULE HandoffMap -----------------------------
(***************************************************************************)
(* What synchronizedMap promises the code that uses it.  An entry is put   *)
(* in once and then leaves in one atomic step, either alone (Give) or with *)
(* everything else that is in the map at that moment (Sweep).  What has    *)
(* been swept is handed on one entry at a time, or is abandoned; what has  *)
(* left never comes back and is never given to a second thread.            *)
(***************************************************************************)
CONSTANT Keys
VARIABLE where

Places == {"outside", "inside", "claimed", "handed", "lost"}

Init == where = [k \in Keys |-> "outside"]

Move(S, from, to) ==
    /\ S # {}
    /\ \A k \in S : where[k] = from
    /\ where' = [k \in Keys |-> IF k \in S THEN to ELSE where[k]]

Inside == {k \in Keys : where[k] = "inside"}

Put(k)       == Move({k}, "outside", "inside")
Give(k)      == Move({k}, "inside", "handed")
Sweep        == Move(Inside, "inside", "claimed")
Deliver(k)   == Move({k}, "claimed", "handed")
Abandon(S)   == Move(S, "claimed", "lost")
Discard      == Move(Inside, "inside", "lost")

Next ==
    \/ \E k \in Keys : Put(k) \/ Give(k) \/ Deliver(k)
    \/ Sweep
    \/ \E S \in SUBSET Keys : Abandon(S)
    \/ Discard

Spec == Init /\ [][Next]_where
=============================================================================
