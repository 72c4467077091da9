-------------------------- MODULE SessionLifecycle --------------------------
(***************************************************************************)
(* What MME promises about sessions and connections (src/ReadMe.md,        *)
(* mamaManagedEnvironment.h): a session that is created is usable until it *)
(* is destroyed; it is gone only when its event objects are; and when      *)
(* destroyConnection has freed the connection no session is left.  No      *)
(* lists, locks, queues or threads.                                        *)
(***************************************************************************)
CONSTANT Sessions

VARIABLES
    stage,  \* absent, creating, open, closing, gone
    busy,   \* sessions that have event objects
    closed  \* the connection is gone

vars == <<stage, busy, closed>>

Init ==
    /\ stage = [s \in Sessions |-> "absent"]
    /\ busy = {}
    /\ closed = FALSE

Move(s, from, to) ==
    /\ stage[s] = from
    /\ stage' = [stage EXCEPT ![s] = to]
    /\ UNCHANGED <<busy, closed>>

Create(s)      == ~closed /\ Move(s, "absent", "creating")
Opened(s)      == Move(s, "creating", "open")
CreateFails(s) == Move(s, "creating", "gone")
Destroy(s)     == Move(s, "open", "closing")
Remove(s)      == s \notin busy /\ Move(s, "closing", "gone")

Use(s) ==
    /\ stage[s] \in {"open", "closing"}
    /\ busy' \in {busy \cup {s}, busy \ {s}}
    /\ UNCHANGED <<stage, closed>>

Close ==
    /\ \A s \in Sessions : stage[s] \in {"absent", "gone"}
    /\ closed' = TRUE
    /\ UNCHANGED <<stage, busy>>

Next ==
    \/ \E s \in Sessions :
         \/ Create(s) \/ Opened(s) \/ CreateFails(s)
         \/ Destroy(s) \/ Remove(s) \/ Use(s)
    \/ Close

Spec == Init /\ [][Next]_vars
=============================================================================
