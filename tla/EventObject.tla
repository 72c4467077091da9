----------------------------- MODULE EventObject -----------------------------
(***************************************************************************)
(* What MME promises about the event objects it manages (src/ReadMe.md,    *)
(* "Event destruction" and "Event shutdown"), without locks, maps, queues  *)
(* or threads.  An object is destroyed in two stages: somebody claims it,  *)
(* and it is freed later, when its callback is switched off and not        *)
(* running.  Switching the callback off from outside waits for a running   *)
(* callback; from inside, it takes effect when the callback returns.       *)
(***************************************************************************)
CONSTANT Objects

VARIABLES
    stage,    \* absent, live, claimed for destruction, gone
    enabled,  \* the callback may be started
    running,  \* the callback is running
    quiet     \* the callback is not running and never will be again

vars == <<stage, enabled, running, quiet>>

Init ==
    /\ stage = [x \in Objects |-> "absent"]
    /\ enabled = [x \in Objects |-> FALSE]
    /\ running = [x \in Objects |-> FALSE]
    /\ quiet = [x \in Objects |-> FALSE]

Exists(x) == stage[x] \in {"live", "claimed"}

Create(x) ==
    /\ stage[x] = "absent"
    /\ stage' = [stage EXCEPT ![x] = "live"]
    /\ enabled' = [enabled EXCEPT ![x] = TRUE]
    /\ UNCHANGED <<running, quiet>>

CreateFails(x) ==
    /\ stage[x] = "absent"
    /\ stage' = [stage EXCEPT ![x] = "gone"]
    /\ UNCHANGED <<enabled, running, quiet>>

Run(x) ==
    /\ Exists(x) /\ enabled[x] /\ ~running[x]
    /\ running' = [running EXCEPT ![x] = TRUE]
    /\ UNCHANGED <<stage, enabled, quiet>>

Return(x) ==
    /\ running[x]
    /\ running' = [running EXCEPT ![x] = FALSE]
    /\ quiet' = [quiet EXCEPT ![x] = @ \/ ~enabled[x]]
    /\ UNCHANGED <<stage, enabled>>

\* From outside the callback, and from inside it.
Silence(x) ==
    /\ Exists(x) /\ ~running[x]
    /\ enabled' = [enabled EXCEPT ![x] = FALSE]
    /\ quiet' = [quiet EXCEPT ![x] = TRUE]
    /\ UNCHANGED <<stage, running>>

SilenceSelf(x) ==
    /\ running[x]
    /\ enabled' = [enabled EXCEPT ![x] = FALSE]
    /\ UNCHANGED <<stage, running, quiet>>

\* One object is destroyed, or all those of a session at once.
Claim(S) ==
    /\ S # {} /\ \A x \in S : stage[x] = "live"
    /\ stage' = [x \in Objects |-> IF x \in S THEN "claimed" ELSE stage[x]]
    /\ UNCHANGED <<enabled, running, quiet>>

Free(x) ==
    /\ stage[x] = "claimed" /\ ~enabled[x] /\ ~running[x]
    /\ stage' = [stage EXCEPT ![x] = "gone"]
    /\ UNCHANGED <<enabled, running, quiet>>

Next ==
    \/ \E x \in Objects :
         \/ Create(x) \/ CreateFails(x) \/ Run(x) \/ Return(x)
         \/ Silence(x) \/ SilenceSelf(x) \/ Free(x)
    \/ \E S \in SUBSET Objects : Claim(S)

Spec == Init /\ [][Next]_vars
=============================================================================
