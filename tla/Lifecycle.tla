----------------------------- MODULE Lifecycle -----------------------------
(***************************************************************************)
(* What the supervisor promises of each UMCProcess, whoever starts, stops, *)
(* asks or crashes: one process at a time, the next only when the last is  *)
(* dead, and somebody who watches it until it is dead or the supervisor    *)
(* shuts down.  Nothing is started for a UMCProcess that has been given up.*)
(***************************************************************************)
CONSTANTS Procs, Cmds

VARIABLES
    live,       \* live[p]: the live processes of p
    watch,      \* watch[p]: not yet, as long as, or no longer watched
    closing     \* the supervisor shuts down

Init ==
    /\ live = [p \in Procs |-> {}]
    /\ watch = [p \in Procs |-> "off"]
    /\ closing = FALSE

\* The first process, or the next one after a crash.
Start(p) ==
    /\ watch[p] \in {"off", "on"}
    /\ live[p] = {}
    /\ \E c \in Cmds :
          /\ \A q \in Procs : c \notin live[q]
          /\ live' = [live EXCEPT ![p] = {c}]
    /\ watch' = [watch EXCEPT ![p] = "on"]
    /\ UNCHANGED closing

Die(p) ==
    /\ live[p] # {}
    /\ live' = [live EXCEPT ![p] = {}]
    /\ UNCHANGED <<watch, closing>>

GiveUp(p) ==
    /\ watch[p] = "on"
    /\ live[p] = {} \/ closing
    /\ watch' = [watch EXCEPT ![p] = "gone"]
    /\ UNCHANGED <<live, closing>>

Close ==
    /\ ~closing
    /\ closing' = TRUE
    /\ UNCHANGED <<live, watch>>

Next == Close \/ \E p \in Procs : Start(p) \/ Die(p) \/ GiveUp(p)

Spec == Init /\ [][Next]_<<live, watch, closing>>

=============================================================================
