------------------------------ MODULE Backoff ------------------------------
(***************************************************************************)
(* The delay before each restart of a UMC, as monitorUMC computes it under *)
(* proc.mu (supervisor.go 580-603).  One step is one exit of the process   *)
(* that the policy restarts: it happens `up` seconds after the process was *)
(* started, that is backoff + up seconds after LastRestartAt, which is set *)
(* before the delay is slept.  Supervisor has the control around it.       *)
(***************************************************************************)
EXTENDS Naturals

CONSTANT Uptimes    \* how long, in seconds, a process may run before it exits

ASSUME UptimesAssumption == Uptimes \subseteq Nat

VARIABLES
    BackoffSeconds, \* proc.BackoffSeconds
    restarted,      \* proc.LastRestartAt is not zero
    backoff,        \* the delay chosen last
    uptime,         \* how long the process had run before the last exit
    quick           \* exits since the last reset or the start, counted up to Steps

vars == <<BackoffSeconds, restarted, backoff, uptime, quick>>

MaxBackoff   == 60      \* 60*time.Second
HealthyAfter == 300     \* 5*time.Minute
Steps        == 7       \* "1s, 2s, 4s, 8s, 16s, 32s, 60s (max)"

AtMost(n, bound) == IF n > bound THEN bound ELSE n

Init ==
    /\ BackoffSeconds = 1
    /\ restarted = FALSE
    /\ backoff = 0
    /\ uptime = 0
    /\ quick = 0

\* The delay, and the one after it unless the backoff is reset.
Delay == AtMost(BackoffSeconds, MaxBackoff)
Doubled == IF BackoffSeconds > MaxBackoff THEN BackoffSeconds
           ELSE AtMost(2 * BackoffSeconds, MaxBackoff)

\* Mutant: minutes are taken for seconds.
SecondsSince(up) == restarted /\ backoff + up > 5

\* `time.Since(proc.LastRestartAt) > 5*time.Minute`
LongSince(up) == restarted /\ backoff + up > HealthyAfter

\* Mutants: the reset goes to zero; the delay is not saturated.
ResetToZero(up) ==
    /\ LongSince(up)
    /\ BackoffSeconds' = 0
    /\ backoff' = 1
    /\ quick' = 0

Unsaturated(up) ==
    /\ ~LongSince(up)
    /\ BackoffSeconds' = 2 * BackoffSeconds
    /\ backoff' = AtMost(BackoffSeconds, 2 * MaxBackoff)
    /\ quick' = AtMost(quick + 1, Steps)

Reset(up) ==
    /\ LongSince(up)
    /\ BackoffSeconds' = 1
    /\ backoff' = 1
    /\ quick' = 0

Grow(up) ==
    /\ ~LongSince(up)
    /\ BackoffSeconds' = Doubled
    /\ backoff' = Delay
    /\ quick' = AtMost(quick + 1, Steps)

Exited(up) ==
    /\ Reset(up) \/ Grow(up)
    /\ restarted' = TRUE
    /\ uptime' = up

Next == \E up \in Uptimes : Exited(up)

Spec == Init /\ [][Next]_vars

-----------------------------------------------------------------------------
Sequence == {1, 2, 4, 8, 16, 32, 60}

TypeOK ==
    /\ BackoffSeconds \in Nat
    /\ restarted \in BOOLEAN
    /\ backoff \in Nat
    /\ uptime \in Uptimes \cup {0}
    /\ quick \in 0 .. Steps

\* "Exponential backoff: 1s, 2s, 4s, 8s, 16s, 32s, 60s (max)" (585): a UMC that never
\* stays up for long is delayed by exactly these, in this order, and then by 60s each
\* time; doubling, saturating and resetting in any order never leave the sequence.
FollowsSequence ==
    /\ restarted => backoff \in Sequence
    /\ quick > 0 => backoff = CASE quick = 1 -> 1
                                [] quick = 2 -> 2
                                [] quick = 3 -> 4
                                [] quick = 4 -> 8
                                [] quick = 5 -> 16
                                [] quick = 6 -> 32
                                [] OTHER -> 60

\* The delay only ever shrinks when the last restart was decided more than 5 minutes ago
\* (596-599): neither the doubling nor its limit ever shortens it.  That time includes the
\* delay itself, so that with a delay of 60 seconds an uptime of 241 is enough.
ShrinksOnlyAfterLong == [][backoff' < backoff => backoff + uptime' > HealthyAfter]_vars

=============================================================================
