------------------------------ MODULE Dispatch ------------------------------
(***************************************************************************)
(* What the event subscriber promises, whatever becomes of its streams:    *)
(* jobs are started for requests only, in the order in which the requests  *)
(* were emitted, and for none twice.  A request may be passed over.        *)
(***************************************************************************)
EXTENDS Naturals, Sequences

CONSTANTS
    Events,     \* events, records with a kind
    Requests    \* the kinds that ask for a job

VARIABLES
    events,     \* the events emitted so far
    jobs        \* jobs[n]: the position in events of what the n-th job was started for

Init == events = << >> /\ jobs = << >>

Emit ==
    /\ \E e \in Events : events' = Append(events, e)
    /\ UNCHANGED jobs

StartJob ==
    /\ \E k \in DOMAIN events :
          /\ events[k].kind \in Requests
          /\ \A n \in DOMAIN jobs : jobs[n] < k
          /\ jobs' = Append(jobs, k)
    /\ UNCHANGED events

Next == Emit \/ StartJob

Spec == Init /\ [][Next]_<<events, jobs>>

-----------------------------------------------------------------------------
\* What the promise comes to: the jobs are those of requests, in the order in which these
\* were emitted, and no request has two.
InOrder ==
    /\ \A n \in DOMAIN jobs : jobs[n] \in DOMAIN events /\ events[jobs[n]].kind \in Requests
    /\ \A m, n \in DOMAIN jobs : m < n => jobs[m] < jobs[n]

=============================================================================
