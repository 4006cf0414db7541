-------------------------- MODULE EventSubscriber --------------------------
(***************************************************************************)
(* The event subscriber: one goroutine that subscribes to the kernel's     *)
(* events over gRPC, receives them one by one and starts a goroutine for   *)
(* each apply or delete (a job of Deployer, whose Receive is the dispatch  *)
(* here).  The kernel may go down and come back; a stream that has failed  *)
(* once answers every later Recv with the error.                           *)
(***************************************************************************)
EXTENDS Naturals, Sequences, FiniteSets

CONSTANTS
    Emitters,       \* who emits events through the kernel
    Server,         \* the emitter of the requests: server_api
    MaxRequests     \* bound: events emitted by it

ASSUME EventSubscriberAssumption ==
    /\ Server \in Emitters
    /\ MaxRequests \in Nat

Requests == {"apply", "delete"}
Kinds    == Requests \cup {"created", "deleted", "exposed"}
Events   == [kind : Kinds, by : Emitters]

\* Of these, the types that SubscribeDeploymentEvents asks for.
Filter == Requests \cup {"created", "deleted"}

VARIABLES
    pc,         \* the goroutine
    stream,     \* of the last successful subscription
    stop,       \* c.stopChan is closed
    kernel,     \* the kernel serves
    events,     \* the events the kernel has emitted (history)
    pending,    \* the positions in events of what is in the stream
    jobs        \* jobs[n]: for which of the events the n-th goroutine was started

subVars == <<pc, stream, stop, kernel, events, pending, jobs>>

SubscriberTypeOK ==
    /\ pc \in {"outer", "retry", "inner", "recv", "sleep", "done"}
    /\ stream \in {"none", "open", "broken"}
    /\ stop \in BOOLEAN
    /\ kernel \in BOOLEAN
    /\ events \in Seq(Events)
    /\ pending \in Seq(Nat)
    /\ jobs \in Seq(Nat)

SubscriberInit ==
    /\ pc = "outer"
    /\ stream = "none"
    /\ stop = FALSE
    /\ kernel \in BOOLEAN
    /\ events = << >>
    /\ pending = << >>
    /\ jobs = << >>

-----------------------------------------------------------------------------
\* The select at the head of the outer loop, and SubscribeDeploymentEvents.
Subscribe ==
    /\ pc = "outer"
    /\ \/ stop /\ pc' = "done" /\ UNCHANGED <<stream, pending>>
       \/ ~stop /\ ~kernel /\ pc' = "retry" /\ UNCHANGED <<stream, pending>>
       \/ ~stop /\ kernel /\ pc' = "inner" /\ stream' = "open" /\ pending' = << >>
    /\ UNCHANGED <<stop, kernel, events, jobs>>

\* 5 seconds later.
Retry ==
    /\ pc = "retry"
    /\ pc' = "outer"
    /\ UNCHANGED <<stream, stop, kernel, events, pending, jobs>>

\* Mutant: the stop is only looked for before a subscription.
StopUnseen ==
    /\ pc = "inner"
    /\ pc' = "recv"
    /\ UNCHANGED <<stream, stop, kernel, events, pending, jobs>>

\* The select at the head of the inner loop.
CheckStop ==
    /\ pc = "inner"
    /\ pc' = IF stop THEN "done" ELSE "recv"
    /\ UNCHANGED <<stream, stop, kernel, events, pending, jobs>>

\* Mutant: whatever the filter lets through is taken for a request.
AnyIsRequest(e) == TRUE

IsRequest(e) == e.kind \in Requests

\* Recv returns an event: a request whose payload can be marshalled gets a goroutine.
RecvEvent ==
    /\ pc = "recv"
    /\ pending # << >>
    /\ pending' = Tail(pending)
    /\ \/ IsRequest(events[Head(pending)]) /\ jobs' = Append(jobs, Head(pending))
       \/ UNCHANGED jobs
    /\ pc' = "inner"
    /\ UNCHANGED <<stream, stop, kernel, events>>

\* Recv returns an error; what was under way is lost.
RecvError ==
    /\ pc = "recv"
    /\ stream = "broken"
    /\ pending' = << >>
    /\ pc' = "sleep"
    /\ UNCHANGED <<stream, stop, kernel, events, jobs>>

\* 2 seconds later the `break` leaves the select, and not the inner loop.
BreakInner ==
    /\ pc = "sleep"
    /\ pc' = "inner"
    /\ UNCHANGED <<stream, stop, kernel, events, pending, jobs>>

Subscriber == Subscribe \/ Retry \/ CheckStop \/ RecvEvent \/ RecvError \/ BreakInner

-----------------------------------------------------------------------------
\* The kernel publishes an event, which reaches the subscriber only through an open
\* stream and its filter.
Published(e) ==
    /\ events' = Append(events, e)
    /\ pending' = IF stream = "open" /\ e.kind \in Filter
                  THEN Append(pending, Len(events) + 1)
                  ELSE pending

ServerRequest ==
    /\ kernel
    /\ Cardinality({k \in DOMAIN events : events[k].by = Server}) < MaxRequests
    /\ \E kind \in Requests : Published([kind |-> kind, by |-> Server])
    /\ UNCHANGED <<pc, stream, stop, kernel, jobs>>

KernelDown ==
    /\ kernel
    /\ kernel' = FALSE
    /\ stream' = IF stream = "open" THEN "broken" ELSE stream
    /\ UNCHANGED <<pc, stop, events, pending, jobs>>

KernelUp ==
    /\ ~kernel
    /\ kernel' = TRUE
    /\ UNCHANGED <<pc, stream, stop, events, pending, jobs>>

\* EventSubscriberComponent.Stop, which does not wait for the goroutine.
Stop ==
    /\ ~stop
    /\ stop' = TRUE
    /\ UNCHANGED <<pc, stream, kernel, events, pending, jobs>>

SubscriberNext == Subscriber \/ ServerRequest \/ KernelDown \/ KernelUp \/ Stop

\* Fairness: the goroutine runs and its sleeps end; nothing of the kernel or of Stop.
SubscriberSpec ==
    SubscriberInit /\ [][SubscriberNext]_subVars /\ WF_subVars(Subscriber)

-----------------------------------------------------------------------------
\* After Stop the goroutine ends, unless it is blocked in Recv on a healthy stream
\* without events: neither the retries nor the errors of a dead kernel keep it (295-318).
StopEnds == stop ~> pc = "done" \/ (pc = "recv" /\ stream = "open" /\ pending = << >>)

\* "event stream error, reconnecting" (316), "Break inner loop to reconnect" (318): after
\* an error the subscriber goes back to subscribing.
Reconnects == pc = "sleep" ~> pc \in {"outer", "done"}

\* At most one job for each request, in the order of the requests, and none for any
\* other event, whenever the stream breaks (314-356): the abstract dispatcher.
Dispatcher == INSTANCE Dispatch
AtMostOnce == Dispatcher!Spec

=============================================================================
