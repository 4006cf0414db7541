---------------------------- MODULE Deployments ----------------------------
(***************************************************************************)
(* The deployments as the kernel keeps them, next to the event subscriber: *)
(* POST and GET /deployments of the HTTP API and Deploy, Delete and        *)
(* GetStatus of the deployment handler (which nothing in the repository    *)
(* calls yet).  Each call is a goroutine of its own that makes a few gRPC  *)
(* calls to the kernel; the events that it emits come back to the          *)
(* subscriber.                                                             *)
(***************************************************************************)
EXTENDS EventSubscriber

CONSTANTS
    Calls,      \* the calls
    Call,       \* Call[x]: the operation, its deployment and its exposed services
    Ids,        \* deployment IDs
    Exposed,    \* names of services
    NoState     \* no value for a key of the kernel

Ops == {"post", "get", "deploy", "delete", "status"}

ASSUME DeploymentsAssumption ==
    /\ Emitters = Calls \cup {Server}
    /\ Server \notin Calls
    /\ Call \in [Calls -> [op : Ops, id : Ids, exposes : SUBSET Exposed]]
    /\ NoState \notin Calls

VARIABLES
    kv,         \* kv[d]: the call whose specification is stored at /deployments/<d>
    call        \* call[x]: where x is, the services left to announce

vars == <<subVars, kv, call>>

CallPcs == {"none", "save", "emit", "expose", "read", "ok", "failed"}

CallRecords == [pc : CallPcs, todo : SUBSET Exposed]

TypeOK ==
    /\ SubscriberTypeOK
    /\ kv \in [Ids -> Calls \cup {NoState}]
    /\ call \in [Calls -> CallRecords]

Init ==
    /\ SubscriberInit
    /\ kv = [d \in Ids |-> NoState]
    /\ call = [x \in Calls |-> [pc |-> "none", todo |-> {}]]

-----------------------------------------------------------------------------
Goto(x, next) == call' = [call EXCEPT ![x].pc = next]

\* Mutant: Deploy announces the deployment before it stores it.
EmitsFirst(op) == IF op \in {"post", "delete", "deploy"} THEN "emit" ELSE "read"

\* The first call to the kernel.
FirstStep(op) ==
    CASE op = "deploy"             -> "save"
      [] op \in {"post", "delete"} -> "emit"
      [] OTHER                     -> "read"

\* A request with the wrong method, body or query, or a specification that cannot be
\* marshalled, fails at once; POST takes any ID and specification.
Begin(x) ==
    /\ call[x].pc = "none"
    /\ Goto(x, FirstStep(Call[x].op)) \/ Goto(x, "failed")
    /\ UNCHANGED <<subVars, kv>>

\* SaveDeploymentState.
Save(x) ==
    /\ call[x].pc = "save"
    /\ kernel
    /\ kv' = [kv EXCEPT ![Call[x].id] = x]
    /\ Goto(x, "emit")
    /\ UNCHANGED subVars

\* A call to the kernel fails: an emit or a save that does may have taken effect.
SaveFails(x) ==
    /\ call[x].pc = "save"
    /\ \/ UNCHANGED kv
       \/ kernel /\ kv' = [kv EXCEPT ![Call[x].id] = x]
    /\ Goto(x, "failed")
    /\ UNCHANGED subVars

\* Mutant: a type of event that nobody knows.
Misnamed(x) == [kind |-> "removed", by |-> x]

\* The event that x emits at its "emit".
Announcement(x) == [kind |-> IF Call[x].op = "delete" THEN "deleted" ELSE "created", by |-> x]

\* Delete leaves the state where it is.
Emit(x) ==
    /\ call[x].pc = "emit"
    /\ kernel
    /\ Published(Announcement(x))
    /\ call' = [call EXCEPT ![x] = IF Call[x].op = "deploy"
                                   THEN [@ EXCEPT !.pc = "expose", !.todo = Call[x].exposes]
                                   ELSE [@ EXCEPT !.pc = "ok"]]
    /\ UNCHANGED <<pc, stream, stop, kernel, jobs, kv>>

EmitFails(x) ==
    /\ call[x].pc = "emit"
    /\ \/ UNCHANGED <<events, pending>>
       \/ kernel /\ Published(Announcement(x))
    /\ Goto(x, "failed")
    /\ UNCHANGED <<pc, stream, stop, kernel, jobs, kv>>

\* EmitServiceExposure for each exposed service; an error is logged.
Expose(x) ==
    /\ call[x].pc = "expose"
    /\ \E v \in call[x].todo :
          call' = [call EXCEPT ![x] = [@ EXCEPT !.todo = call[x].todo \ {v}]]
    /\ \/ kernel /\ Published([kind |-> "exposed", by |-> x])
       \/ UNCHANGED <<events, pending>>
    /\ UNCHANGED <<pc, stream, stop, kernel, jobs, kv>>

Deployed(x) ==
    /\ call[x].pc = "expose"
    /\ call[x].todo = {}
    /\ Goto(x, "ok")
    /\ UNCHANGED <<subVars, kv>>

\* GetDeploymentState: the kernel may answer for a key without a value by an error or by
\* an empty value, which GetStatus cannot unmarshal and GET returns as it is.
Read(x) ==
    /\ call[x].pc = "read"
    /\ kernel
    /\ kv[Call[x].id] # NoState \/ Call[x].op = "get"
    /\ Goto(x, "ok")
    /\ UNCHANGED <<subVars, kv>>

ReadFails(x) ==
    /\ call[x].pc = "read"
    /\ Goto(x, "failed")
    /\ UNCHANGED <<subVars, kv>>

CallStep(x) ==
    \/ Begin(x) \/ Save(x) \/ SaveFails(x) \/ Emit(x) \/ EmitFails(x)
    \/ Expose(x) \/ Deployed(x) \/ Read(x) \/ ReadFails(x)

Next ==
    \/ SubscriberNext /\ UNCHANGED <<kv, call>>
    \/ \E x \in Calls : CallStep(x)

Spec == Init /\ [][Next]_vars

\* Fairness: the subscriber's goroutine runs, as in EventSubscriber; nothing of the calls.
FairSpec == Spec /\ WF_vars(Subscriber /\ UNCHANGED <<kv, call>>)

-----------------------------------------------------------------------------
AnnouncedBy(x) == {k \in DOMAIN events : events[k].by = x}

\* Whoever receives "deployment.created" from Deploy, or the exposure of one of its
\* services, finds a specification stored, and finds it also after a Delete; no exposure
\* comes before its deployment (108-134): the order of the calls, with any of them failing
\* half way, holds against any number of concurrent ones.  It is about the handler of
\* deployments, which has no caller; the route POST announces without storing (197-206).
AnnouncedIsStored ==
    \A x \in Calls : \A k \in AnnouncedBy(x) :
        /\ Call[x].op = "deploy" => kv[Call[x].id] # NoState
        /\ events[k].kind = "exposed" =>
              \E n \in AnnouncedBy(x) : n < k /\ events[n].kind = "created"

=============================================================================
