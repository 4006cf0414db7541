--------------------------- MODULE MCDeployments ---------------------------
(* A small instance of Deployments for TLC. *)
EXTENDS Deployments

\* A deployment with an exposed service is deployed, deleted and looked at, all at once; to
\* the kernel a POST is a delete with the other event, and a GET a status request that an
\* empty value satisfies.
Of(op, services) == [op |-> op, id |-> "d", exposes |-> services]
AllCalls ==
    [x \in Calls |-> Of(x, IF x = "deploy" THEN {"v"} ELSE {})]

=============================================================================
