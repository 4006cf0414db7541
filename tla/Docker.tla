------------------------------- MODULE Docker -------------------------------
(***************************************************************************)
(* The containers of the Docker daemon, as far as the deployment engine    *)
(* depends on them (not part of this repository): what the calls of the    *)
(* runner do, and how a container moves by itself.  Every container of the *)
(* engine has the restart policy unless-stopped (runner.go 228-230): when  *)
(* its process exits the daemon starts it again, and until it has, the     *)
(* inspected State.Running is true (State.Restarting is true as well).     *)
(***************************************************************************)
EXTENDS Naturals

CONSTANTS
    Ids,        \* container identities
    CNames,     \* container names
    Slugs,      \* the values of the label underleaf.slug
    NoSlug,     \* no label: not created by this version of the engine
    Jobs,       \* the event handlers, of which a container remembers its creator
    NoJob,
    Old         \* Old[i]: the name and slug of the container i that was there before

ASSUME DockerAssumption ==
    /\ NoSlug \notin Slugs
    /\ NoJob \notin Jobs
    /\ Ids # {} /\ CNames # {}
    /\ DOMAIN Old \subseteq Ids
    /\ \A i \in DOMAIN Old : Old[i] \in [name : CNames, slug : Slugs \cup {NoSlug}]
    /\ \A i, k \in DOMAIN Old : Old[i].name = Old[k].name => i = k

VARIABLE ctr    \* ctr[i]: the container i

Lives == {"none", "created", "running", "restarting", "exited", "removed"}

CtrRecords ==
    [life : Lives, name : CNames,
     slug : Slugs \cup {NoSlug},    \* its labels (all set at once by the engine)
     by : Jobs \cup {NoJob}]        \* the handler that created it (history)

AnyCName == CHOOSE n \in CNames : TRUE

DockerInit ==
    ctr = [i \in Ids |->
             IF i \in DOMAIN Old
             THEN [life |-> "running", name |-> Old[i].name, slug |-> Old[i].slug, by |-> NoJob]
             ELSE [life |-> "none", name |-> AnyCName, slug |-> NoSlug, by |-> NoJob]]

Exists(i)    == ctr[i].life \notin {"none", "removed"}
IsRunning(i) == ctr[i].life \in {"running", "restarting"}      \* State.Running
Labelled(i)  == ctr[i].slug # NoSlug
Containers   == {i \in Ids : Exists(i)}
FreshIds     == {i \in Ids : ctr[i].life = "none"}
Named(n)     == {i \in Containers : ctr[i].name = n}

-----------------------------------------------------------------------------
\* The successor values of the runner's calls.

\* ContainerCreate, refused while the name is taken.
Created(i, name, slug, j) ==
    [ctr EXCEPT ![i] = [life |-> "created", name |-> name, slug |-> slug, by |-> j]]

\* ContainerStart of an existing container: nothing if it runs.
CtrStarted(i) ==
    IF IsRunning(i) THEN ctr ELSE [ctr EXCEPT ![i].life = "running"]

\* ContainerStop of an existing container: nothing if it does not run.
CtrStopped(i) == IF IsRunning(i) THEN [ctr EXCEPT ![i].life = "exited"] ELSE ctr

\* ContainerRemove; without Force it is refused while the container runs.
CtrRemoved(i) == [ctr EXCEPT ![i].life = "removed"]

-----------------------------------------------------------------------------
\* The process of a container exits.
CtrExit(i) ==
    /\ ctr[i].life = "running"
    /\ ctr' = [ctr EXCEPT ![i].life = "restarting"]

\* The daemon starts it again, or cannot.
CtrRestart(i) ==
    /\ ctr[i].life = "restarting"
    /\ \E life \in {"running", "exited"} : ctr' = [ctr EXCEPT ![i].life = life]

=============================================================================
