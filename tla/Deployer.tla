------------------------------ MODULE Deployer ------------------------------
(***************************************************************************)
(* The deployments: every apply or delete event of the kernel is handled   *)
(* by a goroutine of its own (a job), which drives the Docker daemon and,  *)
(* for an apply, reports progress and the result to the kernel.  The jobs  *)
(* share nothing but the containers.  The engine may crash, which loses    *)
(* its jobs and leaves the containers; when it starts again it reconciles  *)
(* the containers before it subscribes to events.                          *)
(***************************************************************************)
EXTENDS Docker, FiniteSets

CONSTANTS
    Services,       \* service names
    Event,          \* Event[j]: what job j is asked for
    ContainerName,  \* ContainerName[s, v]: "<slug>-<service>"
    Prefixed,       \* Prefixed[s]: the container names that begin with "<slug>-"
    DockerCanFail,  \* a call to the daemon may fail for a reason not modelled
    EmitCanFail,    \* so may an emit to the kernel
    MaxCrashes      \* bound: crashes of the engine

ASSUME DeployerAssumption ==
    /\ Services # {}
    /\ Event \in [Jobs -> [op : {"apply", "delete"}, slug : Slugs,
                           services : SUBSET Services]]
    /\ ContainerName \in [Slugs \X Services -> CNames]
    /\ Prefixed \in [Slugs -> SUBSET CNames]
    /\ \A s \in Slugs, v \in Services : ContainerName[s, v] \in Prefixed[s]
    /\ \A s \in Slugs, v, w \in Services : ContainerName[s, v] = ContainerName[s, w] => v = w
    /\ DockerCanFail \in BOOLEAN
    /\ EmitCanFail \in BOOLEAN
    /\ MaxCrashes \in Nat

VARIABLES
    job,        \* job[j]: the goroutine of event j
    seen,       \* seen[j]: the stages and results of j that reached the kernel
    engine      \* the process: its phase, what is left to reconcile, its crashes

vars == <<ctr, job, seen, engine>>

Stages  == {"preparing", "starting", "deployed"}    \* "preparing": building or pulling
Results == {"success", "failure"}

Phases == {"down", "reconcile", "up"}
ApplyPcs  == {"emit", "next", "pull", "remove_old", "create", "start", "inspect"}
DeletePcs == {"list", "del_next", "del_stop", "del_remove"}

JobRecords ==
    [pc : {"none", "parse", "done", "lost"} \cup ApplyPcs \cup DeletePcs,
     todo : SUBSET Services,        \* graph.Services not visited yet
     svc : Services,
     cid : Ids,                     \* the container at hand
     listed : SUBSET Ids,           \* the containers of the listing that match
     list : SUBSET Ids,             \* those of them not visited yet
     errs : BOOLEAN,                \* an error was collected
     stage : Stages \cup Results,   \* what is being emitted
     tries : 0 .. 4]                \* failed attempts to emit it

EngineRecords == [phase : Phases, todo : SUBSET Ids, crashes : 0 .. MaxCrashes]

TypeOK ==
    /\ ctr \in [Ids -> CtrRecords]
    /\ job \in [Jobs -> JobRecords]
    /\ seen \in [Jobs -> SUBSET (Stages \cup Results)]
    /\ engine \in EngineRecords

Slug(j) == Event[j].slug
IsApply(j) == Event[j].op = "apply"
Target(j) == ContainerName[Slug(j), job[j].svc]

IdleJob == [pc |-> "none", todo |-> {}, svc |-> CHOOSE v \in Services : TRUE,
            cid |-> CHOOSE i \in Ids : TRUE, listed |-> {}, list |-> {}, errs |-> FALSE,
            stage |-> "preparing", tries |-> 0]

Init ==
    /\ DockerInit
    /\ job = [j \in Jobs |-> IdleJob]
    /\ seen = [j \in Jobs |-> {}]
    /\ engine = [phase |-> "down", todo |-> {}, crashes |-> 0]

-----------------------------------------------------------------------------
Goto(j, pc) == job' = [job EXCEPT ![j].pc = pc]

Emitting(j, stage) ==
    job' = [job EXCEPT ![j] = [@ EXCEPT !.pc = "emit", !.stage = stage, !.tries = 0]]

\* Mutant: an early return that answers nothing.
FailsSilently(j) == Goto(j, "done")

Fails(j) == Emitting(j, "failure")

\* The subscriber receives an event and starts a goroutine for it.
Receive(j) ==
    /\ engine.phase = "up"
    /\ job[j].pc = "none"
    /\ Goto(j, "parse")
    /\ UNCHANGED <<ctr, seen, engine>>

-----------------------------------------------------------------------------
\* processDeployment.

\* An unreadable payload ends the job without an answer.  A spec that does not
\* compile or an unreachable daemon is answered with a failure.
ProcessDeployment(j) ==
    /\ job[j].pc = "parse"
    /\ IsApply(j)
    /\ \/ Goto(j, "done")
       \/ Fails(j)
       \/ Emitting(j, "preparing")
    /\ UNCHANGED <<ctr, seen, engine>>

\* Where the job goes once a stage or a result is emitted or lost.
AfterEmit(j) ==
    CASE job[j].stage = "preparing" ->
           [job EXCEPT ![j] = [@ EXCEPT !.pc = "next", !.todo = Event[j].services]]
      [] job[j].stage = "starting" ->
           [job EXCEPT ![j] = [@ EXCEPT !.stage = "deployed", !.tries = 0]]
      [] job[j].stage = "deployed" ->
           [job EXCEPT ![j] = [@ EXCEPT !.stage = "success", !.tries = 0]]
      [] OTHER -> [job EXCEPT ![j].pc = "done"]

\* Mutant: one attempt too many.
SixAttempts(stage) == IF stage \in Results THEN 6 ELSE 3

Attempts(stage) == IF stage \in Results THEN 5 ELSE 3

\* emitDeploymentProgress and emitDeploymentResult: the call succeeds.
Emit(j) ==
    /\ job[j].pc = "emit"
    /\ seen' = [seen EXCEPT ![j] = @ \cup {job[j].stage}]
    /\ job' = AfterEmit(j)
    /\ UNCHANGED <<ctr, engine>>

\* The call fails, before or after the kernel has seen the event; the last failure
\* loses it.
EmitFails(j) ==
    /\ job[j].pc = "emit"
    /\ EmitCanFail
    /\ \/ UNCHANGED seen
       \/ seen' = [seen EXCEPT ![j] = @ \cup {job[j].stage}]
    /\ job' = IF job[j].tries + 1 < Attempts(job[j].stage)
              THEN [job EXCEPT ![j].tries = @ + 1]
              ELSE AfterEmit(j)
    /\ UNCHANGED <<ctr, engine>>

-----------------------------------------------------------------------------
\* Execute: the services in the order of a map iteration.

\* The graph is validated before the first: one without services, or with a service
\* that names an unknown network, for instance, is refused.
NextService(j) ==
    /\ job[j].pc = "next"
    /\ \/ /\ job[j].todo = Event[j].services
          /\ Fails(j)
       \/ /\ Event[j].services # {}
          /\ job[j].todo = {}
          /\ Emitting(j, "starting")
       \/ \E v \in job[j].todo :
             job' = [job EXCEPT ![j] = [@ EXCEPT !.pc = "pull", !.svc = v,
                                !.todo = job[j].todo \ {v}]]
    /\ UNCHANGED <<ctr, seen, engine>>

\* Mutant: a failed pull is logged and the service skipped.
PullOrSkip(j) ==
    /\ job[j].pc = "pull"
    /\ \/ Goto(j, "remove_old")
       \/ DockerCanFail /\ Goto(j, "next")
    /\ UNCHANGED <<ctr, seen, engine>>

\* buildImage or ImagePull; the errors in their streams are not looked at.
Pull(j) ==
    /\ job[j].pc = "pull"
    /\ \/ Goto(j, "remove_old")
       \/ DockerCanFail /\ Fails(j)
    /\ UNCHANGED <<ctr, seen, engine>>

\* Mutant: a redeploy clears a container of the slug, under whatever name.
RemoveOldOfSlug(j) ==
    /\ job[j].pc = "remove_old"
    /\ \/ \E i \in Containers : ctr[i].slug = Slug(j) /\ ctr' = CtrRemoved(i)
       \/ /\ Named(Target(j)) = {} \/ DockerCanFail
          /\ UNCHANGED ctr
    /\ Goto(j, "create")
    /\ UNCHANGED <<seen, engine>>

\* ContainerRemove with Force, by name; an error is ignored.
RemoveOld(j) ==
    /\ job[j].pc = "remove_old"
    /\ \/ \E i \in Named(Target(j)) : ctr' = CtrRemoved(i)
       \/ /\ Named(Target(j)) = {} \/ DockerCanFail
          /\ UNCHANGED ctr
    /\ Goto(j, "create")
    /\ UNCHANGED <<seen, engine>>

CreateContainer(j) ==
    /\ job[j].pc = "create"
    /\ Named(Target(j)) = {}
    /\ \E i \in FreshIds :
          /\ ctr' = Created(i, Target(j), Slug(j), j)
          /\ job' = [job EXCEPT ![j] = [@ EXCEPT !.pc = "start", !.cid = i]]
    /\ UNCHANGED <<seen, engine>>

\* The name is taken, or another error (as beyond the bound Ids).
CreateFails(j) ==
    /\ job[j].pc = "create"
    /\ Named(Target(j)) # {} \/ DockerCanFail \/ FreshIds = {}
    /\ Fails(j)
    /\ UNCHANGED <<ctr, seen, engine>>

StartContainer(j) ==
    /\ job[j].pc = "start"
    /\ Exists(job[j].cid)
    /\ ctr' = CtrStarted(job[j].cid)
    /\ Goto(j, "inspect")
    /\ UNCHANGED <<seen, engine>>

StartFails(j) ==
    /\ job[j].pc = "start"
    /\ ~Exists(job[j].cid) \/ DockerCanFail
    /\ Fails(j)
    /\ UNCHANGED <<ctr, seen, engine>>

\* The stability check: only an answer that the container does not run is a failure.
Inspect(j) ==
    /\ job[j].pc = "inspect"
    /\ \/ Exists(job[j].cid) /\ ~IsRunning(job[j].cid) /\ Fails(j)
       \/ Exists(job[j].cid) /\ IsRunning(job[j].cid) /\ Goto(j, "next")
       \/ (~Exists(job[j].cid) \/ DockerCanFail) /\ Goto(j, "next")
    /\ UNCHANGED <<ctr, seen, engine>>

-----------------------------------------------------------------------------
\* processDeploymentDelete and Stop.

Finish(j, errs) == job' = [job EXCEPT ![j] = [@ EXCEPT !.pc = "done", !.errs = errs]]

\* A payload without a slug, or no runner.
ProcessDelete(j) ==
    /\ job[j].pc = "parse"
    /\ ~IsApply(j)
    /\ \/ Finish(j, TRUE)
       \/ Goto(j, "list")
    /\ UNCHANGED <<ctr, seen, engine>>

\* Mutant: the listing lacks `All: true`, and has the running containers only.
RunningOnly(s) ==
    {i \in Containers : IsRunning(i) /\ (ctr[i].slug = s \/ ctr[i].name \in Prefixed[s])}

\* The containers of the listing that Stop takes for those of slug s: by label, or,
\* whatever the label says, by the prefix of the name.
Matching(s) == {i \in Containers : ctr[i].slug = s \/ ctr[i].name \in Prefixed[s]}

ListContainers(j) ==
    /\ job[j].pc = "list"
    /\ \/ job' = [job EXCEPT ![j] = [@ EXCEPT !.pc = "del_next",
                             !.list = Matching(Slug(j)), !.listed = Matching(Slug(j))]]
       \/ DockerCanFail /\ Finish(j, TRUE)
    /\ UNCHANGED <<ctr, seen, engine>>

StopNext(j) ==
    /\ job[j].pc = "del_next"
    /\ IF job[j].list = {}
       THEN Finish(j, job[j].errs)
       ELSE \E i \in job[j].list :
               job' = [job EXCEPT ![j] = [@ EXCEPT !.pc = "del_stop", !.cid = i,
                                  !.list = job[j].list \ {i}]]
    /\ UNCHANGED <<ctr, seen, engine>>

\* Mutant: the error of a container is logged and forgotten.
ForgetError(j) == Goto(j, "del_next")

CollectError(j) == job' = [job EXCEPT ![j] = [@ EXCEPT !.pc = "del_next", !.errs = TRUE]]

\* stopAndRemove: ContainerStop, then ContainerRemove without Force.
StopContainer(j) ==
    /\ job[j].pc = "del_stop"
    /\ \/ /\ Exists(job[j].cid)
          /\ ctr' = CtrStopped(job[j].cid)
          /\ Goto(j, "del_remove")
       \/ /\ ~Exists(job[j].cid) \/ DockerCanFail
          /\ CollectError(j)
          /\ UNCHANGED ctr
    /\ UNCHANGED <<seen, engine>>

RemoveContainer(j) ==
    /\ job[j].pc = "del_remove"
    /\ \/ /\ Exists(job[j].cid) /\ ~IsRunning(job[j].cid)
          /\ ctr' = CtrRemoved(job[j].cid)
          /\ Goto(j, "del_next")
       \/ /\ ~Exists(job[j].cid) \/ IsRunning(job[j].cid) \/ DockerCanFail
          /\ CollectError(j)
          /\ UNCHANGED ctr
    /\ UNCHANGED <<seen, engine>>

-----------------------------------------------------------------------------
\* The engine: ReconcileContainers at the start, then the events; a crash.

\* Mutant: only containers that have exited are restarted.
ExitedOnly(i) == Exists(i) /\ Labelled(i) /\ ctr[i].life = "exited"

\* The listing tells "restarting" from "running", unlike the inspection; the start of such
\* a container does nothing.
Restartable(i) == Exists(i) /\ Labelled(i) /\ ctr[i].life # "running"

\* The listing; when it fails the engine goes on without.
Boot ==
    /\ engine.phase = "down"
    /\ \/ engine' = [engine EXCEPT !.phase = "reconcile",
                                   !.todo = {i \in Ids : Restartable(i)}]
       \/ DockerCanFail /\ engine' = [engine EXCEPT !.phase = "up"]
    /\ UNCHANGED <<ctr, job, seen>>

Reconcile ==
    /\ engine.phase = "reconcile"
    /\ \/ /\ engine.todo = {}
          /\ engine' = [engine EXCEPT !.phase = "up"]
          /\ UNCHANGED ctr
       \/ \E i \in engine.todo :
             /\ engine' = [engine EXCEPT !.todo = @ \ {i}]
             /\ \/ Exists(i) /\ ctr' = CtrStarted(i)
                \/ (~Exists(i) \/ DockerCanFail) /\ UNCHANGED ctr
    /\ UNCHANGED <<job, seen>>

Active(j) == job[j].pc \notin {"none", "done", "lost"}

Crash ==
    /\ engine.phase # "down"
    /\ engine.crashes < MaxCrashes
    /\ engine' = [phase |-> "down", todo |-> {}, crashes |-> engine.crashes + 1]
    /\ job' = [j \in Jobs |-> IF Active(j) THEN [job[j] EXCEPT !.pc = "lost"] ELSE job[j]]
    /\ UNCHANGED <<ctr, seen>>

\* The daemon, on its own.
DaemonStep(i) ==
    /\ CtrExit(i) \/ CtrRestart(i)
    /\ UNCHANGED <<job, seen, engine>>

-----------------------------------------------------------------------------
ApplyStep(j) ==
    \/ ProcessDeployment(j) \/ Emit(j) \/ EmitFails(j) \/ NextService(j) \/ Pull(j)
    \/ RemoveOld(j) \/ CreateContainer(j) \/ CreateFails(j) \/ StartContainer(j)
    \/ StartFails(j) \/ Inspect(j)

DeleteStep(j) ==
    ProcessDelete(j) \/ ListContainers(j) \/ StopNext(j) \/ StopContainer(j) \/ RemoveContainer(j)

Next ==
    \/ Boot \/ Reconcile \/ Crash
    \/ \E j \in Jobs : Receive(j) \/ ApplyStep(j) \/ DeleteStep(j)
    \/ \E i \in Ids : DaemonStep(i)

Spec == Init /\ [][Next]_vars

(***************************************************************************)
(* Fairness: a job that can go on does, which supposes that the daemon and *)
(* the kernel answer every call, with an error if need be; the engine is   *)
(* started again after a crash, and starts up.  Nothing is assumed of the  *)
(* events, of the containers or of what the calls answer.                  *)
(***************************************************************************)
Fairness ==
    /\ \A j \in Jobs : WF_vars(ApplyStep(j)) /\ WF_vars(DeleteStep(j))
    /\ WF_vars(Boot)
    /\ WF_vars(Reconcile)

FairSpec == Spec /\ Fairness

-----------------------------------------------------------------------------
(***************************************************************************)
(* What holds.                                                             *)
(***************************************************************************)

\* A container of job j for service v was created and started.
Has(j, v) == \E i \in Ids :
                /\ ctr[i].by = j
                /\ ctr[i].name = ContainerName[Slug(j), v]
                /\ ctr[i].life \notin {"none", "created"}

AllUp(j) == Event[j].services # {} /\ \A v \in Event[j].services : Has(j, v)

\* A deployment that the kernel has been told is starting, deployed or successful has
\* had a container of its own created and started for every service (105-314), although
\* other jobs remove and stop containers under the same names meanwhile.
StagesTruthful ==
    \A j \in Jobs : seen[j] \cap {"starting", "deployed", "success"} # {} => AllUp(j)

\* Stop reports success only when every container it listed for the slug is gone
\* (582-617), whoever stops, starts or removes containers between its calls.
DeleteRemovesListed ==
    \A j \in Jobs : ~IsApply(j) /\ job[j].pc = "done" /\ ~job[j].errs =>
        job[j].listed \cap Containers = {}

\* What job j takes for its own, whosoever it is: an apply the names it creates (209), a
\* delete the label or the prefix of the name (585-609).
Claims(j, c) ==
    IF IsApply(j)
    THEN \E v \in Event[j].services : c.name = ContainerName[Slug(j), v]
    ELSE c.slug = Slug(j) \/ c.name \in Prefixed[Slug(j)]

\* A container is removed only by a job that claims it when it goes, although a redeploy
\* removes by name and a delete, long after its listing, by id.  So an application loses
\* containers only to jobs of its own slug, or of one that its names begin with.
RemovesClaimed ==
    [][\A i \in Ids : Exists(i) /\ ctr'[i].life = "removed" =>
          \E j \in Jobs : job'[j] # job[j] /\ Claims(j, ctr[i])]_vars

CreatedBy(j) == {i \in Ids : ctr[i].by = j}

\* An apply that is over, and has reported or created anything, has been answered, with
\* one result and never with both, unless 5 attempts failed: whatever call fails and
\* wherever Execute returns (411-477).
EndsAnswered ==
    \A j \in Jobs :
        /\ ~(Results \subseteq seen[j])
        /\ IsApply(j) /\ job[j].pc = "done" /\ (seen[j] # {} \/ CreatedBy(j) # {}) =>
              seen[j] \cap Results # {} \/ job[j].tries = 4

\* The engine has no container that was created and that nobody is about to start, unless
\* the daemon refuses a call: what a crash leaves between the create (213) and the start
\* (262) is started when the engine reconciles (637-690), before it handles events.
NoneStranded ==
    ~DockerCanFail /\ engine.phase = "up" =>
        \A i \in Ids : ctr[i].life = "created" =>
            \E j \in Jobs : job[j].pc = "start" /\ job[j].cid = i

Told == {"starting", "deployed", "success"}

\* The services that Execute has behind it, or that the kernel is told of.
Behind(j) ==
    {v \in Event[j].services :
        \/ job[j].pc \in {"next", "inspect"} /\ v \notin job[j].todo
        \/ job[j].pc \in {"pull", "remove_old", "create", "start"}
             /\ v \notin job[j].todo \cup {job[j].svc}
        \/ job[j].pc = "emit" /\ job[j].stage \in Told}

\* A container of job j for service v was started and is there.
Stands(j, v) == \E i \in CreatedBy(j) :
                   /\ ctr[i].name = ContainerName[Slug(j), v]
                   /\ ctr[i].life \notin {"none", "created", "removed"}

\* The program counters of a delete that has containers before it.
StopPcs == {"del_next", "del_stop", "del_remove"}

\* What job j takes for granted and is not so: a service is down that it has behind it, a
\* container is there that Stop should have listed, the name it has freed is taken.
Undone(j)   == {v \in Behind(j) : ~Stands(j, v)}
Unlisted(j) == IF job[j].pc \in StopPcs
               THEN {i \in Containers : Claims(j, ctr[i])} \ job[j].listed
               ELSE {}
Taken(j)    == IF job[j].pc = "create" THEN Named(Target(j)) ELSE {}

\* Another job makes or removes a container that both claim.
Disturbed(j) ==
    \E i \in Ids :
        /\ Exists(i) # Exists(i)'
        /\ Claims(j, ctr'[i])
        /\ \E k \in Jobs \ {j} : job'[k] # job[k] /\ Claims(k, ctr'[i])

\* "stops and removes all containers that belong to the deployment" (main.go 481),
\* "idempotent redeploy" (runner.go 206), "verified the container is still running"
\* (main.go 464-465): an apply or a delete comes to miss what these promise only through
\* another job that claims the same container (or the name, because the daemon refuses the
\* removal), never by a step of its own, a crash, a reconciliation, or a job that claims
\* others.
OnlyOthersUndo ==
    [][\A j \in Jobs :
          \/ UNCHANGED <<ctr, job[j]>>
          \/ /\ Undone(j)' \subseteq Undone(j)
             /\ Unlisted(j)' \subseteq Unlisted(j)
             /\ \/ Taken(j)' \subseteq Taken(j)
                \/ DockerCanFail /\ job[j].pc = "remove_old"
          \/ Disturbed(j)]_vars

\* An apply that got as far as an answer gives it, unless the engine crashes or 5
\* attempts fail: no early return of processDeployment is silent (411-477).
Answered ==
    \A j \in Jobs : job[j].pc = "emit" ~>
        \/ job[j].pc = "lost"
        \/ job[j].pc = "done" /\ (seen[j] \cap Results # {} \/ job[j].tries = 4)

\* A container of the engine that is found stopped when it starts runs again or is gone
\* (637-690), however often the engine crashes on the way.  It takes that the daemon refuses
\* no call (DockerCanFail = FALSE): a start that fails is logged, and not tried again before
\* the next start of the engine (671-677).
StoppedRestarted ==
    \A i \in Ids :
        engine.phase = "down" /\ Exists(i) /\ Labelled(i) /\ ~IsRunning(i)
          ~> IsRunning(i) \/ ~Exists(i)

=============================================================================
