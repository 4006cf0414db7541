-------------------------- MODULE DeployerProofs --------------------------
(***************************************************************************)
(* Proofs about Deployer, for any number of jobs, services, containers and *)
(* crashes, whatever calls fail.                                           *)
(***************************************************************************)
EXTENDS Deployer, TLAPS

-----------------------------------------------------------------------------
(***************************************************************************)
(* The inductive invariant behind the safety properties, by parts.         *)
(***************************************************************************)

\* Execute knows of a started container for every service it is done with, however the
\* others remove or replace it, before it lets the kernel be told.
ApplyInv(j) ==
    /\ job[j].pc \in ApplyPcs => IsApply(j)
    /\ job[j].pc = "emit" /\ job[j].stage \in Told => AllUp(j)
    /\ job[j].pc \in {"next", "inspect"} =>
          \A v \in Event[j].services \ job[j].todo : Has(j, v)
    /\ job[j].pc \in {"pull", "remove_old", "create", "start"} =>
          \A v \in Event[j].services \ (job[j].todo \cup {job[j].svc}) : Has(j, v)
    /\ job[j].pc = "start" =>
          ctr[job[j].cid].life # "none" /\ ctr[job[j].cid].by = j
            /\ ctr[job[j].cid].name = Target(j)
    /\ seen[j] \cap Told # {} => AllUp(j)

Gone(i) == ctr[i].life = "removed"

\* Unless it has collected an error, Stop has removed what it no longer has before it.
DeleteInv(j) ==
    /\ job[j].pc \in DeletePcs => ~IsApply(j)
    /\ \A i \in job[j].listed : ctr[i].life # "none"
    /\ job[j].pc = "del_next" /\ ~job[j].errs =>
          \A i \in job[j].listed \ job[j].list : Gone(i)
    /\ job[j].pc \in {"del_stop", "del_remove"} /\ ~job[j].errs =>
          \A i \in job[j].listed \ (job[j].list \cup {job[j].cid}) : Gone(i)
    /\ ~IsApply(j) /\ job[j].pc = "done" /\ ~job[j].errs =>
          \A i \in job[j].listed : Gone(i)

IInv == TypeOK /\ \A j \in Jobs : ApplyInv(j) /\ DeleteInv(j)

\* Nothing is reported or created before the first stage; what is reported last is the
\* result, and it is being emitted, or is emitted or lost.
AnswerInv(j) ==
    /\ job[j].pc \in {"none", "parse"} =>
          seen[j] = {} /\ CreatedBy(j) = {} /\ job[j].stage = "preparing"
    /\ seen[j] \cap Results # {} =>
          job[j].pc \in {"emit", "done", "lost"} /\ seen[j] \cap Results = {job[j].stage}
    /\ IsApply(j) /\ job[j].pc = "done" =>
          \/ seen[j] = {} /\ CreatedBy(j) = {}
          \/ seen[j] \cap Results # {} \/ job[j].tries = 4

\* Events are handled only by an engine that is up, and what is still to be started is
\* known, if no call is refused: to a job, or to the engine that reconciles.
StrandInv ==
    /\ engine.phase # "up" => \A j \in Jobs : ~Active(j)
    /\ \A i \in Ids : ctr[i].life = "created" =>
          /\ Labelled(i)
          /\ engine.phase = "reconcile" /\ ~DockerCanFail => i \in engine.todo
    /\ NoneStranded

\* Execute works off the services of its event.
ServicesInv ==
    \A j \in Jobs :
        /\ job[j].pc \in ApplyPcs \ {"emit"} => job[j].todo \subseteq Event[j].services
        /\ job[j].pc \in ApplyPcs \ {"emit", "next"} => job[j].svc \in Event[j].services

\* A container has its name for itself.
NamesInv == \A i, k \in Containers : ctr[i].name = ctr[k].name => i = k

\* Stop has containers at hand that it claims.
AtHand(i, j) ==
    \/ job[j].pc \in StopPcs /\ i \in job[j].list
    \/ job[j].pc \in StopPcs \ {"del_next"} /\ i = job[j].cid

AtHandInv ==
    \A j \in Jobs, i \in Ids : AtHand(i, j) => ctr[i].life # "none" /\ Claims(j, ctr[i])

\* The invariant behind the properties of steps.
StepInv == IInv /\ ServicesInv /\ NamesInv /\ AtHandInv

-----------------------------------------------------------------------------
\* What every step does to the containers: one that exists or has existed keeps its
\* name, label and creator, is not new again, and does not come back.
Evolves ==
    /\ ctr' \in [Ids -> CtrRecords]
    /\ \A i \in Ids : ctr[i].life # "none" =>
          /\ ctr'[i].name = ctr[i].name
          /\ ctr'[i].slug = ctr[i].slug
          /\ ctr'[i].by = ctr[i].by
          /\ ctr'[i].life # "none"
          /\ ctr[i].life # "created" => ctr'[i].life # "created"
          /\ Gone(i) => Gone(i)'

\* A step that only changes the life of one container that exists.
LEMMA LifeEvolves ==
    ASSUME ctr \in [Ids -> CtrRecords], NEW i \in Ids, Exists(i),
           NEW life \in {"running", "restarting", "exited", "removed"},
           ctr' = [ctr EXCEPT ![i].life = life]
    PROVE  Evolves
    BY DEF Evolves, CtrRecords, Lives, Exists, Gone

\* The runner's calls and the daemon's own steps.
LEMMA CallsEvolve ==
    ASSUME ctr \in [Ids -> CtrRecords]
    PROVE  /\ UNCHANGED ctr => Evolves
           /\ \A i \in Ids : Exists(i) /\ ctr' = CtrStarted(i) => Evolves
           /\ \A i \in Ids : Exists(i) /\ ctr' = CtrStopped(i) => Evolves
           /\ \A i \in Ids : Exists(i) /\ ctr' = CtrRemoved(i) => Evolves
           /\ \A i \in Ids : CtrExit(i) \/ CtrRestart(i) => Evolves
           /\ \A i \in FreshIds, n \in CNames, s \in Slugs, j \in Jobs :
                 ctr' = Created(i, n, s, j) => Evolves
<1>1. UNCHANGED ctr => Evolves
  BY DEF Evolves, Gone
<1>2. ASSUME NEW i \in Ids, Exists(i), ctr' = CtrStarted(i)
      PROVE  Evolves
  BY <1>1, <1>2, LifeEvolves DEF CtrStarted
<1>3. ASSUME NEW i \in Ids, Exists(i), ctr' = CtrStopped(i)
      PROVE  Evolves
  BY <1>1, <1>3, LifeEvolves DEF CtrStopped
<1>4. ASSUME NEW i \in Ids, Exists(i), ctr' = CtrRemoved(i)
      PROVE  Evolves
  BY <1>4, LifeEvolves DEF CtrRemoved
<1>5. ASSUME NEW i \in Ids, CtrExit(i) \/ CtrRestart(i)
      PROVE  Evolves
  <2>1. Exists(i)
    BY <1>5 DEF CtrExit, CtrRestart, Exists
  <2>2. QED
    BY <1>5, <2>1, LifeEvolves DEF CtrExit, CtrRestart
<1>6. ASSUME NEW i \in FreshIds, NEW n \in CNames, NEW s \in Slugs, NEW j \in Jobs,
             ctr' = Created(i, n, s, j)
      PROVE  Evolves
  BY <1>6 DEF Created, FreshIds, Evolves, CtrRecords, Lives, Gone
<1>7. QED
  BY <1>1, <1>2, <1>3, <1>4, <1>5, <1>6

\* A started container stays one, and so does what the invariant says of a job that
\* does not move.
LEMMA HasStays ==
    ASSUME Evolves
    PROVE  /\ \A j \in Jobs : \A v : Has(j, v) => Has(j, v)'
           /\ \A j \in Jobs : AllUp(j) => AllUp(j)'
<1>1. ASSUME NEW j \in Jobs, NEW v, Has(j, v)
      PROVE  Has(j, v)'
  BY <1>1 DEF Has, Evolves, Slug
<1>2. QED
  BY <1>1 DEF AllUp

\* A step keeps what the invariant says of a job that does not move.
LEMMA IdleJobStays ==
    ASSUME TypeOK, Evolves, NEW j \in Jobs, ApplyInv(j), DeleteInv(j),
           job'[j] = job[j], seen'[j] = seen[j]
    PROVE  ApplyInv(j)' /\ DeleteInv(j)'
<1>1. /\ job[j].listed \subseteq Ids /\ job[j].cid \in Ids
  BY DEF TypeOK, JobRecords
<1>2. ApplyInv(j)'
  <2>1. /\ \A v : Has(j, v) => Has(j, v)'
        /\ AllUp(j) => AllUp(j)'
    BY HasStays
  <2>2. job[j].pc = "start" => ctr'[job[j].cid].life # "none" /\ ctr'[job[j].cid].by = j
                                 /\ ctr'[job[j].cid].name = Target(j)
    BY <1>1 DEF Evolves, ApplyInv
  <2>3. QED
    BY <2>1, <2>2 DEF ApplyInv, IsApply, Target, Slug
<1>3. DeleteInv(j)'
  <2>1. \A i \in job[j].listed : /\ ctr[i].life # "none" => ctr'[i].life # "none"
                                 /\ Gone(i) => Gone(i)'
    BY <1>1 DEF Evolves, Gone
  <2>2. QED
    BY <2>1 DEF DeleteInv, IsApply
<1>4. QED
  BY <1>2, <1>3

-----------------------------------------------------------------------------
\* The records of the jobs.
LEMMA JobFields ==
    ASSUME NEW r \in JobRecords
    PROVE  /\ \A pc \in {"parse", "done", "lost"} \cup ApplyPcs \cup DeletePcs :
                 [r EXCEPT !.pc = pc] \in JobRecords
           /\ \A stage \in Stages \cup Results :
                 [r EXCEPT !.pc = "emit", !.stage = stage, !.tries = 0] \in JobRecords
           /\ \A errs \in BOOLEAN : [r EXCEPT !.pc = "done", !.errs = errs] \in JobRecords
<1>1. ASSUME NEW pc \in {"parse", "done", "lost"} \cup ApplyPcs \cup DeletePcs
      PROVE  [r EXCEPT !.pc = pc] \in JobRecords
  BY DEF JobRecords
<1>2. ASSUME NEW stage \in Stages \cup Results
      PROVE  [r EXCEPT !.pc = "emit", !.stage = stage, !.tries = 0] \in JobRecords
  <2>1. "emit" \in {"none", "parse", "done", "lost"} \cup ApplyPcs \cup DeletePcs
    BY DEF ApplyPcs
  <2>2. 0 \in 0 .. 4
    OBVIOUS
  <2>3. QED
    BY <2>1, <2>2 DEF JobRecords
<1>3. ASSUME NEW errs \in BOOLEAN
      PROVE  [r EXCEPT !.pc = "done", !.errs = errs] \in JobRecords
  BY DEF JobRecords
<1>4. QED
  BY <1>1, <1>2, <1>3

\* Only job j moves, to the record r.
LEMMA JobMoves ==
    ASSUME job \in [Jobs -> JobRecords], NEW j \in Jobs, NEW r \in JobRecords,
           job' = [job EXCEPT ![j] = r]
    PROVE  /\ job' \in [Jobs -> JobRecords]
           /\ job'[j] = r
           /\ \A k \in Jobs \ {j} : job'[k] = job[k]
    OBVIOUS

\* The same for the moves of the model.
LEMMA Moves ==
    ASSUME job \in [Jobs -> JobRecords], NEW j \in Jobs
    PROVE  /\ \A pc \in {"parse", "done", "lost"} \cup ApplyPcs \cup DeletePcs :
                 Goto(j, pc) => /\ job' \in [Jobs -> JobRecords]
                                /\ job'[j] = [job[j] EXCEPT !.pc = pc]
                                /\ \A k \in Jobs \ {j} : job'[k] = job[k]
           /\ \A stage \in Stages \cup Results :
                 Emitting(j, stage) =>
                    /\ job' \in [Jobs -> JobRecords]
                    /\ job'[j] = [job[j] EXCEPT !.pc = "emit", !.stage = stage, !.tries = 0]
                    /\ \A k \in Jobs \ {j} : job'[k] = job[k]
           /\ Fails(j) =>
                    /\ job' \in [Jobs -> JobRecords]
                    /\ job'[j] = [job[j] EXCEPT !.pc = "emit", !.stage = "failure", !.tries = 0]
                    /\ \A k \in Jobs \ {j} : job'[k] = job[k]
           /\ \A errs \in BOOLEAN :
                 Finish(j, errs) =>
                    /\ job' \in [Jobs -> JobRecords]
                    /\ job'[j] = [job[j] EXCEPT !.pc = "done", !.errs = errs]
                    /\ \A k \in Jobs \ {j} : job'[k] = job[k]
<1>1. ASSUME NEW pc \in {"parse", "done", "lost"} \cup ApplyPcs \cup DeletePcs, Goto(j, pc)
      PROVE  /\ job' \in [Jobs -> JobRecords]
             /\ job'[j] = [job[j] EXCEPT !.pc = pc]
             /\ \A k \in Jobs \ {j} : job'[k] = job[k]
  <2>1. [job[j] EXCEPT !.pc = pc] \in JobRecords
    BY JobFields
  <2>2. QED
    BY <1>1, <2>1 DEF Goto
<1>2. ASSUME NEW stage \in Stages \cup Results, Emitting(j, stage)
      PROVE  /\ job' \in [Jobs -> JobRecords]
             /\ job'[j] = [job[j] EXCEPT !.pc = "emit", !.stage = stage, !.tries = 0]
             /\ \A k \in Jobs \ {j} : job'[k] = job[k]
  <2>1. [job[j] EXCEPT !.pc = "emit", !.stage = stage, !.tries = 0] \in JobRecords
    BY JobFields
  <2>2. QED
    BY <1>2, <2>1 DEF Emitting
<1>3. ASSUME NEW errs \in BOOLEAN, Finish(j, errs)
      PROVE  /\ job' \in [Jobs -> JobRecords]
             /\ job'[j] = [job[j] EXCEPT !.pc = "done", !.errs = errs]
             /\ \A k \in Jobs \ {j} : job'[k] = job[k]
  <2>1. [job[j] EXCEPT !.pc = "done", !.errs = errs] \in JobRecords
    BY JobFields
  <2>2. QED
    BY <1>3, <2>1 DEF Finish
<1>4. "failure" \in Stages \cup Results
  BY DEF Results
<1>5. Fails(j) <=> Emitting(j, "failure")
  BY DEF Fails
<1>6. QED
  BY <1>1, <1>2, <1>3, <1>4, <1>5

\* A step of job j that keeps what the invariant says of j keeps the invariant.
LEMMA JobStep ==
    ASSUME IInv, Evolves, NEW j \in Jobs,
           job' \in [Jobs -> JobRecords],
           \A k \in Jobs \ {j} : job'[k] = job[k],
           seen' \in [Jobs -> SUBSET (Stages \cup Results)],
           \A k \in Jobs \ {j} : seen'[k] = seen[k],
           UNCHANGED engine,
           ApplyInv(j)', DeleteInv(j)'
    PROVE  IInv'
<1>1. TypeOK'
  BY DEF IInv, TypeOK, Evolves
<1>2. ASSUME NEW k \in Jobs \ {j}
      PROVE  ApplyInv(k)' /\ DeleteInv(k)'
  BY IdleJobStays DEF IInv
<1>3. QED
  BY <1>1, <1>2 DEF IInv

\* An apply changes nothing of what is said of deletes, and the other way round.
LEMMA ApplyKeepsDelete ==
    ASSUME TypeOK, Evolves, NEW j \in Jobs, IsApply(j), DeleteInv(j),
           job'[j].pc \notin DeletePcs, job'[j].listed = job[j].listed
    PROVE  DeleteInv(j)'
<1>1. job[j].listed \subseteq Ids
  BY DEF TypeOK, JobRecords
<1>2. \A i \in job'[j].listed : ctr'[i].life # "none"
  BY <1>1 DEF Evolves, DeleteInv
<1>3. QED
  BY <1>2 DEF DeleteInv, IsApply, DeletePcs

\* And a delete says nothing of the stages.
LEMMA DeleteKeepsApply ==
    ASSUME TypeOK, Evolves, NEW j \in Jobs, ~IsApply(j), ApplyInv(j),
           job'[j].pc \notin ApplyPcs, seen'[j] = seen[j]
    PROVE  ApplyInv(j)'
<1>1. AllUp(j) => AllUp(j)'
  BY HasStays
<1>2. QED
  BY <1>1 DEF ApplyInv, ApplyPcs

-----------------------------------------------------------------------------
\* No job has begun.
LEMMA InitIInv == Init => IInv
<1> SUFFICES ASSUME Init
             PROVE  IInv
  OBVIOUS
<1>1. ctr \in [Ids -> CtrRecords]
  <2>1. ASSUME NEW i \in DOMAIN Old
        PROVE  [life |-> "running", name |-> Old[i].name, slug |-> Old[i].slug, by |-> NoJob]
                  \in CtrRecords
    <3>1. Old[i] \in [name : CNames, slug : Slugs \cup {NoSlug}]
      BY DockerAssumption
    <3>2. QED
      BY <3>1 DEF CtrRecords, Lives
  <2>2. [life |-> "none", name |-> AnyCName, slug |-> NoSlug, by |-> NoJob] \in CtrRecords
    <3>1. AnyCName \in CNames
      BY DockerAssumption DEF AnyCName
    <3>2. QED
      BY <3>1 DEF CtrRecords, Lives
  <2>3. QED
    BY <2>1, <2>2 DEF Init, DockerInit
<1>2. IdleJob \in JobRecords
  <2>1. /\ (CHOOSE v \in Services : TRUE) \in Services
        /\ (CHOOSE i \in Ids : TRUE) \in Ids
    BY DeployerAssumption, DockerAssumption
  <2>2. 0 \in 0 .. 4
    OBVIOUS
  <2>3. QED
    BY <2>1, <2>2 DEF IdleJob, JobRecords, Stages
<1>3. engine \in EngineRecords
  <2>1. MaxCrashes \in Nat
    BY DeployerAssumption
  <2>2. 0 \in 0 .. MaxCrashes
    BY <2>1
  <2>3. QED
    BY <2>2 DEF Init, EngineRecords, Phases
<1>4. TypeOK
  BY <1>1, <1>2, <1>3 DEF Init, TypeOK
<1>5. ASSUME NEW j \in Jobs
      PROVE  ApplyInv(j) /\ DeleteInv(j)
  BY DEF Init, IdleJob, ApplyInv, DeleteInv, ApplyPcs, DeletePcs
<1>6. QED
  BY <1>4, <1>5 DEF IInv

-----------------------------------------------------------------------------
\* The steps of a job, one lemma each.
LEMMA ReceiveKeeps ==
    ASSUME IInv, NEW j \in Jobs, Receive(j)
    PROVE  IInv'
<1>1. Evolves
  BY CallsEvolve DEF Receive, IInv, TypeOK
<1>2. /\ job' \in [Jobs -> JobRecords]
      /\ job'[j] = [job[j] EXCEPT !.pc = "parse"]
      /\ \A k \in Jobs \ {j} : job'[k] = job[k]
  BY Moves DEF Receive, IInv, TypeOK
<1>3. job[j] \in JobRecords
  BY DEF IInv, TypeOK
<1>4. /\ job'[j].pc = "parse"
      /\ job'[j].listed = job[j].listed
  BY <1>2, <1>3 DEF JobRecords
<1>5. ApplyInv(j)'
  <2>1. AllUp(j) => AllUp(j)'
    BY <1>1, HasStays
  <2>2. QED
    BY <1>4, <2>1 DEF ApplyInv, ApplyPcs, Receive, IInv
<1>6. DeleteInv(j)'
  <2>1. \A i \in job'[j].listed : ctr'[i].life # "none"
    BY <1>1, <1>3, <1>4 DEF IInv, DeleteInv, Evolves, JobRecords
  <2>2. QED
    BY <1>4, <2>1 DEF DeleteInv, DeletePcs
<1>7. QED
  BY <1>1, <1>2, <1>5, <1>6, JobStep DEF Receive, IInv, TypeOK

\* An apply that ends, or emits what asks nothing of the services.
LEMMA ApplyEnds ==
    ASSUME IInv, Evolves, NEW j \in Jobs, IsApply(j), UNCHANGED <<seen, engine>>,
           Goto(j, "done") \/ Fails(j) \/ Emitting(j, "preparing")
    PROVE  IInv'
<1>1. /\ job' \in [Jobs -> JobRecords]
      /\ \A k \in Jobs \ {j} : job'[k] = job[k]
      /\ \/ job'[j] = [job[j] EXCEPT !.pc = "done"]
         \/ job'[j] = [job[j] EXCEPT !.pc = "emit", !.stage = "failure", !.tries = 0]
         \/ job'[j] = [job[j] EXCEPT !.pc = "emit", !.stage = "preparing", !.tries = 0]
  <2>1. job \in [Jobs -> JobRecords]
    BY DEF IInv, TypeOK
  <2>2. CASE Goto(j, "done")
    BY <2>1, <2>2, Moves
  <2>3. CASE Fails(j)
    BY <2>1, <2>3, Moves
  <2>4. CASE Emitting(j, "preparing")
    BY <2>1, <2>4, Moves DEF Stages
  <2>5. QED
    BY <2>2, <2>3, <2>4
<1>2. job[j] \in JobRecords
  BY DEF IInv, TypeOK
<1>3. /\ job'[j].listed = job[j].listed
      /\ job'[j].pc = "done" \/ (job'[j].pc = "emit" /\ job'[j].stage \in {"failure", "preparing"})
  BY <1>1, <1>2 DEF JobRecords
<1>4. ApplyInv(j)'
  <2>1. AllUp(j) => AllUp(j)'
    BY HasStays
  <2>2. QED
    BY <1>3, <2>1 DEF ApplyInv, ApplyPcs, IsApply, Told, IInv
<1>5. DeleteInv(j)'
  BY <1>3, ApplyKeepsDelete DEF IInv, DeletePcs
<1>6. QED
  BY <1>1, <1>4, <1>5, JobStep DEF IInv, TypeOK

\* The checks before the first stage (main.go:367-449).
LEMMA ProcessDeploymentKeeps ==
    ASSUME IInv, NEW j \in Jobs, ProcessDeployment(j)
    PROVE  IInv'
<1>1. Evolves
  BY CallsEvolve DEF ProcessDeployment, IInv, TypeOK
<1>2. QED
  BY <1>1, ApplyEnds DEF ProcessDeployment

\* One step of the emits: the next attempt, the next stage, or the end.
LEMMA EmitKeeps ==
    ASSUME IInv, NEW j \in Jobs, Emit(j) \/ EmitFails(j)
    PROVE  IInv'
<1>. DEFINE r == job[j]
<1>1. /\ r \in JobRecords
      /\ r.pc = "emit"
      /\ IsApply(j)
      /\ r.stage \in Stages \cup Results
      /\ Event[j].services \subseteq Services
      /\ r.stage \in Told => AllUp(j)
      /\ seen[j] \cap Told # {} => AllUp(j)
      /\ DeleteInv(j)
      /\ job \in [Jobs -> JobRecords]
      /\ seen \in [Jobs -> SUBSET (Stages \cup Results)]
  BY DeployerAssumption DEF Emit, EmitFails, IInv, TypeOK, ApplyInv, ApplyPcs, JobRecords
<1>2. /\ UNCHANGED <<ctr, engine>>
      /\ Evolves
      /\ AllUp(j) => AllUp(j)'
  <2>1. UNCHANGED <<ctr, engine>>
    BY DEF Emit, EmitFails
  <2>2. Evolves
    BY <2>1, CallsEvolve DEF IInv, TypeOK
  <2>3. QED
    BY <2>1, <2>2, HasStays
<1>3. /\ seen' \in [Jobs -> SUBSET (Stages \cup Results)]
      /\ \A k \in Jobs \ {j} : seen'[k] = seen[k]
      /\ seen'[j] = seen[j] \/ seen'[j] = seen[j] \cup {r.stage}
  BY <1>1 DEF Emit, EmitFails
<1>4. seen'[j] \cap Told # {} => AllUp(j)'
  BY <1>1, <1>2, <1>3
<1>. DEFINE Moved(q) == job' = [job EXCEPT ![j] = q]
<1>5. \/ /\ r.stage = "preparing"
         /\ Moved([r EXCEPT !.pc = "next", !.todo = Event[j].services])
      \/ /\ r.stage = "starting"
         /\ Moved([r EXCEPT !.stage = "deployed", !.tries = 0])
      \/ /\ r.stage = "deployed"
         /\ Moved([r EXCEPT !.stage = "success", !.tries = 0])
      \/ Moved([r EXCEPT !.pc = "done"])
      \/ /\ r.tries + 1 < Attempts(r.stage)
         /\ Moved([r EXCEPT !.tries = r.tries + 1])
  <2>1. ASSUME job' = AfterEmit(j)
        PROVE  <1>5!1 \/ <1>5!2 \/ <1>5!3 \/ <1>5!4
    BY <2>1, <1>1 DEF AfterEmit, Stages, Results
  <2>2. QED
    BY <2>1 DEF Emit, EmitFails
<1>6. ASSUME NEW q \in JobRecords, Moved(q), q.listed = r.listed,
             \/ q.pc = "next" /\ q.todo = Event[j].services
             \/ q.pc = "emit" /\ (q.stage \in Told => r.stage \in Told)
             \/ q.pc = "done"
      PROVE  IInv'
  <2>1. /\ job' \in [Jobs -> JobRecords]
        /\ job'[j] = q
        /\ \A k \in Jobs \ {j} : job'[k] = job[k]
    BY <1>1, <1>6, JobMoves
  <2>2. ApplyInv(j)'
    BY <1>1, <1>2, <1>4, <1>6, <2>1 DEF ApplyInv, ApplyPcs, IsApply
  <2>3. DeleteInv(j)'
    BY <1>1, <1>2, <1>6, <2>1, ApplyKeepsDelete DEF IInv, DeletePcs
  <2>4. QED
    BY <1>2, <1>3, <2>1, <2>2, <2>3, JobStep
<1>7. CASE r.stage = "preparing" /\ Moved([r EXCEPT !.pc = "next", !.todo = Event[j].services])
  <2>1. [r EXCEPT !.pc = "next", !.todo = Event[j].services] \in JobRecords
    <3>1. "next" \in {"none", "parse", "done", "lost"} \cup ApplyPcs \cup DeletePcs
      BY DEF ApplyPcs
    <3>2. QED
      BY <1>1, <3>1 DEF JobRecords
  <2>2. QED
    BY <1>1, <1>6, <1>7, <2>1 DEF JobRecords
<1>8. CASE r.stage = "starting" /\ Moved([r EXCEPT !.stage = "deployed", !.tries = 0])
  <2>1. [r EXCEPT !.stage = "deployed", !.tries = 0] \in JobRecords
    <3>1. "deployed" \in Stages \cup Results /\ 0 \in 0 .. 4
      BY DEF Stages
    <3>2. QED
      BY <1>1, <3>1 DEF JobRecords
  <2>2. QED
    BY <1>1, <1>6, <1>8, <2>1 DEF JobRecords, Told
<1>9. CASE r.stage = "deployed" /\ Moved([r EXCEPT !.stage = "success", !.tries = 0])
  <2>1. [r EXCEPT !.stage = "success", !.tries = 0] \in JobRecords
    <3>1. "success" \in Stages \cup Results /\ 0 \in 0 .. 4
      BY DEF Results
    <3>2. QED
      BY <1>1, <3>1 DEF JobRecords
  <2>2. QED
    BY <1>1, <1>6, <1>9, <2>1 DEF JobRecords, Told
<1>10. CASE Moved([r EXCEPT !.pc = "done"])
  <2>1. [r EXCEPT !.pc = "done"] \in JobRecords
    BY <1>1, JobFields
  <2>2. QED
    BY <1>1, <1>6, <1>10, <2>1 DEF JobRecords
<1>11. CASE r.tries + 1 < Attempts(r.stage) /\ Moved([r EXCEPT !.tries = r.tries + 1])
  <2>1. r.tries + 1 \in 0 .. 4
    <3>1. r.tries \in 0 .. 4
      BY <1>1 DEF JobRecords
    <3>2. Attempts(r.stage) \in {3, 5}
      BY DEF Attempts
    <3>3. QED
      BY <1>11, <3>1, <3>2
  <2>2. [r EXCEPT !.tries = r.tries + 1] \in JobRecords
    BY <1>1, <2>1 DEF JobRecords
  <2>3. QED
    BY <1>1, <1>6, <1>11, <2>2 DEF JobRecords
<1>12. QED
  BY <1>5, <1>7, <1>8, <1>9, <1>10, <1>11

\* Execute goes on to another step of the same service, without a call to the daemon that
\* matters to the invariant.
LEMMA ExecuteGoesOn ==
    ASSUME IInv, Evolves, NEW j \in Jobs, UNCHANGED <<seen, engine>>,
           NEW pc, Goto(j, pc),
           \/ job[j].pc \in {"pull", "remove_old"} /\ pc \in {"remove_old", "create"}
           \/ job[j].pc = "inspect" /\ pc = "next"
    PROVE  IInv'
<1>1. /\ job' \in [Jobs -> JobRecords]
      /\ job'[j] = [job[j] EXCEPT !.pc = pc]
      /\ \A k \in Jobs \ {j} : job'[k] = job[k]
  BY Moves DEF IInv, TypeOK, ApplyPcs
<1>2. /\ job[j] \in JobRecords
      /\ ApplyInv(j)
      /\ IsApply(j)
  BY DEF IInv, TypeOK, ApplyInv, ApplyPcs
<1>3. /\ job'[j].pc = pc
      /\ job'[j].listed = job[j].listed
      /\ job'[j].todo = job[j].todo
      /\ job'[j].svc = job[j].svc
  BY <1>1, <1>2 DEF JobRecords
<1>4. /\ \A v : Has(j, v) => Has(j, v)'
      /\ AllUp(j) => AllUp(j)'
  BY HasStays
<1>5. ApplyInv(j)'
  BY <1>2, <1>3, <1>4 DEF ApplyInv, IsApply
<1>6. DeleteInv(j)'
  BY <1>2, <1>3, ApplyKeepsDelete DEF IInv, DeletePcs
<1>7. QED
  BY <1>1, <1>5, <1>6, JobStep DEF IInv, TypeOK

\* The refusal of the graph, the next service, or the end of Execute.
LEMMA NextServiceKeeps ==
    ASSUME IInv, NEW j \in Jobs, NextService(j)
    PROVE  IInv'
<1>1. Evolves
  BY CallsEvolve DEF NextService, IInv, TypeOK
<1>2. /\ job \in [Jobs -> JobRecords]
      /\ job[j] \in JobRecords
      /\ ApplyInv(j)
      /\ IsApply(j)
      /\ job[j].pc = "next"
      /\ UNCHANGED <<seen, engine>>
  BY DEF NextService, IInv, TypeOK, ApplyInv, ApplyPcs
<1>3. /\ \A v : Has(j, v) => Has(j, v)'
      /\ AllUp(j) => AllUp(j)'
  BY <1>1, HasStays
<1>4. CASE Fails(j)
  BY <1>1, <1>2, <1>4, ApplyEnds
<1>5. CASE Event[j].services # {} /\ job[j].todo = {} /\ Emitting(j, "starting")
  <2>1. /\ job' \in [Jobs -> JobRecords]
        /\ job'[j] = [job[j] EXCEPT !.pc = "emit", !.stage = "starting", !.tries = 0]
        /\ \A k \in Jobs \ {j} : job'[k] = job[k]
    BY <1>2, <1>5, Moves DEF Stages
  <2>2. /\ job'[j].pc = "emit"
        /\ job'[j].listed = job[j].listed
    BY <1>2, <2>1 DEF JobRecords
  <2>3. AllUp(j)
    BY <1>2, <1>5 DEF ApplyInv, AllUp
  <2>4. ApplyInv(j)'
    BY <1>2, <1>3, <2>2, <2>3 DEF ApplyInv, IsApply
  <2>5. DeleteInv(j)'
    BY <1>1, <1>2, <2>2, ApplyKeepsDelete DEF IInv, DeletePcs
  <2>6. QED
    BY <1>1, <1>2, <2>1, <2>4, <2>5, JobStep DEF IInv, TypeOK
<1>6. ASSUME NEW v \in job[j].todo,
             job' = [job EXCEPT ![j] = [@ EXCEPT !.pc = "pull", !.svc = v,
                                !.todo = job[j].todo \ {v}]]
      PROVE  IInv'
  <2>. DEFINE q == [job[j] EXCEPT !.pc = "pull", !.svc = v, !.todo = job[j].todo \ {v}]
  <2>1. "pull" \in {"none", "parse", "done", "lost"} \cup ApplyPcs \cup DeletePcs
    BY DEF ApplyPcs
  <2>2. q \in JobRecords
    BY <1>2, <2>1 DEF JobRecords
  <2>3. /\ job' \in [Jobs -> JobRecords]
        /\ job'[j] = q
        /\ \A k \in Jobs \ {j} : job'[k] = job[k]
    BY <1>2, <1>6, <2>2, JobMoves
  <2>4. /\ job'[j].pc = "pull"
        /\ job'[j].svc = v
        /\ job'[j].todo = job[j].todo \ {v}
        /\ job'[j].listed = job[j].listed
    BY <1>2, <2>3 DEF JobRecords
  <2>5. ApplyInv(j)'
    BY <1>2, <1>3, <2>4 DEF ApplyInv, IsApply
  <2>6. DeleteInv(j)'
    BY <1>1, <1>2, <2>4, ApplyKeepsDelete DEF IInv, DeletePcs
  <2>7. QED
    BY <1>1, <1>2, <2>3, <2>5, <2>6, JobStep DEF IInv, TypeOK
<1>7. QED
  BY <1>4, <1>5, <1>6 DEF NextService

\* What the events and the names are.
LEMMA EventFacts ==
    ASSUME TypeOK, NEW j \in Jobs
    PROVE  /\ Slug(j) \in Slugs
           /\ job[j].svc \in Services
           /\ job[j].cid \in Ids
           /\ Target(j) \in CNames
           /\ Target(j) \in Prefixed[Slug(j)]
<1>1. Event[j] \in [op : {"apply", "delete"}, slug : Slugs, services : SUBSET Services]
  BY DeployerAssumption
<1>2. /\ job[j].svc \in Services
      /\ job[j].cid \in Ids
  BY DEF TypeOK, JobRecords
<1>3. Slug(j) \in Slugs
  BY <1>1 DEF Slug
<1>4. QED
  BY <1>2, <1>3, DeployerAssumption DEF Target

\* The image (runner.go:110-152) leaves the containers alone.
LEMMA PullKeeps ==
    ASSUME IInv, NEW j \in Jobs, Pull(j)
    PROVE  IInv'
<1>1. Evolves /\ IsApply(j)
  BY CallsEvolve DEF Pull, IInv, TypeOK, ApplyInv, ApplyPcs
<1>2. QED
  BY <1>1, ApplyEnds, ExecuteGoesOn DEF Pull

\* The removal by name (209) leaves what was started started.
LEMMA RemoveOldKeeps ==
    ASSUME IInv, NEW j \in Jobs, RemoveOld(j)
    PROVE  IInv'
<1>1. ctr \in [Ids -> CtrRecords]
  BY DEF IInv, TypeOK
<1>2. Evolves
  BY <1>1, CallsEvolve DEF RemoveOld, Named, Containers
<1>3. QED
  BY <1>2, ExecuteGoesOn DEF RemoveOld

\* The new container (246) is the one at hand.
LEMMA CreateContainerKeeps ==
    ASSUME IInv, NEW j \in Jobs, CreateContainer(j)
    PROVE  IInv'
<1>1. /\ ctr \in [Ids -> CtrRecords]
      /\ job \in [Jobs -> JobRecords]
      /\ job[j] \in JobRecords
      /\ ApplyInv(j)
      /\ IsApply(j)
      /\ job[j].pc = "create"
      /\ UNCHANGED <<seen, engine>>
  BY DEF CreateContainer, IInv, TypeOK, ApplyInv, ApplyPcs
<1>2. PICK i \in FreshIds :
         /\ ctr' = Created(i, Target(j), Slug(j), j)
         /\ job' = [job EXCEPT ![j] = [@ EXCEPT !.pc = "start", !.cid = i]]
  BY DEF CreateContainer
<1>3. Evolves
  <2>1. Slug(j) \in Slugs /\ Target(j) \in CNames
    BY EventFacts DEF IInv
  <2>2. QED
    BY <1>1, <1>2, <2>1, CallsEvolve
<1>4. i \in Ids
  BY DEF FreshIds
<1>. DEFINE q == [job[j] EXCEPT !.pc = "start", !.cid = i]
<1>5. q \in JobRecords
  <2>1. "start" \in {"none", "parse", "done", "lost"} \cup ApplyPcs \cup DeletePcs
    BY DEF ApplyPcs
  <2>2. QED
    BY <1>1, <1>4, <2>1 DEF JobRecords
<1>6. /\ job' \in [Jobs -> JobRecords]
      /\ job'[j] = q
      /\ \A k \in Jobs \ {j} : job'[k] = job[k]
  BY <1>1, <1>2, <1>5, JobMoves
<1>7. /\ job'[j].pc = "start"
      /\ job'[j].cid = i
      /\ job'[j].svc = job[j].svc
      /\ job'[j].todo = job[j].todo
      /\ job'[j].listed = job[j].listed
  BY <1>1, <1>6 DEF JobRecords
<1>8. ctr'[i].life # "none" /\ ctr'[i].by = j /\ ctr'[i].name = Target(j)'
  <2>1. Target(j)' = Target(j)
    BY <1>7 DEF Target, Slug
  <2>2. QED
    BY <1>1, <1>2, <1>4, <2>1 DEF Created
<1>9. /\ \A v : Has(j, v) => Has(j, v)'
      /\ AllUp(j) => AllUp(j)'
  BY <1>3, HasStays
<1>10. ApplyInv(j)'
  BY <1>1, <1>7, <1>8, <1>9 DEF ApplyInv, IsApply
<1>11. DeleteInv(j)'
  BY <1>1, <1>3, <1>7, ApplyKeepsDelete DEF IInv, DeletePcs
<1>12. QED
  BY <1>1, <1>3, <1>6, <1>10, <1>11, JobStep DEF IInv, TypeOK

\* A failing create or start.
LEMMA FailingCallKeeps ==
    ASSUME IInv, NEW j \in Jobs, CreateFails(j) \/ StartFails(j)
    PROVE  IInv'
<1>1. Evolves /\ IsApply(j)
  BY CallsEvolve DEF CreateFails, StartFails, IInv, TypeOK, ApplyInv, ApplyPcs
<1>2. QED
  BY <1>1, ApplyEnds DEF CreateFails, StartFails

\* The start (262) makes it one that the service has.
LEMMA StartContainerKeeps ==
    ASSUME IInv, NEW j \in Jobs, StartContainer(j)
    PROVE  IInv'
<1>. DEFINE i == job[j].cid
<1>1. /\ ctr \in [Ids -> CtrRecords]
      /\ job \in [Jobs -> JobRecords]
      /\ job[j] \in JobRecords
      /\ i \in Ids
      /\ ApplyInv(j)
      /\ IsApply(j)
      /\ job[j].pc = "start"
      /\ Exists(i)
      /\ ctr' = CtrStarted(i)
      /\ UNCHANGED <<seen, engine>>
  BY EventFacts DEF StartContainer, IInv, TypeOK, ApplyInv, ApplyPcs
<1>2. Evolves
  BY <1>1, CallsEvolve
<1>3. /\ job' \in [Jobs -> JobRecords]
      /\ job'[j] = [job[j] EXCEPT !.pc = "inspect"]
      /\ \A k \in Jobs \ {j} : job'[k] = job[k]
  BY <1>1, Moves DEF StartContainer, ApplyPcs
<1>4. /\ job'[j].pc = "inspect"
      /\ job'[j].svc = job[j].svc
      /\ job'[j].todo = job[j].todo
      /\ job'[j].listed = job[j].listed
  BY <1>1, <1>3 DEF JobRecords
<1>5. /\ \A v : Has(j, v) => Has(j, v)'
      /\ AllUp(j) => AllUp(j)'
  BY <1>2, HasStays
<1>6. Has(j, job[j].svc)'
  <2>1. ctr'[i].life \in {"running", "restarting"}
    BY <1>1 DEF CtrStarted, IsRunning
  <2>2. ctr'[i].by = j /\ ctr'[i].name = ContainerName[Slug(j), job[j].svc]
    BY <1>1, <1>2 DEF Evolves, ApplyInv, Target
  <2>3. job'[j].svc = job[j].svc
    BY <1>4
  <2>4. QED
    BY <1>1, <2>1, <2>2, <2>3 DEF Has, Slug
<1>7. ApplyInv(j)'
  BY <1>1, <1>4, <1>5, <1>6 DEF ApplyInv, IsApply
<1>8. DeleteInv(j)'
  BY <1>1, <1>2, <1>4, ApplyKeepsDelete DEF IInv, DeletePcs
<1>9. QED
  BY <1>1, <1>2, <1>3, <1>7, <1>8, JobStep DEF IInv, TypeOK

\* The stability check (277-314) only decides where to go on.
LEMMA InspectKeeps ==
    ASSUME IInv, NEW j \in Jobs, Inspect(j)
    PROVE  IInv'
<1>1. Evolves /\ IsApply(j)
  BY CallsEvolve DEF Inspect, IInv, TypeOK, ApplyInv, ApplyPcs
<1>2. QED
  BY <1>1, ApplyEnds, ExecuteGoesOn DEF Inspect

-----------------------------------------------------------------------------
\* A step of a delete to the record q that keeps what is said of it.
LEMMA DeleteMoves ==
    ASSUME IInv, Evolves, NEW j \in Jobs, ~IsApply(j), UNCHANGED <<seen, engine>>,
           NEW q \in JobRecords, job' = [job EXCEPT ![j] = q],
           q.pc \notin ApplyPcs,
           \A i \in q.listed : ctr'[i].life # "none",
           q.pc = "del_next" /\ ~q.errs => \A i \in q.listed \ q.list : Gone(i)',
           q.pc \in {"del_stop", "del_remove"} /\ ~q.errs =>
              \A i \in q.listed \ (q.list \cup {q.cid}) : Gone(i)',
           q.pc = "done" /\ ~q.errs => \A i \in q.listed : Gone(i)'
    PROVE  IInv'
<1>1. job \in [Jobs -> JobRecords]
  BY DEF IInv, TypeOK
<1>2. /\ job' \in [Jobs -> JobRecords]
      /\ job'[j] = q
      /\ \A k \in Jobs \ {j} : job'[k] = job[k]
  BY <1>1, JobMoves
<1>3. ApplyInv(j)'
  BY <1>2, DeleteKeepsApply DEF IInv
<1>4. DeleteInv(j)'
  BY <1>2 DEF DeleteInv, IsApply
<1>5. QED
  BY <1>2, <1>3, <1>4, JobStep DEF IInv, TypeOK

\* What the invariant says of a delete before a step, carried over its calls.
LEMMA DeleteFacts ==
    ASSUME IInv, Evolves, NEW j \in Jobs, job[j].pc \in DeletePcs
    PROVE  /\ ~IsApply(j)
           /\ job \in [Jobs -> JobRecords]
           /\ job[j] \in JobRecords
           /\ job[j].listed \subseteq Ids
           /\ job[j].list \subseteq Ids
           /\ job[j].cid \in Ids
           /\ \A i \in job[j].listed : ctr'[i].life # "none"
           /\ job[j].pc = "del_next" /\ ~job[j].errs =>
                 \A i \in job[j].listed \ job[j].list : Gone(i)'
           /\ job[j].pc \in {"del_stop", "del_remove"} /\ ~job[j].errs =>
                 \A i \in job[j].listed \ (job[j].list \cup {job[j].cid}) : Gone(i)'
<1>1. /\ job \in [Jobs -> JobRecords]
      /\ job[j] \in JobRecords
      /\ job[j].listed \subseteq Ids
      /\ job[j].list \subseteq Ids
      /\ job[j].cid \in Ids
      /\ DeleteInv(j)
  BY DEF IInv, TypeOK, JobRecords
<1>2. \A i \in job[j].listed : ctr'[i].life # "none" /\ (Gone(i) => Gone(i)')
  BY <1>1 DEF DeleteInv, Evolves
<1>3. QED
  BY <1>1, <1>2 DEF DeleteInv

\* The checks before the listing (main.go:482-510).
LEMMA ProcessDeleteKeeps ==
    ASSUME IInv, NEW j \in Jobs, ProcessDelete(j)
    PROVE  IInv'
<1>1. Evolves
  BY CallsEvolve DEF ProcessDelete, IInv, TypeOK
<1>2. /\ job[j] \in JobRecords
      /\ job[j].listed \subseteq Ids
      /\ DeleteInv(j)
  BY DEF IInv, TypeOK, JobRecords
<1>3. \A i \in job[j].listed : ctr'[i].life # "none"
  BY <1>1, <1>2 DEF DeleteInv, Evolves
<1>4. CASE Finish(j, TRUE)
  <2>. DEFINE q == [job[j] EXCEPT !.pc = "done", !.errs = TRUE]
  <2>1. q \in JobRecords /\ q.pc = "done" /\ q.errs /\ q.listed = job[j].listed
    BY <1>2 DEF JobRecords
  <2>2. job' = [job EXCEPT ![j] = q]
    BY <1>4 DEF Finish
  <2>3. QED
    BY <1>1, <1>3, <2>1, <2>2, DeleteMoves DEF ProcessDelete, ApplyPcs
<1>5. CASE Goto(j, "list")
  <2>. DEFINE q == [job[j] EXCEPT !.pc = "list"]
  <2>1. q \in JobRecords /\ q.pc = "list" /\ q.listed = job[j].listed
    BY <1>2 DEF JobRecords, DeletePcs
  <2>2. job' = [job EXCEPT ![j] = q]
    BY <1>5 DEF Goto
  <2>3. QED
    BY <1>1, <1>3, <2>1, <2>2, DeleteMoves DEF ProcessDelete, ApplyPcs
<1>6. QED
  BY <1>4, <1>5 DEF ProcessDelete

\* All that is listed is still before Stop.
LEMMA ListContainersKeeps ==
    ASSUME IInv, NEW j \in Jobs, ListContainers(j)
    PROVE  IInv'
<1>1. Evolves /\ UNCHANGED ctr
  BY CallsEvolve DEF ListContainers, IInv, TypeOK
<1>2. /\ job[j].pc \in DeletePcs
      /\ UNCHANGED <<seen, engine>>
  BY DEF ListContainers, DeletePcs
<1>3. /\ ~IsApply(j)
      /\ job[j] \in JobRecords
      /\ \A i \in job[j].listed : ctr'[i].life # "none"
  BY <1>1, <1>2, DeleteFacts
<1>4. CASE Finish(j, TRUE)
  <2>. DEFINE q == [job[j] EXCEPT !.pc = "done", !.errs = TRUE]
  <2>1. q \in JobRecords /\ q.pc = "done" /\ q.errs /\ q.listed = job[j].listed
    BY <1>3 DEF JobRecords
  <2>2. job' = [job EXCEPT ![j] = q]
    BY <1>4 DEF Finish
  <2>3. QED
    BY <1>1, <1>2, <1>3, <2>1, <2>2, DeleteMoves DEF ApplyPcs
<1>5. CASE job' = [job EXCEPT ![j] = [@ EXCEPT !.pc = "del_next",
                             !.list = Matching(Slug(j)), !.listed = Matching(Slug(j))]]
  <2>. DEFINE q == [job[j] EXCEPT !.pc = "del_next", !.list = Matching(Slug(j)),
                                  !.listed = Matching(Slug(j))]
  <2>1. /\ Matching(Slug(j)) \subseteq Ids
        /\ \A i \in Matching(Slug(j)) : ctr'[i].life # "none"
    BY <1>1 DEF Matching, Containers, Exists
  <2>2. /\ q \in JobRecords
        /\ q.pc = "del_next"
        /\ q.list = Matching(Slug(j))
        /\ q.listed = Matching(Slug(j))
    BY <1>3, <2>1 DEF JobRecords, DeletePcs
  <2>3. job' = [job EXCEPT ![j] = q]
    BY <1>5
  <2>4. QED
    BY <1>1, <1>2, <1>3, <2>1, <2>2, <2>3, DeleteMoves DEF ApplyPcs
<1>6. QED
  BY <1>4, <1>5 DEF ListContainers

\* One container is taken from the list to the hand.
LEMMA StopNextKeeps ==
    ASSUME IInv, NEW j \in Jobs, StopNext(j)
    PROVE  IInv'
<1>1. Evolves
  BY CallsEvolve DEF StopNext, IInv, TypeOK
<1>2. /\ job[j].pc = "del_next"
      /\ job[j].pc \in DeletePcs
      /\ UNCHANGED <<seen, engine>>
  BY DEF StopNext, DeletePcs
<1>3. /\ ~IsApply(j)
      /\ job[j] \in JobRecords
      /\ job[j].list \subseteq Ids
      /\ job[j].errs \in BOOLEAN
      /\ \A i \in job[j].listed : ctr'[i].life # "none"
      /\ ~job[j].errs => \A i \in job[j].listed \ job[j].list : Gone(i)'
  BY <1>1, <1>2, DeleteFacts DEF JobRecords
<1>4. CASE job[j].list = {} /\ Finish(j, job[j].errs)
  <2>. DEFINE q == [job[j] EXCEPT !.pc = "done", !.errs = job[j].errs]
  <2>1. q \in JobRecords /\ q.pc = "done" /\ q.errs = job[j].errs /\ q.listed = job[j].listed
    BY <1>3 DEF JobRecords
  <2>2. job' = [job EXCEPT ![j] = q]
    BY <1>4 DEF Finish
  <2>3. QED
    BY <1>1, <1>2, <1>3, <1>4, <2>1, <2>2, DeleteMoves DEF ApplyPcs
<1>5. ASSUME NEW i \in job[j].list,
             job' = [job EXCEPT ![j] = [@ EXCEPT !.pc = "del_stop", !.cid = i,
                                !.list = job[j].list \ {i}]]
      PROVE  IInv'
  <2>. DEFINE q == [job[j] EXCEPT !.pc = "del_stop", !.cid = i, !.list = job[j].list \ {i}]
  <2>1. /\ q \in JobRecords
        /\ q.pc = "del_stop"
        /\ q.cid = i
        /\ q.list = job[j].list \ {i}
        /\ q.listed = job[j].listed
        /\ q.errs = job[j].errs
    BY <1>3 DEF JobRecords, DeletePcs
  <2>2. job' = [job EXCEPT ![j] = q]
    BY <1>5
  <2>3. QED
    BY <1>1, <1>2, <1>3, <2>1, <2>2, DeleteMoves DEF ApplyPcs
<1>6. QED
  BY <1>4, <1>5 DEF StopNext

\* The calls of stopAndRemove.
LEMMA StopAndRemoveKeeps ==
    ASSUME IInv, NEW j \in Jobs, StopContainer(j) \/ RemoveContainer(j)
    PROVE  IInv'
<1>1. /\ job[j].pc \in {"del_stop", "del_remove"}
      /\ job[j].pc \in DeletePcs
      /\ UNCHANGED <<seen, engine>>
  BY DEF StopContainer, RemoveContainer, DeletePcs
<1>2. Evolves
  <2>1. ctr \in [Ids -> CtrRecords] /\ job[j].cid \in Ids
    BY EventFacts DEF IInv, TypeOK
  <2>2. QED
    BY <2>1, CallsEvolve DEF StopContainer, RemoveContainer
<1>3. /\ ~IsApply(j)
      /\ job[j] \in JobRecords
      /\ job[j].listed \subseteq Ids
      /\ job[j].cid \in Ids
      /\ \A i \in job[j].listed : ctr'[i].life # "none"
      /\ ~job[j].errs => \A i \in job[j].listed \ (job[j].list \cup {job[j].cid}) : Gone(i)'
  BY <1>1, <1>2, DeleteFacts
<1>4. CASE CollectError(j)
  <2>. DEFINE q == [job[j] EXCEPT !.pc = "del_next", !.errs = TRUE]
  <2>1. q \in JobRecords /\ q.pc = "del_next" /\ q.errs /\ q.listed = job[j].listed
    BY <1>3 DEF JobRecords, DeletePcs
  <2>2. job' = [job EXCEPT ![j] = q]
    BY <1>4 DEF CollectError
  <2>3. QED
    BY <1>1, <1>2, <1>3, <2>1, <2>2, DeleteMoves DEF ApplyPcs
<1>5. CASE Goto(j, "del_remove")
  <2>. DEFINE q == [job[j] EXCEPT !.pc = "del_remove"]
  <2>1. /\ q \in JobRecords
        /\ q.pc = "del_remove"
        /\ q.cid = job[j].cid
        /\ q.list = job[j].list
        /\ q.listed = job[j].listed
        /\ q.errs = job[j].errs
    BY <1>3 DEF JobRecords, DeletePcs
  <2>2. job' = [job EXCEPT ![j] = q]
    BY <1>5 DEF Goto
  <2>3. QED
    BY <1>1, <1>2, <1>3, <2>1, <2>2, DeleteMoves DEF ApplyPcs
<1>6. CASE ctr' = CtrRemoved(job[j].cid) /\ Goto(j, "del_next")
  <2>. DEFINE q == [job[j] EXCEPT !.pc = "del_next"]
  <2>1. /\ q \in JobRecords
        /\ q.pc = "del_next"
        /\ q.list = job[j].list
        /\ q.listed = job[j].listed
        /\ q.errs = job[j].errs
    BY <1>3 DEF JobRecords, DeletePcs
  <2>2. job' = [job EXCEPT ![j] = q]
    BY <1>6 DEF Goto
  <2>3. \A i \in Ids : i = job[j].cid => Gone(i)'
    <3>1. ctr \in [Ids -> CtrRecords]
      BY DEF IInv, TypeOK
    <3>2. ctr'[job[j].cid].life = "removed"
      BY <1>3, <1>6, <3>1 DEF CtrRemoved, CtrRecords
    <3>3. QED
      BY <3>2 DEF Gone
  <2>4. QED
    BY <1>1, <1>2, <1>3, <2>1, <2>2, <2>3, DeleteMoves DEF ApplyPcs
<1>7. QED
  BY <1>4, <1>5, <1>6 DEF StopContainer, RemoveContainer

-----------------------------------------------------------------------------
\* The engine and the daemon.
LEMMA EngineKeeps ==
    ASSUME IInv, Evolves, UNCHANGED <<job, seen>>, engine' \in EngineRecords
    PROVE  IInv'
<1>1. TypeOK'
  BY DEF IInv, TypeOK, Evolves
<1>2. ASSUME NEW k \in Jobs
      PROVE  ApplyInv(k)' /\ DeleteInv(k)'
  BY IdleJobStays DEF IInv
<1>3. QED
  BY <1>1, <1>2 DEF IInv

\* ReconcileContainers (637-690) only starts containers.
LEMMA BootKeeps ==
    ASSUME IInv, Boot \/ Reconcile
    PROVE  IInv'
<1>1. /\ ctr \in [Ids -> CtrRecords]
      /\ engine \in EngineRecords
      /\ engine.todo \subseteq Ids
  BY DEF IInv, TypeOK, EngineRecords
<1>2. Evolves
  BY <1>1, CallsEvolve DEF Boot, Reconcile
<1>3. engine' \in EngineRecords
  <2>1. CASE Boot
    BY <1>1, <2>1 DEF Boot, EngineRecords, Phases
  <2>2. CASE Reconcile
    BY <1>1, <2>2 DEF Reconcile, EngineRecords, Phases
  <2>3. QED
    BY <2>1, <2>2
<1>4. QED
  BY <1>2, <1>3, EngineKeeps DEF Boot, Reconcile

\* The daemon only restarts them.
LEMMA DaemonKeeps ==
    ASSUME IInv, NEW i \in Ids, DaemonStep(i)
    PROVE  IInv'
<1>1. Evolves
  BY CallsEvolve DEF DaemonStep, IInv, TypeOK
<1>2. QED
  BY <1>1, EngineKeeps DEF DaemonStep, IInv, TypeOK

\* A crash only leaves jobs of which nothing is asked any more.
LEMMA CrashKeeps ==
    ASSUME IInv, Crash
    PROVE  IInv'
<1>1. /\ ctr \in [Ids -> CtrRecords]
      /\ job \in [Jobs -> JobRecords]
      /\ engine \in EngineRecords
      /\ UNCHANGED <<ctr, seen>>
  BY DEF IInv, TypeOK, Crash
<1>2. Evolves
  BY <1>1, CallsEvolve
<1>3. engine' \in EngineRecords
  <2>1. MaxCrashes \in Nat
    BY DeployerAssumption
  <2>2. engine.crashes + 1 \in 0 .. MaxCrashes
    BY <1>1, <2>1 DEF Crash, EngineRecords
  <2>3. QED
    BY <2>2 DEF Crash, EngineRecords, Phases
<1>4. ASSUME NEW j \in Jobs
      PROVE  /\ job'[j] \in JobRecords
             /\ ApplyInv(j)'
             /\ DeleteInv(j)'
  <2>1. CASE Active(j)
    <3>1. job'[j] = [job[j] EXCEPT !.pc = "lost"] /\ job[j] \in JobRecords
      BY <1>1, <2>1 DEF Crash
    <3>2. job'[j] \in JobRecords
      BY <3>1 DEF JobRecords
    <3>3. /\ job'[j].pc = "lost"
          /\ job'[j].listed = job[j].listed
      BY <3>1 DEF JobRecords
    <3>4. ApplyInv(j)'
      <4>1. AllUp(j) => AllUp(j)'
        BY <1>2, HasStays
      <4>2. QED
        BY <1>1, <3>3, <4>1 DEF ApplyInv, ApplyPcs, IInv
    <3>5. DeleteInv(j)'
      BY <1>1, <3>3 DEF DeleteInv, DeletePcs, IInv
    <3>6. QED
      BY <3>2, <3>4, <3>5
  <2>2. CASE ~Active(j)
    <3>1. job'[j] = job[j] /\ seen'[j] = seen[j] /\ job[j] \in JobRecords
      BY <1>1, <2>2 DEF Crash
    <3>2. QED
      BY <1>2, <3>1, IdleJobStays DEF IInv
  <2>3. QED
    BY <2>1, <2>2
<1>5. TypeOK'
  <2>1. job' \in [Jobs -> JobRecords]
    BY <1>4 DEF Crash
  <2>2. QED
    BY <1>1, <1>3, <2>1 DEF IInv, TypeOK
<1>6. QED
  BY <1>4, <1>5 DEF IInv

-----------------------------------------------------------------------------
\* The invariant is inductive.
LEMMA StepIInv == IInv /\ [Next]_vars => IInv'
<1> SUFFICES ASSUME IInv, [Next]_vars
             PROVE  IInv'
  OBVIOUS
<1>1. CASE Boot \/ Reconcile
  BY <1>1, BootKeeps
<1>2. CASE Crash
  BY <1>2, CrashKeeps
<1>3. ASSUME NEW j \in Jobs, Receive(j) \/ ApplyStep(j) \/ DeleteStep(j)
      PROVE  IInv'
  <2>1. CASE Receive(j)
    BY <2>1, ReceiveKeeps
  <2>2. CASE ApplyStep(j)
    BY <2>2, ProcessDeploymentKeeps, EmitKeeps, NextServiceKeeps, PullKeeps, RemoveOldKeeps,
       CreateContainerKeeps, FailingCallKeeps, StartContainerKeeps, InspectKeeps DEF ApplyStep
  <2>3. CASE DeleteStep(j)
    BY <2>3, ProcessDeleteKeeps, ListContainersKeeps, StopNextKeeps, StopAndRemoveKeeps
       DEF DeleteStep
  <2>4. QED
    BY <1>3, <2>1, <2>2, <2>3
<1>4. CASE \E i \in Ids : DaemonStep(i)
  BY <1>4, DaemonKeeps
<1>5. CASE UNCHANGED vars
  <2>1. Evolves
    BY <1>5, CallsEvolve DEF vars, IInv, TypeOK
  <2>2. QED
    BY <1>5, <2>1, EngineKeeps DEF vars, IInv, TypeOK
<1>6. QED
  BY <1>1, <1>2, <1>3, <1>4, <1>5 DEF Next

\* The inductive invariant (ApplyInv and DeleteInv of every job) holds in every
\* reachable state of Execute, Stop and the engine.
THEOREM Invariance == Spec => []IInv
<1>1. Init => IInv
  BY InitIInv
<1>2. IInv /\ [Next]_vars => IInv'
  BY StepIInv
<1>3. QED
  BY <1>1, <1>2, PTL DEF Spec

\* Type correctness.
THEOREM TypeCorrect == Spec => []TypeOK
<1>1. IInv => TypeOK
  BY DEF IInv
<1>2. QED
  BY <1>1, Invariance, PTL

\* The kernel is told of no stage before Execute (runner.go:105-314) has started every
\* service, whatever fails and whatever other jobs do to the containers.
THEOREM StagesAreTruthful == Spec => []StagesTruthful
<1>1. IInv => StagesTruthful
  BY DEF IInv, ApplyInv, StagesTruthful, Told
<1>2. QED
  BY <1>1, Invariance, PTL

\* Stop (runner.go:582-617) that reports no error has removed all it listed.
THEOREM DeletesAreComplete == Spec => []DeleteRemovesListed
<1>1. IInv => DeleteRemovesListed
  BY DEF IInv, DeleteInv, DeleteRemovesListed, Gone, Containers, Exists
<1>2. QED
  BY <1>1, Invariance, PTL

-----------------------------------------------------------------------------
\* Job j makes the container i.
Makes(j, i) ==
    /\ job[j].pc = "create"
    /\ Named(Target(j)) = {}
    /\ ctr' = Created(i, Target(j), Slug(j), j)
    /\ job' = [job EXCEPT ![j] = [@ EXCEPT !.pc = "start", !.cid = i]]

\* What a step does to the containers: nothing, a new state of a container that exists, a
\* new container, or a removal by a job.
LEMMA CtrSteps ==
    ASSUME IInv, [Next]_vars
    PROVE  \/ UNCHANGED ctr
           \/ \E i \in Ids, life \in {"running", "restarting", "exited"} :
                 Exists(i) /\ ctr' = [ctr EXCEPT ![i].life = life]
           \/ \E j \in Jobs, i \in FreshIds : Makes(j, i)
           \/ \E j \in Jobs : RemoveOld(j) /\ \E i \in Named(Target(j)) : ctr' = CtrRemoved(i)
           \/ \E j \in Jobs : RemoveContainer(j) /\ Exists(job[j].cid)
                                /\ ctr' = CtrRemoved(job[j].cid)
<1>. DEFINE NewLife == \E i \in Ids, life \in {"running", "restarting", "exited"} :
                          Exists(i) /\ ctr' = [ctr EXCEPT ![i].life = life]
<1>0. \A j \in Jobs : job[j].cid \in Ids
  BY EventFacts DEF IInv
<1>1. CASE Boot \/ Crash \/ UNCHANGED vars
  BY <1>1 DEF Boot, Crash, vars
<1>2. CASE Reconcile
  <2>1. engine.todo \subseteq Ids
    BY DEF IInv, TypeOK, EngineRecords
  <2>2. \A i \in Ids : Exists(i) /\ ctr' = CtrStarted(i) => UNCHANGED ctr \/ NewLife
    BY DEF CtrStarted
  <2>3. QED
    BY <1>2, <2>1, <2>2 DEF Reconcile
<1>3. ASSUME NEW j \in Jobs, Receive(j) \/ ApplyStep(j)
      PROVE  \/ UNCHANGED ctr
             \/ NewLife
             \/ \E i \in FreshIds : Makes(j, i)
             \/ RemoveOld(j) /\ \E i \in Named(Target(j)) : ctr' = CtrRemoved(i)
  <2>1. CASE StartContainer(j)
    BY <1>0, <2>1 DEF StartContainer, CtrStarted
  <2>2. CASE RemoveOld(j)
    BY <2>2 DEF RemoveOld
  <2>3. CASE CreateContainer(j)
    BY <2>3 DEF CreateContainer, Makes
  <2>4. CASE \/ Receive(j) \/ ProcessDeployment(j) \/ Emit(j) \/ EmitFails(j) \/ NextService(j)
             \/ Pull(j) \/ CreateFails(j) \/ StartFails(j) \/ Inspect(j)
    BY <2>4 DEF Receive, ProcessDeployment, Emit, EmitFails, NextService, Pull, CreateFails,
                StartFails, Inspect
  <2>5. QED
    BY <1>3, <2>1, <2>2, <2>3, <2>4 DEF ApplyStep
<1>4. ASSUME NEW j \in Jobs, DeleteStep(j)
      PROVE  \/ UNCHANGED ctr
             \/ NewLife
             \/ RemoveContainer(j) /\ Exists(job[j].cid) /\ ctr' = CtrRemoved(job[j].cid)
  <2>1. CASE StopContainer(j)
    BY <1>0, <2>1 DEF StopContainer, CtrStopped
  <2>2. CASE RemoveContainer(j)
    BY <2>2 DEF RemoveContainer
  <2>3. CASE ProcessDelete(j) \/ ListContainers(j) \/ StopNext(j)
    BY <2>3 DEF ProcessDelete, ListContainers, StopNext
  <2>4. QED
    BY <1>4, <2>1, <2>2, <2>3 DEF DeleteStep
<1>5. ASSUME NEW i \in Ids, DaemonStep(i)
      PROVE  NewLife
  BY <1>5 DEF DaemonStep, CtrExit, CtrRestart, Exists
<1>6. QED
  BY <1>1, <1>2, <1>3, <1>4, <1>5 DEF Next

\* Each of these leaves names, labels and creators alone.
LEMMA StepEvolves ==
    ASSUME IInv, [Next]_vars
    PROVE  Evolves
<1>1. ctr \in [Ids -> CtrRecords] /\ \A j \in Jobs : job[j].cid \in Ids
  BY EventFacts DEF IInv, TypeOK
<1>2. \A j \in Jobs : Slug(j) \in Slugs /\ Target(j) \in CNames
  BY EventFacts DEF IInv
<1>3. CASE UNCHANGED ctr
  BY <1>1, <1>3, CallsEvolve
<1>4. ASSUME NEW i \in Ids, NEW life \in {"running", "restarting", "exited"},
             Exists(i), ctr' = [ctr EXCEPT ![i].life = life]
      PROVE  Evolves
  BY <1>1, <1>4, LifeEvolves
<1>5. ASSUME NEW j \in Jobs, NEW i \in FreshIds, Makes(j, i)
      PROVE  Evolves
  BY <1>1, <1>2, <1>5, CallsEvolve DEF Makes
<1>6. ASSUME NEW i \in Ids, Exists(i), ctr' = CtrRemoved(i)
      PROVE  Evolves
  BY <1>1, <1>6, CallsEvolve
<1>7. \A j \in Jobs : \A i \in Named(Target(j)) : i \in Ids /\ Exists(i)
  BY DEF Named, Containers
<1>8. QED
  BY <1>1, <1>3, <1>4, <1>5, <1>6, <1>7, CtrSteps

-----------------------------------------------------------------------------
\* A container appears only by being made.
LEMMA NewMade ==
    ASSUME IInv, [Next]_vars, NEW i \in Ids, ctr[i].life = "none", ctr'[i].life # "none"
    PROVE  \E j \in Jobs : Makes(j, i)
<1>1. ctr \in [Ids -> CtrRecords] /\ ctr'[i] # ctr[i]
  BY DEF IInv, TypeOK
<1>2. \A k \in Ids : \A life : Exists(k) => ctr' # [ctr EXCEPT ![k].life = life]
  BY <1>1 DEF Exists
<1>3. \A k \in Ids : Exists(k) => ctr' # CtrRemoved(k)
  BY <1>2 DEF CtrRemoved
<1>4. PICK j \in Jobs, k \in FreshIds : Makes(j, k)
  <2>1. \A j \in Jobs : job[j].cid \in Ids /\ \A k \in Named(Target(j)) : k \in Ids /\ Exists(k)
    BY EventFacts DEF IInv, Named, Containers
  <2>2. QED
    BY <1>1, <1>2, <1>3, <2>1, CtrSteps
<1>5. k = i
  BY <1>1, <1>4 DEF Makes, Created, FreshIds
<1>6. QED
  BY <1>4, <1>5

\* How what a delete has at hand comes about: by its listing, and then only less.
LEMMA HandSteps ==
    ASSUME IInv, [Next]_vars, NEW j \in Jobs, job'[j].pc \in StopPcs
    PROVE  \/ /\ UNCHANGED ctr
              /\ job'[j].pc = "del_next"
              /\ job'[j].list = Matching(Slug(j))
              /\ job'[j].listed = Matching(Slug(j))
           \/ /\ job[j].pc \in StopPcs
              /\ job'[j].listed = job[j].listed
              /\ job'[j].list \subseteq job[j].list
              /\ job'[j].pc # "del_next" =>
                    \/ job'[j].cid \in job[j].list
                    \/ job[j].pc # "del_next" /\ job'[j].cid = job[j].cid
<1>1. /\ job \in [Jobs -> JobRecords]
      /\ job[j] \in JobRecords
      /\ job[j].stage \in Stages \cup Results
  BY DEF IInv, TypeOK, JobRecords
<1>2. CASE job'[j] = job[j]
  BY <1>2 DEF StopPcs
<1>3. CASE Boot \/ Reconcile \/ (\E i \in Ids : DaemonStep(i)) \/ UNCHANGED vars
  BY <1>2, <1>3 DEF Boot, Reconcile, DaemonStep, vars
<1>4. CASE Crash
  BY <1>1, <1>2, <1>4 DEF Crash, StopPcs, JobRecords
<1>5. ASSUME NEW k \in Jobs, Receive(k) \/ ApplyStep(k) \/ DeleteStep(k)
      PROVE  k # j => job'[j] = job[j]
  <2>1. CASE Receive(k) \/ ApplyStep(k)
    BY <1>1, <2>1 DEF Receive, ApplyStep, ProcessDeployment, Emit, EmitFails, AfterEmit,
       NextService, Pull, RemoveOld, CreateContainer, CreateFails, StartContainer, StartFails,
       Inspect, Goto, Fails, Emitting
  <2>2. CASE DeleteStep(k)
    BY <1>1, <2>2 DEF DeleteStep, ProcessDelete, ListContainers, StopNext, StopContainer,
       RemoveContainer, Goto, Finish, CollectError
  <2>3. QED
    BY <1>5, <2>1, <2>2
<1>6. CASE Receive(j) \/ ApplyStep(j)
  <2>1. CASE Emit(j) \/ EmitFails(j)
    <3>1. job[j].pc = "emit"
      BY <2>1 DEF Emit, EmitFails
    <3>2. job' = AfterEmit(j) => job'[j].pc \in {"emit", "next", "done"}
      BY <1>1, <3>1 DEF AfterEmit, JobRecords, Stages, Results
    <3>3. job' = [job EXCEPT ![j].tries = @ + 1] => job'[j].pc = "emit"
      BY <1>1, <3>1 DEF JobRecords
    <3>4. QED
      BY <2>1, <3>2, <3>3 DEF Emit, EmitFails, StopPcs
  <2>2. CASE NextService(j)
    <3>1. Fails(j) \/ Emitting(j, "starting") => job'[j].pc = "emit"
      BY <1>1 DEF Fails, Emitting, JobRecords
    <3>2. \A v : job' = [job EXCEPT ![j] = [@ EXCEPT !.pc = "pull", !.svc = v,
                                            !.todo = job[j].todo \ {v}]]
                    => job'[j].pc = "pull"
      BY <1>1 DEF JobRecords
    <3>3. QED
      BY <2>2, <3>1, <3>2 DEF NextService, StopPcs
  <2>3. CASE CreateContainer(j)
    <3>1. \A i : job' = [job EXCEPT ![j] = [@ EXCEPT !.pc = "start", !.cid = i]]
                    => job'[j].pc = "start"
      BY <1>1 DEF JobRecords
    <3>2. QED
      BY <2>3, <3>1 DEF CreateContainer, StopPcs
  <2>4. CASE \/ Receive(j) \/ ProcessDeployment(j) \/ Pull(j) \/ RemoveOld(j)
             \/ CreateFails(j) \/ StartContainer(j) \/ StartFails(j) \/ Inspect(j)
    <3>1. /\ Fails(j) => job'[j].pc = "emit"
          /\ \A stage : Emitting(j, stage) => job'[j].pc = "emit"
      BY <1>1 DEF Fails, Emitting, JobRecords
    <3>2. \A pc : Goto(j, pc) => job'[j].pc = pc
      BY <1>1 DEF Goto, JobRecords
    <3>3. job'[j].pc \in {"emit", "parse", "done", "remove_old", "next", "create", "inspect"}
      BY <2>4, <3>1, <3>2 DEF Receive, ProcessDeployment, Pull, RemoveOld, CreateFails,
         StartContainer, StartFails, Inspect
    <3>4. QED
      BY <3>3 DEF StopPcs
  <2>5. QED
    BY <1>6, <2>1, <2>2, <2>3, <2>4 DEF ApplyStep
<1>7. CASE DeleteStep(j)
  <2>1. \A pc : Goto(j, pc) => /\ job'[j].pc = pc
                               /\ job'[j].list = job[j].list
                               /\ job'[j].listed = job[j].listed
                               /\ job'[j].cid = job[j].cid
    BY <1>1 DEF Goto, JobRecords
  <2>2. \A e : Finish(j, e) => job'[j].pc = "done"
    BY <1>1 DEF Finish, JobRecords
  <2>3. CollectError(j) => /\ job'[j].pc = "del_next"
                           /\ job'[j].list = job[j].list
                           /\ job'[j].listed = job[j].listed
    BY <1>1 DEF CollectError, JobRecords
  <2>4. CASE ProcessDelete(j)
    <3>1. CASE Finish(j, TRUE)
      BY <1>1, <3>1 DEF Finish, JobRecords, StopPcs
    <3>2. CASE Goto(j, "list")
      BY <2>1, <3>2 DEF StopPcs
    <3>3. QED
      BY <2>4, <3>1, <3>2 DEF ProcessDelete
  <2>5. CASE ListContainers(j)
    <3>1. \A m : job' = [job EXCEPT ![j] = [@ EXCEPT !.pc = "del_next", !.list = m, !.listed = m]]
                    => job'[j].pc = "del_next" /\ job'[j].list = m /\ job'[j].listed = m
      BY <1>1 DEF JobRecords
    <3>2. QED
      BY <2>2, <2>5, <3>1 DEF ListContainers, StopPcs
  <2>6. CASE StopNext(j)
    <3>1. \A i : job' = [job EXCEPT ![j] = [@ EXCEPT !.pc = "del_stop", !.cid = i,
                                            !.list = job[j].list \ {i}]]
                    => /\ job'[j].cid = i
                       /\ job'[j].list = job[j].list \ {i}
                       /\ job'[j].listed = job[j].listed
      BY <1>1 DEF JobRecords
    <3>2. QED
      BY <2>2, <2>6, <3>1 DEF StopNext, StopPcs
  <2>7. CASE StopContainer(j) \/ RemoveContainer(j)
    BY <2>1, <2>3, <2>7 DEF StopContainer, RemoveContainer, StopPcs
  <2>8. QED
    BY <1>7, <2>4, <2>5, <2>6, <2>7 DEF DeleteStep
<1>8. QED
  BY <1>2, <1>3, <1>4, <1>5, <1>6, <1>7 DEF Next

-----------------------------------------------------------------------------
(***************************************************************************)
(* The answers.                                                            *)
(***************************************************************************)

\* Only a job that creates a container comes to have created one.
LEMMA CreatorsStay ==
    ASSUME IInv, [Next]_vars, NEW j \in Jobs, job[j].pc # "create", CreatedBy(j) = {}
    PROVE  CreatedBy(j)' = {}
<1>1. ctr \in [Ids -> CtrRecords]
  BY DEF IInv, TypeOK
<1>. SUFFICES ASSUME NEW i \in Ids, ctr'[i].by = j
              PROVE  FALSE
  BY DEF CreatedBy
<1>2. ctr[i].by # j
  BY DEF CreatedBy
<1>3. ~UNCHANGED ctr
  BY <1>2
<1>4. \A k \in Ids : \A life : ctr' # [ctr EXCEPT ![k].life = life]
  BY <1>1, <1>2 DEF CtrRecords
<1>5. \A k \in Ids : ctr' # CtrRemoved(k)
  BY <1>4 DEF CtrRemoved
<1>6. PICK k \in Jobs, m \in FreshIds : Makes(k, m)
  <2>1. \A k \in Jobs : Named(Target(k)) \subseteq Ids /\ job[k].cid \in Ids
    BY EventFacts DEF IInv, Named, Containers
  <2>2. QED
    BY <1>3, <1>4, <1>5, <2>1, CtrSteps
<1>7. k # j
  BY <1>6 DEF Makes
<1>8. QED
  BY <1>1, <1>2, <1>6, <1>7 DEF Makes, Created, FreshIds

\* A job that has not been answered goes on, or a delete ends.
LEMMA Unanswered ==
    ASSUME NEW j \in Jobs, AnswerInv(j), job[j].pc \notin {"emit", "done", "lost"},
           seen'[j] = seen[j], job'[j].pc \notin {"none", "parse"},
           job'[j].pc = "done" => ~IsApply(j)
    PROVE  AnswerInv(j)'
  BY DEF AnswerInv, IsApply

\* A job that does not move, or is lost.
LEMMA AnswerStays ==
    ASSUME IInv, [Next]_vars, NEW j \in Jobs, AnswerInv(j), seen'[j] = seen[j],
           \/ job'[j] = job[j]
           \/ job'[j].pc = "lost" /\ job'[j].stage = job[j].stage
    PROVE  AnswerInv(j)'
<1>1. job[j].pc # "create" /\ CreatedBy(j) = {} => CreatedBy(j)' = {}
  BY CreatorsStay
<1>2. QED
  BY <1>1 DEF AnswerInv, IsApply

\* The answer is what is emitted last, or its attempts are used up.
LEMMA AnswerEmit ==
    ASSUME IInv, [Next]_vars, NEW j \in Jobs, AnswerInv(j), Emit(j) \/ EmitFails(j)
    PROVE  AnswerInv(j)'
<1>. DEFINE r == job[j]
            Moved(q) == job' = [job EXCEPT ![j] = q]
<1>1. /\ job \in [Jobs -> JobRecords] /\ r \in JobRecords
      /\ r.pc = "emit" /\ r.stage \in Stages \cup Results /\ r.tries \in 0 .. 4
      /\ seen \in [Jobs -> SUBSET (Stages \cup Results)]
  BY DEF Emit, EmitFails, IInv, TypeOK, JobRecords
<1>2. seen'[j] = seen[j] \/ seen'[j] = seen[j] \cup {r.stage}
  BY <1>1 DEF Emit, EmitFails
<1>3. seen[j] \cap Results \subseteq {r.stage}
  BY DEF AnswerInv
<1>4. seen'[j] \cap Results \subseteq {r.stage} \cap Results
  BY <1>2, <1>3
<1>5. Stages \cap Results = {}
  BY DEF Stages, Results
<1>6. \/ r.stage = "preparing" /\ Moved([r EXCEPT !.pc = "next", !.todo = Event[j].services])
      \/ r.stage = "starting" /\ Moved([r EXCEPT !.stage = "deployed", !.tries = 0])
      \/ r.stage = "deployed" /\ Moved([r EXCEPT !.stage = "success", !.tries = 0])
      \/ /\ r.stage \in Results /\ Moved([r EXCEPT !.pc = "done"])
         /\ r.stage \in seen'[j] \/ r.tries + 1 >= Attempts(r.stage)
      \/ Moved([r EXCEPT !.tries = r.tries + 1])
  <2>1. CASE job' = AfterEmit(j) /\ (r.stage \in seen'[j] \/ r.tries + 1 >= Attempts(r.stage))
    <3>1. CASE r.stage \in {"preparing", "starting", "deployed"}
      BY <2>1, <3>1 DEF AfterEmit
    <3>2. CASE r.stage \in Results
      BY <2>1, <3>2 DEF AfterEmit, Results
    <3>3. QED
      BY <1>1, <3>1, <3>2 DEF Stages
  <2>2. CASE job' = [job EXCEPT ![j].tries = @ + 1]
    BY <2>2
  <2>3. CASE Emit(j)
    BY <1>1, <2>1, <2>3 DEF Emit
  <2>4. CASE EmitFails(j)
    <3>1. Attempts(r.stage) \in {3, 5}
      BY DEF Attempts
    <3>2. r.tries + 1 < Attempts(r.stage) \/ r.tries + 1 >= Attempts(r.stage)
      BY <1>1, <3>1
    <3>3. QED
      BY <2>1, <2>2, <2>4, <3>2 DEF EmitFails
  <2>5. QED
    BY <2>3, <2>4
<1>7. CASE r.stage = "preparing" /\ Moved([r EXCEPT !.pc = "next", !.todo = Event[j].services])
  <2>1. job'[j].pc = "next"
    BY <1>1, <1>7 DEF JobRecords
  <2>2. seen'[j] \cap Results = {}
    BY <1>4, <1>7 DEF Results
  <2>3. QED
    BY <2>1, <2>2 DEF AnswerInv
<1>8. CASE r.stage \in {"starting", "deployed"}
             /\ \E stage : Moved([r EXCEPT !.stage = stage, !.tries = 0])
  <2>1. job'[j].pc = "emit"
    BY <1>1, <1>8 DEF JobRecords
  <2>2. seen'[j] \cap Results = {}
    BY <1>4, <1>8 DEF Results
  <2>3. QED
    BY <2>1, <2>2 DEF AnswerInv
<1>9. CASE /\ r.stage \in Results /\ Moved([r EXCEPT !.pc = "done"])
           /\ r.stage \in seen'[j] \/ r.tries + 1 >= Attempts(r.stage)
  <2>1. job'[j].pc = "done" /\ job'[j].stage = r.stage /\ job'[j].tries = r.tries
    BY <1>1, <1>9 DEF JobRecords
  <2>2. r.tries + 1 >= Attempts(r.stage) => r.tries = 4
    BY <1>1, <1>9 DEF Attempts
  <2>3. seen'[j] \cap Results # {} \/ job'[j].tries = 4
    BY <1>9, <2>1, <2>2
  <2>4. QED
    BY <1>4, <2>1, <2>3 DEF AnswerInv
<1>10. CASE Moved([r EXCEPT !.tries = r.tries + 1])
  <2>1. job'[j].pc = "emit" /\ job'[j].stage = r.stage
    BY <1>1, <1>10 DEF JobRecords
  <2>2. QED
    BY <1>4, <2>1 DEF AnswerInv
<1>11. QED
  BY <1>6, <1>7, <1>8, <1>9, <1>10

\* Where the other steps of a job lead.
LEMMA NextPcs ==
    ASSUME IInv, NEW j \in Jobs
    PROVE  /\ \A pc : Goto(j, pc) => job'[j].pc = pc /\ job'[j].stage = job[j].stage
           /\ \A stage : Emitting(j, stage) => job'[j].pc = "emit"
           /\ \A errs : Finish(j, errs) => job'[j].pc = "done"
           /\ CollectError(j) => job'[j].pc = "del_next"
<1>1. job \in [Jobs -> JobRecords] /\ job[j] \in JobRecords
  BY DEF IInv, TypeOK
<1>2. QED
  BY <1>1 DEF Goto, Emitting, Finish, CollectError, JobRecords

LEMMA ApplyPc ==
    ASSUME IInv, NEW j \in Jobs,
           \/ NextService(j) \/ Pull(j) \/ RemoveOld(j) \/ CreateContainer(j) \/ CreateFails(j)
           \/ StartContainer(j) \/ StartFails(j) \/ Inspect(j)
    PROVE  /\ job[j].pc \in ApplyPcs \ {"emit"} /\ job'[j].pc \in ApplyPcs
           /\ UNCHANGED <<seen, engine>>
<1>1. job \in [Jobs -> JobRecords] /\ job[j] \in JobRecords
  BY DEF IInv, TypeOK
<1>2. Fails(j) => job'[j].pc = "emit"
  BY NextPcs DEF Fails
<1>3. CASE NextService(j)
  <2>1. ASSUME NEW v, job' = [job EXCEPT ![j] = [@ EXCEPT !.pc = "pull", !.svc = v,
                                                 !.todo = job[j].todo \ {v}]]
        PROVE  job'[j].pc = "pull"
    BY <1>1, <2>1 DEF JobRecords
  <2>2. job'[j].pc \in {"emit", "pull"}
    BY <1>2, <1>3, <2>1, NextPcs DEF NextService
  <2>3. QED
    BY <1>3, <2>2 DEF NextService, ApplyPcs
<1>4. CASE CreateContainer(j)
  <2>1. ASSUME NEW i, job' = [job EXCEPT ![j] = [@ EXCEPT !.pc = "start", !.cid = i]]
        PROVE  job'[j].pc = "start"
    BY <1>1, <2>1 DEF JobRecords
  <2>2. job'[j].pc = "start"
    BY <1>4, <2>1 DEF CreateContainer
  <2>3. QED
    BY <1>4, <2>2 DEF CreateContainer, ApplyPcs
<1>5. CASE Pull(j) \/ RemoveOld(j) \/ CreateFails(j) \/ StartContainer(j) \/ StartFails(j) \/ Inspect(j)
  <2>1. job'[j].pc \in {"remove_old", "create", "emit", "inspect", "next"}
    BY <1>2, <1>5, NextPcs DEF Pull, RemoveOld, CreateFails, StartContainer, StartFails, Inspect
  <2>2. QED
    BY <1>5, <2>1 DEF Pull, RemoveOld, CreateFails, StartContainer, StartFails, Inspect, ApplyPcs
<1>6. QED
  BY <1>3, <1>4, <1>5

LEMMA DeletePc ==
    ASSUME IInv, NEW j \in Jobs, DeleteStep(j)
    PROVE  /\ job[j].pc \in DeletePcs \cup {"parse"} /\ job'[j].pc \in DeletePcs \cup {"done"}
           /\ UNCHANGED <<seen, engine>> /\ ~IsApply(j)
<1>1. job \in [Jobs -> JobRecords] /\ job[j] \in JobRecords /\ DeleteInv(j)
  BY DEF IInv, TypeOK
<1>2. CASE ProcessDelete(j)
  BY <1>2, NextPcs DEF ProcessDelete, DeletePcs
<1>3. CASE ListContainers(j)
  <2>1. ASSUME NEW m, job' = [job EXCEPT ![j] = [@ EXCEPT !.pc = "del_next", !.list = m, !.listed = m]]
        PROVE  job'[j].pc = "del_next"
    BY <1>1, <2>1 DEF JobRecords
  <2>2. job'[j].pc \in {"del_next", "done"}
    BY <1>3, <2>1, NextPcs DEF ListContainers
  <2>3. QED
    BY <1>1, <1>3, <2>2 DEF ListContainers, DeletePcs, DeleteInv
<1>4. CASE StopNext(j)
  <2>1. ASSUME NEW i, job' = [job EXCEPT ![j] = [@ EXCEPT !.pc = "del_stop", !.cid = i,
                                                 !.list = job[j].list \ {i}]]
        PROVE  job'[j].pc = "del_stop"
    BY <1>1, <2>1 DEF JobRecords
  <2>2. job'[j].pc \in {"del_stop", "done"}
    BY <1>4, <2>1, NextPcs DEF StopNext
  <2>3. QED
    BY <1>1, <1>4, <2>2 DEF StopNext, DeletePcs, DeleteInv
<1>5. CASE StopContainer(j) \/ RemoveContainer(j)
  <2>1. job'[j].pc \in {"del_remove", "del_next"}
    BY <1>5, NextPcs DEF StopContainer, RemoveContainer
  <2>2. QED
    BY <1>1, <1>5, <2>1 DEF StopContainer, RemoveContainer, DeletePcs, DeleteInv
<1>6. QED
  BY <1>2, <1>3, <1>4, <1>5 DEF DeleteStep

\* A step of job j moves no other.
LEMMA OnlyMover ==
    ASSUME IInv, NEW j \in Jobs, Receive(j) \/ ApplyStep(j) \/ DeleteStep(j)
    PROVE  \A k \in Jobs \ {j} : job'[k] = job[k] /\ seen'[k] = seen[k]
<1>1. job \in [Jobs -> JobRecords] /\ seen \in [Jobs -> SUBSET (Stages \cup Results)]
  BY DEF IInv, TypeOK
<1>2. CASE Emit(j) \/ EmitFails(j)
  <2>1. \A k \in Jobs \ {j} : seen'[k] = seen[k]
    BY <1>1, <1>2 DEF Emit, EmitFails
  <2>2. \A k \in Jobs \ {j} : AfterEmit(j)[k] = job[k]
    BY <1>1 DEF AfterEmit
  <2>3. \A k \in Jobs \ {j} : job'[k] = job[k]
    BY <1>1, <1>2, <2>2 DEF Emit, EmitFails
  <2>4. QED
    BY <2>1, <2>3
<1>3. CASE Receive(j) \/ DeleteStep(j)
  BY <1>1, <1>3 DEF Receive, DeleteStep, ProcessDelete, ListContainers, StopNext, StopContainer,
     RemoveContainer, Goto, Finish, CollectError
<1>4. CASE \/ ProcessDeployment(j) \/ NextService(j) \/ Pull(j) \/ RemoveOld(j)
           \/ CreateContainer(j) \/ CreateFails(j) \/ StartContainer(j) \/ StartFails(j) \/ Inspect(j)
  BY <1>1, <1>4 DEF ProcessDeployment, NextService, Pull, RemoveOld, CreateContainer, CreateFails,
     StartContainer, StartFails, Inspect, Goto, Fails, Emitting
<1>5. QED
  BY <1>2, <1>3, <1>4 DEF ApplyStep

LEMMA AnswerMover ==
    ASSUME IInv, [Next]_vars, NEW j \in Jobs, AnswerInv(j),
           Receive(j) \/ ApplyStep(j) \/ DeleteStep(j)
    PROVE  AnswerInv(j)'
<1>1. CASE Emit(j) \/ EmitFails(j)
  BY <1>1, AnswerEmit
<1>2. CASE Receive(j)
  <2>1. job[j].pc = "none" /\ job'[j].pc = "parse" /\ job'[j].stage = job[j].stage /\ seen' = seen
    BY <1>2, NextPcs DEF Receive
  <2>2. CreatedBy(j)' = {}
    BY <2>1, CreatorsStay DEF AnswerInv
  <2>3. QED
    BY <2>1, <2>2 DEF AnswerInv
<1>3. CASE ProcessDeployment(j)
  <2>1. job[j].pc = "parse" /\ seen' = seen /\ job'[j].pc \in {"done", "emit"}
    BY <1>3, NextPcs DEF ProcessDeployment, Fails
  <2>2. seen[j] = {} /\ CreatedBy(j)' = {}
    BY <2>1, CreatorsStay DEF AnswerInv
  <2>3. QED
    BY <2>1, <2>2 DEF AnswerInv
<1>4. CASE \/ NextService(j) \/ Pull(j) \/ RemoveOld(j) \/ CreateContainer(j) \/ CreateFails(j)
           \/ StartContainer(j) \/ StartFails(j) \/ Inspect(j)
  BY <1>4, ApplyPc, Unanswered DEF ApplyPcs
<1>5. CASE DeleteStep(j)
  BY <1>5, DeletePc, Unanswered DEF DeletePcs
<1>6. QED
  BY <1>1, <1>2, <1>3, <1>4, <1>5 DEF ApplyStep

LEMMA AnswerStep ==
    ASSUME IInv, [Next]_vars, NEW j \in Jobs, AnswerInv(j)
    PROVE  AnswerInv(j)'
<1>1. CASE Boot \/ Reconcile \/ (\E i \in Ids : DaemonStep(i)) \/ UNCHANGED vars
  BY <1>1, AnswerStays DEF Boot, Reconcile, DaemonStep, vars
<1>2. CASE Crash
  <2>1. job[j] \in JobRecords
    BY DEF IInv, TypeOK
  <2>2. job'[j] = job[j] \/ (job'[j].pc = "lost" /\ job'[j].stage = job[j].stage)
    BY <1>2, <2>1 DEF Crash, JobRecords
  <2>3. QED
    BY <1>2, <2>2, AnswerStays DEF Crash
<1>3. ASSUME NEW k \in Jobs, Receive(k) \/ ApplyStep(k) \/ DeleteStep(k)
      PROVE  AnswerInv(j)'
  <2>1. CASE k = j
    BY <1>3, <2>1, AnswerMover
  <2>2. CASE k # j
    <3>1. job'[j] = job[j] /\ seen'[j] = seen[j]
      BY <1>3, <2>2, OnlyMover
    <3>2. QED
      BY <3>1, AnswerStays
  <2>3. QED
    BY <2>1, <2>2
<1>4. QED
  BY <1>1, <1>2, <1>3 DEF Next

\* Whatever fails, an apply that reported or created anything and is over has been
\* answered with one result, unless all 5 attempts failed (411-477).
THEOREM EndsAreAnswered == Spec => []EndsAnswered
<1>. DEFINE Inv == IInv /\ \A j \in Jobs : AnswerInv(j)
<1>1. Init => Inv
  <2>1. SUFFICES ASSUME Init, NEW j \in Jobs
                 PROVE  AnswerInv(j)
    BY InitIInv
  <2>2. job[j].pc = "none" /\ job[j].stage = "preparing" /\ seen[j] = {}
    BY <2>1 DEF Init, IdleJob
  <2>3. CreatedBy(j) = {}
    BY <2>1, DockerAssumption DEF Init, DockerInit, CreatedBy
  <2>4. QED
    BY <2>2, <2>3 DEF AnswerInv
<1>2. Inv /\ [Next]_vars => Inv'
  BY StepIInv, AnswerStep
<1>3. Inv => EndsAnswered
  <2>1. SUFFICES ASSUME Inv, NEW j \in Jobs
                 PROVE  /\ ~(Results \subseteq seen[j])
                        /\ IsApply(j) /\ job[j].pc = "done" /\ (seen[j] # {} \/ CreatedBy(j) # {}) =>
                              seen[j] \cap Results # {} \/ job[j].tries = 4
    BY DEF EndsAnswered
  <2>2. AnswerInv(j)
    BY <2>1
  <2>3. ~(Results \subseteq seen[j])
    BY <2>2 DEF AnswerInv, Results
  <2>4. QED
    BY <2>2, <2>3 DEF AnswerInv
<1>4. QED
  BY <1>1, <1>2, <1>3, PTL DEF Spec

(***************************************************************************)
(* What a crash leaves.                                                    *)
(***************************************************************************)

\* A container is newly created only by a job that has it at hand.
LEMMA NewlyCreated ==
    ASSUME IInv, [Next]_vars, NEW i \in Ids, ctr'[i].life = "created"
    PROVE  \/ ctr[i].life = "created" /\ ctr'[i].slug = ctr[i].slug
           \/ \E j \in Jobs : Makes(j, i)
<1>1. ctr \in [Ids -> CtrRecords] /\ Evolves
  BY StepEvolves DEF IInv, TypeOK
<1>2. CASE ctr[i].life = "created"
  BY <1>1, <1>2 DEF Evolves
<1>3. CASE ctr[i].life # "created"
  <2>1. ~UNCHANGED ctr
    BY <1>3
  <2>2. \A k \in Ids, life \in {"running", "restarting", "exited", "removed"} :
           ctr' # [ctr EXCEPT ![k].life = life]
    BY <1>1, <1>3 DEF CtrRecords
  <2>3. \A k \in Ids : ctr' # CtrRemoved(k)
    BY <2>2 DEF CtrRemoved
  <2>4. PICK j \in Jobs, k \in FreshIds : Makes(j, k)
    <3>1. \A j \in Jobs : Named(Target(j)) \subseteq Ids /\ job[j].cid \in Ids
      BY EventFacts DEF IInv, Named, Containers
    <3>2. QED
      BY <2>1, <2>2, <2>3, <3>1, CtrSteps
  <2>5. k = i
    BY <1>1, <1>3, <2>4 DEF Makes, Created, FreshIds
  <2>6. QED
    BY <2>4, <2>5
<1>4. QED
  BY <1>2, <1>3

\* And it is labelled.
LEMMA CreatedLabelled ==
    ASSUME IInv, StrandInv, [Next]_vars, NEW i \in Ids, ctr'[i].life = "created"
    PROVE  Labelled(i)'
<1>1. CASE ctr[i].life = "created" /\ ctr'[i].slug = ctr[i].slug
  BY <1>1 DEF StrandInv, Labelled
<1>2. CASE \E j \in Jobs : Makes(j, i)
  <2>1. PICK j \in Jobs : Makes(j, i)
    BY <1>2
  <2>2. ctr \in [Ids -> CtrRecords]
    BY DEF IInv, TypeOK
  <2>3. ctr'[i].slug = Slug(j)
    BY <2>1, <2>2 DEF Makes, Created
  <2>4. Slug(j) \in Slugs
    BY EventFacts DEF IInv
  <2>5. QED
    BY <2>3, <2>4, DockerAssumption DEF Labelled
<1>3. QED
  BY <1>1, <1>2, NewlyCreated

\* The engine that starts, and its reconciliation.
LEMMA BootStrands ==
    ASSUME IInv, StrandInv, Boot
    PROVE  StrandInv'
<1>1. ctr \in [Ids -> CtrRecords] /\ engine \in EngineRecords
  BY DEF IInv, TypeOK
<1>2. UNCHANGED <<ctr, job>> /\ \A j \in Jobs : ~Active(j)
  BY DEF Boot, StrandInv
<1>3. \/ engine'.phase = "reconcile" /\ engine'.todo = {i \in Ids : Restartable(i)}
      \/ DockerCanFail /\ engine'.phase = "up"
  BY <1>1 DEF Boot, EngineRecords
<1>4. \A i \in Ids : ctr[i].life = "created" => Labelled(i) /\ Restartable(i)
  BY DEF StrandInv, Restartable, Exists
<1>5. \A i \in Ids : ctr'[i].life = "created" => Labelled(i)'
  BY <1>2, <1>4 DEF Labelled
<1>6. \A i \in Ids : ctr'[i].life = "created" =>
         (engine'.phase = "reconcile" /\ ~DockerCanFail => i \in engine'.todo)
  BY <1>2, <1>3, <1>4
<1>7. NoneStranded'
  BY <1>3 DEF NoneStranded
<1>8. \A j \in Jobs : ~Active(j)'
  BY <1>2 DEF Active
<1>9. QED
  BY <1>5, <1>6, <1>7, <1>8 DEF StrandInv

LEMMA ReconcileStrands ==
    ASSUME IInv, StrandInv, Reconcile
    PROVE  StrandInv'
<1>1. /\ ctr \in [Ids -> CtrRecords] /\ engine \in EngineRecords /\ engine.todo \subseteq Ids
      /\ UNCHANGED job /\ [Next]_vars
  BY DEF IInv, TypeOK, EngineRecords, Reconcile, Next
<1>2. \A j \in Jobs : ~Active(j)'
  BY <1>1 DEF Reconcile, StrandInv, Active
<1>3. \A i \in Ids : ctr'[i].life = "created" => Labelled(i)'
  BY <1>1, CreatedLabelled
<1>4. CASE engine.todo = {} /\ engine' = [engine EXCEPT !.phase = "up"] /\ UNCHANGED ctr
  <2>1. engine'.phase = "up"
    BY <1>1, <1>4 DEF EngineRecords
  <2>2. ~DockerCanFail => \A i \in Ids : ctr'[i].life # "created"
    BY <1>4 DEF StrandInv, Reconcile
  <2>3. QED
    BY <1>3, <2>1, <2>2 DEF StrandInv, NoneStranded
<1>5. ASSUME NEW k \in engine.todo, engine' = [engine EXCEPT !.todo = @ \ {k}],
             \/ Exists(k) /\ ctr' = CtrStarted(k)
             \/ (~Exists(k) \/ DockerCanFail) /\ UNCHANGED ctr
      PROVE  StrandInv'
  <2>1. engine'.phase = "reconcile" /\ engine'.todo = engine.todo \ {k}
    BY <1>1, <1>5 DEF EngineRecords, Reconcile
  <2>2. ~DockerCanFail => ctr'[k].life # "created"
    <3>1. CASE Exists(k) /\ ctr' = CtrStarted(k)
      BY <1>1, <3>1 DEF CtrStarted, IsRunning, CtrRecords
    <3>2. CASE ~Exists(k) /\ UNCHANGED ctr
      BY <3>2 DEF Exists
    <3>3. QED
      BY <1>5, <3>1, <3>2
  <2>3. \A i \in Ids \ {k} : ctr'[i] = ctr[i]
    BY <1>1, <1>5 DEF CtrStarted
  <2>4. ~DockerCanFail => \A i \in Ids : ctr'[i].life = "created" => i \in engine'.todo
    BY <2>1, <2>2, <2>3 DEF StrandInv, Reconcile
  <2>5. QED
    BY <1>2, <1>3, <2>1, <2>4 DEF StrandInv, NoneStranded
<1>6. QED
  BY <1>4, <1>5 DEF Reconcile

\* The engine is up while a job works, and a container that a job has created stays at hand
\* until it is started or gone.
LEMMA JobStrands ==
    ASSUME IInv, StrandInv, NEW j \in Jobs, Receive(j) \/ ApplyStep(j) \/ DeleteStep(j)
    PROVE  StrandInv'
<1>1. /\ ctr \in [Ids -> CtrRecords] /\ job \in [Jobs -> JobRecords] /\ job[j] \in JobRecords
      /\ [Next]_vars
  BY DEF IInv, TypeOK, Next
<1>2. /\ engine.phase = "up" /\ UNCHANGED engine
      /\ job[j].pc = "start" => StartContainer(j) \/ StartFails(j)
  <2>1. CASE Receive(j)
    BY <2>1 DEF Receive
  <2>2. CASE ProcessDeployment(j) \/ Emit(j) \/ EmitFails(j)
    BY <2>2 DEF ProcessDeployment, Emit, EmitFails, StrandInv, Active
  <2>3. CASE \/ NextService(j) \/ Pull(j) \/ RemoveOld(j) \/ CreateContainer(j) \/ CreateFails(j)
             \/ StartContainer(j) \/ StartFails(j) \/ Inspect(j)
    <3>1. job[j].pc \in ApplyPcs /\ UNCHANGED engine
      BY <2>3, ApplyPc
    <3>2. Active(j)
      BY <3>1 DEF Active, ApplyPcs
    <3>3. job[j].pc = "start" => StartContainer(j) \/ StartFails(j)
      BY <2>3 DEF NextService, Pull, RemoveOld, CreateContainer, CreateFails, Inspect
    <3>4. QED
      BY <3>1, <3>2, <3>3 DEF StrandInv
  <2>4. CASE DeleteStep(j)
    <3>1. job[j].pc \in DeletePcs \cup {"parse"} /\ UNCHANGED engine
      BY <2>4, DeletePc
    <3>2. QED
      BY <3>1 DEF Active, DeletePcs, StrandInv
  <2>5. QED
    BY <2>1, <2>2, <2>3, <2>4 DEF ApplyStep
<1>3. \A i \in Ids : ctr'[i].life = "created" => Labelled(i)'
  BY <1>1, CreatedLabelled
<1>4. ASSUME ~DockerCanFail, NEW i \in Ids, ctr'[i].life = "created"
      PROVE  \E k \in Jobs : job'[k].pc = "start" /\ job'[k].cid = i
  <2>1. CASE \E k \in Jobs : Makes(k, i)
    BY <1>1, <2>1 DEF Makes, JobRecords
  <2>2. CASE ctr[i].life = "created"
    <3>1. PICK k \in Jobs : job[k].pc = "start" /\ job[k].cid = i
      BY <1>2, <1>4, <2>2 DEF StrandInv, NoneStranded
    <3>2. CASE k # j
      BY <3>1, <3>2, OnlyMover
    <3>3. CASE k = j
      <4>1. StartContainer(j)
        BY <1>2, <1>4, <2>2, <3>1, <3>3 DEF StartFails, Exists
      <4>2. ctr' = [ctr EXCEPT ![i].life = "running"]
        BY <2>2, <3>1, <3>3, <4>1 DEF StartContainer, CtrStarted, IsRunning
      <4>3. QED
        BY <1>1, <1>4, <4>2 DEF CtrRecords
    <3>4. QED
      BY <3>2, <3>3
  <2>3. QED
    BY <1>1, <1>4, <2>1, <2>2, NewlyCreated
<1>5. QED
  BY <1>2, <1>3, <1>4 DEF StrandInv, NoneStranded

LEMMA DaemonStrands ==
    ASSUME IInv, StrandInv, NEW k \in Ids, DaemonStep(k)
    PROVE  StrandInv'
<1>1. ctr \in [Ids -> CtrRecords] /\ UNCHANGED <<job, engine>>
  BY DEF IInv, TypeOK, DaemonStep
<1>2. \A i \in Ids : ctr'[i].life = "created" => ctr'[i] = ctr[i]
  BY <1>1 DEF DaemonStep, CtrExit, CtrRestart, CtrRecords
<1>3. QED
  BY <1>1, <1>2 DEF StrandInv, NoneStranded, Labelled, Active

LEMMA CrashStrands ==
    ASSUME IInv, StrandInv, Crash
    PROVE  StrandInv'
<1>1. engine'.phase = "down" /\ UNCHANGED ctr
  BY DEF Crash
<1>2. ASSUME NEW j \in Jobs
      PROVE  ~Active(j)'
  <2>1. job[j] \in JobRecords
    BY DEF IInv, TypeOK
  <2>2. QED
    BY <2>1 DEF Crash, Active, JobRecords
<1>3. QED
  BY <1>1, <1>2 DEF StrandInv, NoneStranded, Labelled

\* However often the engine crashes, and whatever jobs run when it does, a container that
\* has been created is about to be started once the engine is up, unless the daemon refuses
\* a call (637-690).
THEOREM NoneIsStranded == Spec => []NoneStranded
<1>. DEFINE Inv == IInv /\ StrandInv
<1>1. Init => Inv
  <2>1. SUFFICES ASSUME Init
                 PROVE  StrandInv
    BY InitIInv
  <2>2. \A i \in Ids : ctr[i].life # "created"
    BY <2>1 DEF Init, DockerInit
  <2>3. \A j \in Jobs : ~Active(j)
    BY <2>1 DEF Init, IdleJob, Active
  <2>4. QED
    BY <2>2, <2>3 DEF StrandInv, NoneStranded
<1>2. StrandInv /\ UNCHANGED vars => StrandInv'
  BY DEF vars, StrandInv, NoneStranded, Labelled, Active
<1>3. Inv /\ [Next]_vars => Inv'
  BY <1>2, StepIInv, BootStrands, ReconcileStrands, JobStrands, DaemonStrands, CrashStrands DEF Next
<1>4. Inv => NoneStranded
  BY DEF StrandInv
<1>5. QED
  BY <1>1, <1>3, <1>4, PTL DEF Spec

-----------------------------------------------------------------------------
(***************************************************************************)
(* What the jobs do to the containers of others.                           *)
(***************************************************************************)

\* What a job claims of a container does not change with it.
LEMMA ClaimStays ==
    ASSUME Evolves, NEW j \in Jobs, NEW i \in Ids, ctr[i].life # "none"
    PROVE  Claims(j, ctr'[i]) <=> Claims(j, ctr[i])
    BY DEF Evolves, Claims, IsApply, Slug

\* A delete has only what it claims at hand (585-610).
LEMMA AtHandStep ==
    ASSUME IInv, AtHandInv, [Next]_vars
    PROVE  AtHandInv'
<1>1. Evolves
  BY StepEvolves
<1>2. ASSUME NEW j \in Jobs, ~IsApply(j), NEW i \in Matching(Slug(j))
      PROVE  i \in Ids /\ ctr[i].life # "none" /\ Claims(j, ctr[i])
  BY <1>2 DEF Matching, Containers, Exists, Claims
<1>3. SUFFICES ASSUME NEW j \in Jobs, NEW i \in Ids, AtHand(i, j)'
               PROVE  ctr[i].life # "none" /\ Claims(j, ctr[i])
  <2>1. ASSUME NEW j \in Jobs, NEW i \in Ids, ctr[i].life # "none", Claims(j, ctr[i])
        PROVE  (ctr[i].life # "none" /\ Claims(j, ctr[i]))'
    <3>1. ctr'[i].life # "none" /\ Claims(j, ctr'[i])
      BY <1>1, <2>1, ClaimStays DEF Evolves
    <3>2. QED
      BY <3>1 DEF Claims, IsApply, Slug
  <2>2. QED
    BY <1>3, <2>1 DEF AtHandInv
<1>4. /\ job'[j].pc \in StopPcs
      /\ i \in job'[j].list \/ (job'[j].pc # "del_next" /\ i = job'[j].cid)
  BY <1>3 DEF AtHand
<1>5. ~IsApply(j)
  <2>1. IInv' => (job'[j].pc \in DeletePcs => ~IsApply(j))
    BY DEF IInv, DeleteInv, IsApply
  <2>2. QED
    BY <1>4, <2>1, StepIInv DEF StopPcs, DeletePcs
<1>6. CASE job'[j].pc = "del_next" /\ job'[j].list = Matching(Slug(j))
  BY <1>2, <1>4, <1>5, <1>6
<1>7. CASE /\ job[j].pc \in StopPcs
           /\ job'[j].list \subseteq job[j].list
           /\ job'[j].pc # "del_next" =>
                 \/ job'[j].cid \in job[j].list
                 \/ job[j].pc # "del_next" /\ job'[j].cid = job[j].cid
  BY <1>4, <1>7 DEF AtHandInv, AtHand
<1>8. QED
  BY <1>4, <1>6, <1>7, HandSteps

\* Whoever removes a container claims it, and replaces what has its name or has it at hand.
LEMMA RemovedBy ==
    ASSUME IInv, ServicesInv, AtHandInv, [Next]_vars,
           NEW i \in Ids, Exists(i), ctr'[i].life = "removed"
    PROVE  \E j \in Jobs : /\ Claims(j, ctr[i])
                           /\ job'[j] # job[j]
                           /\ (RemoveOld(j) /\ ctr[i].name = Target(j)) \/ RemoveContainer(j)
<1>1. /\ ctr \in [Ids -> CtrRecords]
      /\ ctr[i].life # "none" /\ ctr[i].life # "removed"
  BY DEF IInv, TypeOK, Exists
<1>2. \A k \in Ids : ctr' = CtrRemoved(k) => k = i
  BY <1>1 DEF CtrRemoved
<1>3. ASSUME NEW j \in Jobs, RemoveOld(j) \/ RemoveContainer(j)
      PROVE  job'[j] # job[j]
  <2>1. Goto(j, "create") => job'[j].pc = "create"
    BY NextPcs
  <2>2. Goto(j, "del_next") \/ CollectError(j) => job'[j].pc = "del_next"
    BY NextPcs
  <2>3. QED
    BY <1>3, <2>1, <2>2 DEF RemoveOld, RemoveContainer
<1>4. CASE \E j \in Jobs : RemoveOld(j) /\ \E k \in Named(Target(j)) : ctr' = CtrRemoved(k)
  <2>1. PICK j \in Jobs : RemoveOld(j) /\ \E k \in Named(Target(j)) : ctr' = CtrRemoved(k)
    BY <1>4
  <2>2. ctr[i].name = Target(j)
    BY <1>2, <2>1 DEF Named, Containers
  <2>3. IsApply(j) /\ job[j].svc \in Event[j].services
    <3>1. job[j].pc = "remove_old"
      BY <2>1 DEF RemoveOld
    <3>2. QED
      BY <3>1 DEF ApplyPcs, IInv, ApplyInv, ServicesInv
  <2>4. Claims(j, ctr[i])
    BY <2>2, <2>3 DEF Claims, Target
  <2>5. QED
    BY <1>3, <2>1, <2>2, <2>4
<1>5. CASE \E j \in Jobs : RemoveContainer(j) /\ Exists(job[j].cid)
                             /\ ctr' = CtrRemoved(job[j].cid)
  <2>1. PICK j \in Jobs : RemoveContainer(j) /\ ctr' = CtrRemoved(job[j].cid)
    BY <1>5
  <2>2. job[j].pc = "del_remove" /\ job[j].cid \in Ids
    BY <2>1, EventFacts DEF RemoveContainer, IInv
  <2>3. AtHand(i, j)
    BY <1>2, <2>1, <2>2 DEF AtHand, StopPcs
  <2>4. QED
    BY <1>3, <2>1, <2>3 DEF AtHandInv
<1>6. ~UNCHANGED ctr
  BY <1>1
<1>7. \A k \in Ids, life \in {"running", "restarting", "exited"} :
         ctr' # [ctr EXCEPT ![k].life = life]
  BY <1>1 DEF CtrRecords
<1>8. \A j \in Jobs, k \in FreshIds : ~Makes(j, k)
  BY <1>1 DEF Makes, Created, FreshIds
<1>9. QED
  BY <1>4, <1>5, <1>6, <1>7, <1>8, CtrSteps

\* A container that is there was there before, with the same name, or is made.
LEMMA ThereBefore ==
    ASSUME IInv, [Next]_vars, NEW i \in Ids, Exists(i)'
    PROVE  \/ /\ ctr[i].life # "none"
              /\ Exists(i)
              /\ ctr'[i].name = ctr[i].name
              /\ ctr'[i].slug = ctr[i].slug
           \/ ~Exists(i) /\ \E j \in Jobs : Makes(j, i)
<1>1. CASE ctr[i].life # "none"
  BY <1>1, StepEvolves DEF Evolves, Exists, Gone
<1>2. CASE ctr[i].life = "none"
  BY <1>2, NewMade DEF Exists
<1>3. QED
  BY <1>1, <1>2

\* What the new container is.
LEMMA MadeAs ==
    ASSUME IInv, NEW j \in Jobs, NEW i \in Ids, Makes(j, i)
    PROVE  /\ job[j].pc = "create" /\ job'[j].pc = "start"
           /\ ctr'[i].name = Target(j)
           /\ \A k \in Ids \ {i} : ctr'[k] = ctr[k]
<1>1. ctr \in [Ids -> CtrRecords] /\ job \in [Jobs -> JobRecords] /\ job[j] \in JobRecords
  BY DEF IInv, TypeOK
<1>2. job'[j].pc = "start"
  BY <1>1 DEF Makes, JobRecords
<1>3. QED
  BY <1>1, <1>2 DEF Makes, Created

\* The daemon refuses a name that is taken.
LEMMA NamesStep ==
    ASSUME IInv, NamesInv, [Next]_vars
    PROVE  NamesInv'
<1>1. ASSUME NEW i \in Ids, NEW k \in Ids, Exists(i)', Exists(k)', ctr'[i].name = ctr'[k].name,
             i # k, NEW j \in Jobs, Makes(j, i)
      PROVE  FALSE
  <2>1. ctr'[k] = ctr[k] /\ ctr'[i].name = Target(j)
    BY <1>1, MadeAs
  <2>2. k \in Named(Target(j))
    BY <1>1, <2>1 DEF Named, Containers, Exists
  <2>3. QED
    BY <1>1, <2>2 DEF Makes
<1>2. ASSUME NEW i \in Ids, NEW k \in Ids, Exists(i)', Exists(k)', ctr'[i].name = ctr'[k].name
      PROVE  i = k
  <2>1. CASE Exists(i) /\ ctr'[i].name = ctr[i].name /\ Exists(k) /\ ctr'[k].name = ctr[k].name
    BY <1>2, <2>1 DEF NamesInv, Containers
  <2>2. QED
    BY <1>1, <1>2, <2>1, ThereBefore
<1>3. QED
  BY <1>2 DEF NamesInv, Containers

\* A service is behind Execute only once its container has been started (262).
LEMMA BehindStep ==
    ASSUME IInv, [Next]_vars, NEW j \in Jobs
    PROVE  \A v \in Behind(j)' : v \in Behind(j) \/ (StartContainer(j) /\ v = job[j].svc)
<1>1. /\ job \in [Jobs -> JobRecords]
      /\ job[j] \in JobRecords
  BY DEF IInv, TypeOK
<1>2. CASE job'[j] = job[j]
  BY <1>2 DEF Behind
<1>3. CASE job'[j].pc \in {"none", "parse", "done", "lost"} \cup DeletePcs
  BY <1>3 DEF Behind, DeletePcs
<1>4. CASE job'[j].pc = "emit" /\ job'[j].stage \notin Told
  BY <1>4 DEF Behind
<1>5. Fails(j) => job'[j].pc = "emit" /\ job'[j].stage \notin Told
  BY <1>1 DEF Fails, Emitting, JobRecords, Told
<1>6. \A pc : Goto(j, pc) => /\ job'[j].pc = pc
                             /\ job'[j].todo = job[j].todo
                             /\ job'[j].svc = job[j].svc
  BY <1>1 DEF Goto, JobRecords
<1>7. CASE Emit(j) \/ EmitFails(j)
  <2>1. job[j].pc = "emit"
    BY <1>7 DEF Emit, EmitFails
  <2>2. CASE job' = AfterEmit(j)
    <3>1. CASE job[j].stage = "preparing"
      <4>1. job'[j].pc = "next" /\ job'[j].todo = Event[j].services
        BY <1>1, <2>2, <3>1 DEF AfterEmit, JobRecords
      <4>2. QED
        BY <4>1 DEF Behind
    <3>2. CASE job[j].stage \in {"starting", "deployed"}
      BY <2>1, <3>2 DEF Behind, Told
    <3>3. CASE job[j].stage \notin {"preparing", "starting", "deployed"}
      <4>1. job'[j].pc = "done"
        BY <1>1, <2>2, <3>3 DEF AfterEmit, JobRecords
      <4>2. QED
        BY <1>3, <4>1
    <3>4. QED
      BY <3>1, <3>2, <3>3
  <2>3. CASE job' = [job EXCEPT ![j].tries = @ + 1]
    <3>1. job'[j].pc = job[j].pc /\ job'[j].stage = job[j].stage
      BY <1>1, <2>3 DEF JobRecords
    <3>2. QED
      BY <2>1, <3>1 DEF Behind
  <2>4. QED
    BY <1>7, <2>2, <2>3 DEF Emit, EmitFails
<1>8. CASE NextService(j)
  <2>1. job[j].pc = "next"
    BY <1>8 DEF NextService
  <2>2. CASE job[j].todo = {} /\ Emitting(j, "starting")
    BY <2>1, <2>2 DEF Behind
  <2>3. ASSUME NEW v \in job[j].todo,
               job' = [job EXCEPT ![j] = [@ EXCEPT !.pc = "pull", !.svc = v,
                                  !.todo = job[j].todo \ {v}]]
        PROVE  Behind(j)' \subseteq Behind(j)
    <3>1. job'[j].pc = "pull" /\ job'[j].svc = v /\ job'[j].todo = job[j].todo \ {v}
      BY <1>1, <2>3 DEF JobRecords
    <3>2. QED
      BY <2>1, <3>1 DEF Behind
  <2>4. QED
    BY <1>4, <1>5, <1>8, <2>2, <2>3 DEF NextService
<1>9. CASE Pull(j) \/ RemoveOld(j) \/ Inspect(j)
  <2>1. CASE Fails(j)
    BY <1>4, <1>5, <2>1
  <2>2. CASE /\ job[j].pc \in {"pull", "remove_old"}
             /\ Goto(j, "remove_old") \/ Goto(j, "create")
    BY <1>6, <2>2 DEF Behind
  <2>3. CASE job[j].pc = "inspect" /\ Goto(j, "next")
    BY <1>6, <2>3 DEF Behind
  <2>4. QED
    BY <1>9, <2>1, <2>2, <2>3 DEF Pull, RemoveOld, Inspect
<1>10. CASE CreateContainer(j)
  <2>1. ASSUME NEW i, job' = [job EXCEPT ![j] = [@ EXCEPT !.pc = "start", !.cid = i]]
        PROVE  job'[j].pc = "start" /\ job'[j].svc = job[j].svc /\ job'[j].todo = job[j].todo
    BY <1>1, <2>1 DEF JobRecords
  <2>2. job[j].pc = "create"
    BY <1>10 DEF CreateContainer
  <2>3. QED
    BY <1>10, <2>1, <2>2 DEF CreateContainer, Behind
<1>11. CASE StartContainer(j)
  <2>1. job[j].pc = "start" /\ Goto(j, "inspect")
    BY <1>11 DEF StartContainer
  <2>2. QED
    BY <1>6, <1>11, <2>1 DEF Behind
<1>12. CASE CreateFails(j) \/ StartFails(j)
  BY <1>4, <1>5, <1>12 DEF CreateFails, StartFails
<1>13. CASE ProcessDeployment(j)
  <2>1. Emitting(j, "preparing") => job'[j].pc = "emit" /\ job'[j].stage \notin Told
    BY <1>1 DEF Emitting, JobRecords, Told
  <2>2. QED
    BY <1>3, <1>4, <1>5, <1>6, <1>13, <2>1 DEF ProcessDeployment
<1>14. CASE Receive(j) \/ DeleteStep(j)
  BY <1>3, <1>6, <1>14, DeletePc DEF Receive
<1>15. CASE Crash
  <2>1. job'[j].pc = "lost" \/ job'[j] = job[j]
    BY <1>1, <1>15 DEF Crash, JobRecords
  <2>2. QED
    BY <1>2, <1>3, <2>1
<1>16. CASE Boot \/ Reconcile \/ (\E i \in Ids : DaemonStep(i)) \/ UNCHANGED vars
  BY <1>2, <1>16 DEF Boot, Reconcile, DaemonStep, vars
<1>17. ASSUME NEW k \in Jobs, Receive(k) \/ ApplyStep(k) \/ DeleteStep(k)
       PROVE  k # j => job'[j] = job[j]
  BY <1>17, OnlyMover
<1>18. QED
  BY <1>2, <1>7, <1>8, <1>9, <1>10, <1>11, <1>12, <1>13, <1>14, <1>15, <1>16, <1>17
     DEF Next, ApplyStep

\* The start makes the service at hand stand.
LEMMA StartStands ==
    ASSUME IInv, NEW j \in Jobs, StartContainer(j)
    PROVE  Stands(j, job[j].svc)'
<1>. DEFINE i == job[j].cid
<1>1. /\ ctr \in [Ids -> CtrRecords]
      /\ job \in [Jobs -> JobRecords]
      /\ job[j] \in JobRecords
      /\ i \in Ids
      /\ ApplyInv(j)
      /\ job[j].pc = "start"
      /\ Exists(i)
      /\ ctr' = CtrStarted(i)
  BY EventFacts DEF StartContainer, IInv, TypeOK
<1>2. Evolves
  BY <1>1, CallsEvolve
<1>3. job'[j].svc = job[j].svc
  BY <1>1 DEF StartContainer, Goto, JobRecords
<1>4. ctr'[i].life \in {"running", "restarting"}
  BY <1>1 DEF CtrStarted, IsRunning
<1>5. ctr'[i].by = j /\ ctr'[i].name = ContainerName[Slug(j), job[j].svc]
  BY <1>1, <1>2 DEF Evolves, ApplyInv, Target
<1>6. QED
  BY <1>1, <1>3, <1>4, <1>5 DEF Stands, CreatedBy, Slug

\* Execute gets to the create only from the removal by name.
LEMMA CreateComes ==
    ASSUME IInv, [Next]_vars, NEW j \in Jobs, job'[j].pc = "create"
    PROVE  job'[j] = job[j] \/ RemoveOld(j)
<1>1. job \in [Jobs -> JobRecords] /\ job[j] \in JobRecords
  BY DEF IInv, TypeOK
<1>2. CASE Boot \/ Reconcile \/ (\E i \in Ids : DaemonStep(i)) \/ UNCHANGED vars
  BY <1>2 DEF Boot, Reconcile, DaemonStep, vars
<1>3. CASE Crash
  BY <1>1, <1>3 DEF Crash, JobRecords
<1>4. ASSUME NEW k \in Jobs, Receive(k) \/ ApplyStep(k) \/ DeleteStep(k)
      PROVE  k # j => job'[j] = job[j]
  BY <1>4, OnlyMover
<1>5. ~Receive(j) /\ ~DeleteStep(j)
  BY NextPcs, DeletePc DEF Receive, DeletePcs
<1>6. ~Fails(j) /\ \A stage : ~Emitting(j, stage)
  BY NextPcs DEF Fails
<1>7. ~ProcessDeployment(j) /\ ~Pull(j) /\ ~StartContainer(j) /\ ~Inspect(j)
  BY <1>6, NextPcs DEF ProcessDeployment, Pull, StartContainer, Inspect
<1>8. ~CreateFails(j) /\ ~StartFails(j)
  BY <1>6 DEF CreateFails, StartFails
<1>9. ~Emit(j) /\ ~EmitFails(j)
  <2>1. ASSUME job[j].pc = "emit", job' = AfterEmit(j)
        PROVE  job'[j].pc \in {"next", "emit", "done"}
    <3>1. CASE job[j].stage = "preparing"
      BY <1>1, <2>1, <3>1 DEF AfterEmit, JobRecords
    <3>2. CASE job[j].stage \in {"starting", "deployed"}
      <4>1. \E stage : job' = [job EXCEPT ![j] = [@ EXCEPT !.stage = stage, !.tries = 0]]
        BY <2>1, <3>2 DEF AfterEmit
      <4>2. QED
        BY <1>1, <2>1, <4>1 DEF JobRecords
    <3>3. CASE job[j].stage \notin {"preparing", "starting", "deployed"}
      <4>1. job' = [job EXCEPT ![j].pc = "done"]
        BY <2>1, <3>3 DEF AfterEmit
      <4>2. QED
        BY <1>1, <4>1 DEF JobRecords
    <3>4. QED
      BY <3>1, <3>2, <3>3
  <2>2. ASSUME job[j].pc = "emit", job' = [job EXCEPT ![j].tries = @ + 1]
        PROVE  job'[j].pc = "emit"
    BY <1>1, <2>2 DEF JobRecords
  <2>3. QED
    BY <2>1, <2>2 DEF Emit, EmitFails
<1>10. ~CreateContainer(j)
  <2>1. ASSUME NEW i, job' = [job EXCEPT ![j] = [@ EXCEPT !.pc = "start", !.cid = i]]
        PROVE  job'[j].pc = "start"
    BY <1>1, <2>1 DEF JobRecords
  <2>2. QED
    BY <2>1 DEF CreateContainer
<1>11. ~NextService(j)
  <2>1. ASSUME NEW v, job' = [job EXCEPT ![j] = [@ EXCEPT !.pc = "pull", !.svc = v,
                                                 !.todo = job[j].todo \ {v}]]
        PROVE  job'[j].pc = "pull"
    BY <1>1, <2>1 DEF JobRecords
  <2>2. QED
    BY <1>6, <2>1 DEF NextService
<1>12. QED
  BY <1>2, <1>3, <1>4, <1>5, <1>7, <1>8, <1>9, <1>10, <1>11 DEF Next, ApplyStep

\* Execute takes the services it visits from its event (105).
LEMMA ServicesStep ==
    ASSUME IInv, ServicesInv, [Next]_vars
    PROVE  ServicesInv'
<1>. DEFINE Todo(j) == job[j].pc \in ApplyPcs \ {"emit"} => job[j].todo \subseteq Event[j].services
            Svc(j)  == job[j].pc \in ApplyPcs \ {"emit", "next"} => job[j].svc \in Event[j].services
<1>. SUFFICES ASSUME NEW j \in Jobs
              PROVE  Todo(j)' /\ Svc(j)'
  BY DEF ServicesInv
<1>1. /\ job \in [Jobs -> JobRecords]
      /\ job[j] \in JobRecords
      /\ Todo(j) /\ Svc(j)
  BY DEF IInv, TypeOK, ServicesInv
<1>2. CASE job'[j] = job[j]
  BY <1>1, <1>2
<1>3. CASE job'[j].pc \in {"none", "parse", "done", "lost", "emit"} \cup DeletePcs
  BY <1>3 DEF ApplyPcs, DeletePcs
<1>4. CASE /\ job[j].pc \in ApplyPcs \ {"emit", "next"}
           /\ job'[j].todo = job[j].todo
           /\ job'[j].svc = job[j].svc
  BY <1>1, <1>4
<1>5. CASE job[j].pc = "emit"
  <2>1. CASE job' = AfterEmit(j)
    <3>1. CASE job[j].stage = "preparing"
      <4>1. job'[j].pc = "next" /\ job'[j].todo = Event[j].services
        BY <1>1, <2>1, <3>1 DEF AfterEmit, JobRecords
      <4>2. QED
        BY <4>1
    <3>2. CASE job[j].stage \in {"starting", "deployed"}
      <4>1. \E stage : job' = [job EXCEPT ![j] = [@ EXCEPT !.stage = stage, !.tries = 0]]
        BY <2>1, <3>2 DEF AfterEmit
      <4>2. job'[j].pc = "emit"
        BY <1>1, <1>5, <4>1 DEF JobRecords
      <4>3. QED
        BY <1>3, <4>2
    <3>3. CASE job[j].stage \notin {"preparing", "starting", "deployed"}
      <4>1. job'[j].pc = "done"
        BY <1>1, <2>1, <3>3 DEF AfterEmit, JobRecords
      <4>2. QED
        BY <1>3, <4>1
    <3>4. QED
      BY <3>1, <3>2, <3>3
  <2>2. CASE job' = [job EXCEPT ![j].tries = @ + 1]
    <3>1. job'[j].pc = "emit"
      BY <1>1, <1>5, <2>2 DEF JobRecords
    <3>2. QED
      BY <1>3, <3>1
  <2>3. QED
    <3>1. Emit(j) \/ EmitFails(j) => job' = AfterEmit(j) \/ job' = [job EXCEPT ![j].tries = @ + 1]
      BY DEF Emit, EmitFails
    <3>2. \/ Emit(j) \/ EmitFails(j)
          \/ Crash
          \/ job'[j] = job[j]
      <4>1. ASSUME NEW k \in Jobs, Receive(k) \/ ApplyStep(k) \/ DeleteStep(k)
            PROVE  k # j => job'[j] = job[j]
        BY <4>1, OnlyMover
      <4>2. ~Receive(j) /\ ~DeleteStep(j)
        BY <1>5, DeletePc DEF Receive, DeletePcs
      <4>3. ApplyStep(j) => Emit(j) \/ EmitFails(j)
        BY <1>5, ApplyPc DEF ApplyStep, ProcessDeployment
      <4>4. Boot \/ Reconcile \/ (\E i \in Ids : DaemonStep(i)) \/ UNCHANGED vars => job'[j] = job[j]
        BY DEF Boot, Reconcile, DaemonStep, vars
      <4>5. QED
        BY <4>1, <4>2, <4>3, <4>4 DEF Next
    <3>3. Crash => job'[j].pc = "lost" \/ job'[j] = job[j]
      BY <1>1 DEF Crash, JobRecords
    <3>4. QED
      BY <1>2, <1>3, <2>1, <2>2, <3>1, <3>2, <3>3
<1>6. CASE NextService(j)
  <2>1. ASSUME NEW v \in job[j].todo,
               job' = [job EXCEPT ![j] = [@ EXCEPT !.pc = "pull", !.svc = v,
                                  !.todo = job[j].todo \ {v}]]
        PROVE  Todo(j)' /\ Svc(j)'
    <3>1. job'[j].svc = v /\ job'[j].todo = job[j].todo \ {v}
      BY <1>1, <2>1 DEF JobRecords
    <3>2. job[j].todo \subseteq Event[j].services
      BY <1>1, <1>6 DEF NextService, ApplyPcs
    <3>3. QED
      BY <2>1, <3>1, <3>2
  <2>2. Fails(j) \/ Emitting(j, "starting") => job'[j].pc = "emit"
    BY NextPcs DEF Fails
  <2>3. QED
    BY <1>3, <1>6, <2>1, <2>2 DEF NextService
<1>7. CASE \/ Pull(j) \/ RemoveOld(j) \/ CreateContainer(j) \/ CreateFails(j)
           \/ StartContainer(j) \/ StartFails(j) \/ Inspect(j)
  <2>1. job[j].pc \in ApplyPcs \ {"emit", "next"}
    BY <1>7 DEF Pull, RemoveOld, CreateContainer, CreateFails, StartContainer, StartFails,
       Inspect, ApplyPcs
  <2>2. Fails(j) => job'[j].pc = "emit"
    BY NextPcs DEF Fails
  <2>3. \A pc : Goto(j, pc) => job'[j].todo = job[j].todo /\ job'[j].svc = job[j].svc
    BY <1>1 DEF Goto, JobRecords
  <2>4. \A i : job' = [job EXCEPT ![j] = [@ EXCEPT !.pc = "start", !.cid = i]]
                 => job'[j].todo = job[j].todo /\ job'[j].svc = job[j].svc
    BY <1>1 DEF JobRecords
  <2>5. \/ Fails(j)
        \/ \E pc : Goto(j, pc)
        \/ \E i : job' = [job EXCEPT ![j] = [@ EXCEPT !.pc = "start", !.cid = i]]
    BY <1>7 DEF Pull, RemoveOld, CreateContainer, CreateFails, StartContainer, StartFails, Inspect
  <2>6. QED
    BY <1>3, <1>4, <2>1, <2>2, <2>3, <2>4, <2>5
<1>8. CASE Receive(j) \/ ProcessDeployment(j) \/ DeleteStep(j)
  <2>1. Receive(j) => job'[j].pc = "parse"
    BY NextPcs DEF Receive
  <2>2. ProcessDeployment(j) => job'[j].pc \in {"done", "emit"}
    BY NextPcs DEF ProcessDeployment, Fails
  <2>3. QED
    BY <1>3, <1>8, <2>1, <2>2, DeletePc
<1>9. CASE Crash
  <2>1. job'[j].pc = "lost" \/ job'[j] = job[j]
    BY <1>1, <1>9 DEF Crash, JobRecords
  <2>2. QED
    BY <1>2, <1>3, <2>1
<1>10. CASE Boot \/ Reconcile \/ (\E i \in Ids : DaemonStep(i)) \/ UNCHANGED vars
  BY <1>2, <1>10 DEF Boot, Reconcile, DaemonStep, vars
<1>11. ASSUME NEW k \in Jobs, Receive(k) \/ ApplyStep(k) \/ DeleteStep(k)
       PROVE  k # j => job'[j] = job[j]
  BY <1>11, OnlyMover
<1>12. Emit(j) \/ EmitFails(j) => job[j].pc = "emit"
  BY DEF Emit, EmitFails
<1>13. QED
  BY <1>2, <1>5, <1>6, <1>7, <1>8, <1>9, <1>10, <1>11, <1>12 DEF Next, ApplyStep

\* Before the first event every name is taken once and no job has begun.
LEMMA InitStepInv == Init => StepInv
<1>. SUFFICES ASSUME Init
              PROVE  StepInv
  OBVIOUS
<1>1. \A i \in Ids : Exists(i) => i \in DOMAIN Old /\ ctr[i].name = Old[i].name
  BY DockerAssumption DEF Init, DockerInit, Exists
<1>2. NamesInv
  BY <1>1, DockerAssumption DEF NamesInv, Containers
<1>3. \A j \in Jobs : job[j].pc = "none"
  BY DEF Init, IdleJob
<1>4. ServicesInv /\ AtHandInv
  BY <1>3 DEF ServicesInv, AtHandInv, AtHand, StopPcs, ApplyPcs
<1>5. QED
  BY <1>2, <1>4, InitIInv DEF StepInv

LEMMA StepInvStep == StepInv /\ [Next]_vars => StepInv'
    BY StepIInv, ServicesStep, NamesStep, AtHandStep DEF StepInv

THEOREM StepInvariance == Spec => []StepInv
    BY InitStepInv, StepInvStep, PTL DEF Spec

\* Redeploys (runner.go:209) and deletes (585-609) remove what they claim, for any slugs,
\* also for those of which one begins with another.
THEOREM RemovalsAreClaimed == Spec => RemovesClaimed
<1>1. StepInv /\ [Next]_vars =>
         \A i \in Ids : Exists(i) /\ ctr'[i].life = "removed" =>
            \E j \in Jobs : job'[j] # job[j] /\ Claims(j, ctr[i])
  BY RemovedBy DEF StepInv
<1>2. QED
  BY <1>1, StepInvariance, PTL DEF Spec, RemovesClaimed

\* Whoever makes a container claims it.
LEMMA MakerClaims ==
    ASSUME StepInv, NEW j \in Jobs, NEW i \in Ids, Makes(j, i)
    PROVE  Claims(j, ctr'[i]) /\ job'[j] # job[j]
<1>1. job[j].pc = "create" /\ job'[j].pc = "start" /\ ctr'[i].name = Target(j)
  BY MadeAs DEF StepInv
<1>2. IsApply(j) /\ job[j].svc \in Event[j].services
  BY <1>1 DEF StepInv, IInv, ApplyInv, ServicesInv, ApplyPcs
<1>3. QED
  BY <1>1, <1>2 DEF Claims, Target

\* Only a job that claims it removes what j has started, and j itself removes only what has
\* the name of the service at hand.
LEMMA UndoneStep ==
    ASSUME StepInv, [Next]_vars, NEW j \in Jobs
    PROVE  Undone(j)' \subseteq Undone(j) \/ Disturbed(j)
<1>. SUFFICES ASSUME NEW v \in Behind(j)', ~Stands(j, v)', v \notin Undone(j)
              PROVE  Disturbed(j)
  BY DEF Undone
<1>0. IInv
  BY DEF StepInv
<1>1. v \in Behind(j)
  <2>1. StartContainer(j) /\ v = job[j].svc => Stands(j, v)'
    <3>1. ASSUME StartContainer(j)
          PROVE  Stands(j, job[j].svc)' /\ job'[j].svc = job[j].svc
      <4>1. job \in [Jobs -> JobRecords] /\ job[j] \in JobRecords
        BY <1>0 DEF IInv, TypeOK
      <4>2. job'[j].svc = job[j].svc
        BY <3>1, <4>1 DEF StartContainer, Goto, JobRecords
      <4>3. QED
        BY <1>0, <3>1, <4>2, StartStands
    <3>2. QED
      BY <3>1
  <2>2. QED
    BY <1>0, <2>1, BehindStep
<1>2. PICK i \in CreatedBy(j) : /\ ctr[i].name = ContainerName[Slug(j), v]
                                /\ ctr[i].life \notin {"none", "created", "removed"}
  BY <1>1 DEF Undone, Stands
<1>3. /\ i \in Ids /\ ctr[i].by = j
      /\ Exists(i)
      /\ ctr[i].life # "none" /\ ctr[i].life # "created"
  BY <1>2 DEF CreatedBy, Exists
<1>4. Evolves
  BY <1>0, StepEvolves
<1>5. ctr'[i].life = "removed"
  <2>1. /\ ctr'[i].by = j
        /\ ctr'[i].name = ContainerName[Slug(j), v]
        /\ ctr'[i].life \notin {"none", "created"}
    BY <1>2, <1>3, <1>4 DEF Evolves
  <2>2. QED
    BY <1>3, <2>1 DEF Stands, CreatedBy, Slug
<1>6. PICK k \in Jobs : /\ Claims(k, ctr[i])
                        /\ job'[k] # job[k]
                        /\ (RemoveOld(k) /\ ctr[i].name = Target(k)) \/ RemoveContainer(k)
  BY <1>3, <1>5, RemovedBy DEF StepInv
<1>7. /\ IsApply(j)
      /\ job[j].pc # "del_remove"
      /\ job[j].pc = "remove_old" => v # job[j].svc
      /\ v \in Event[j].services
  BY <1>0, <1>1 DEF Behind, IInv, ApplyInv, ApplyPcs
<1>8. k # j
  <2>1. SUFFICES ASSUME k = j
                 PROVE  FALSE
    OBVIOUS
  <2>2. RemoveOld(j) /\ ctr[i].name = Target(j)
    BY <1>6, <1>7, <2>1 DEF RemoveContainer
  <2>3. v # job[j].svc
    BY <1>7, <2>2 DEF RemoveOld
  <2>4. Slug(j) \in Slugs /\ job[j].svc \in Services /\ v \in Services
    <3>1. Event[j].services \subseteq Services
      BY DeployerAssumption
    <3>2. QED
      BY <1>0, <1>7, <3>1, EventFacts DEF IInv
  <2>5. QED
    BY <1>2, <2>2, <2>3, <2>4, DeployerAssumption DEF Target
<1>9. Claims(j, ctr[i])
  BY <1>2, <1>7 DEF Claims
<1>10. Claims(j, ctr'[i]) /\ Claims(k, ctr'[i])
  BY <1>3, <1>4, <1>6, <1>9, ClaimStays
<1>11. Exists(i) /\ ~Exists(i)'
  BY <1>3, <1>5 DEF Exists
<1>12. QED
  BY <1>3, <1>6, <1>8, <1>10, <1>11 DEF Disturbed

\* Stop has listed whatever there is, but for what others make meanwhile.
LEMMA UnlistedStep ==
    ASSUME StepInv, [Next]_vars, NEW j \in Jobs
    PROVE  Unlisted(j)' \subseteq Unlisted(j) \/ Disturbed(j)
<1>. SUFFICES ASSUME NEW i \in Ids, Exists(i)', job'[j].pc \in StopPcs,
                     Claims(j, ctr'[i]), i \notin job'[j].listed, i \notin Unlisted(j)
              PROVE  Disturbed(j)
  <2>1. ASSUME NEW i \in Unlisted(j)'
        PROVE  /\ i \in Ids /\ Exists(i)' /\ job'[j].pc \in StopPcs
               /\ Claims(j, ctr'[i]) /\ i \notin job'[j].listed
    BY <2>1 DEF Unlisted, Containers, Claims, IsApply, Slug
  <2>2. QED
    BY <2>1
<1>0. IInv /\ Evolves
  BY StepEvolves DEF StepInv
<1>1. ~IsApply(j)
  <2>1. IInv' => (job'[j].pc \in DeletePcs => ~IsApply(j))
    BY DEF IInv, DeleteInv, IsApply
  <2>2. QED
    BY <1>0, <2>1, StepIInv DEF StopPcs, DeletePcs
<1>2. CASE UNCHANGED ctr /\ job'[j].listed = Matching(Slug(j))
  <2>1. Exists(i)
    BY <1>2 DEF Exists
  <2>2. QED
    BY <1>1, <1>2, <2>1 DEF Matching, Containers, Claims
<1>3. CASE job[j].pc \in StopPcs /\ job'[j].listed = job[j].listed
  <2>1. CASE Exists(i) /\ ctr[i].life # "none"
    <3>1. Claims(j, ctr[i])
      BY <1>0, <2>1, ClaimStays
    <3>2. QED
      BY <1>3, <2>1, <3>1 DEF Unlisted, Containers
  <2>2. ASSUME NEW k \in Jobs, Makes(k, i), ~Exists(i)
        PROVE  Disturbed(j)
    <3>1. k # j
      BY <1>3, <2>2 DEF Makes, StopPcs
    <3>2. QED
      BY <2>2, <3>1, MakerClaims DEF Disturbed
  <2>3. QED
    BY <1>0, <2>1, <2>2, ThereBefore
<1>4. QED
  BY <1>0, <1>2, <1>3, HandSteps

\* The name that a redeploy has freed (209) stays free, but for what others make meanwhile.
LEMMA TakenStep ==
    ASSUME StepInv, [Next]_vars, NEW j \in Jobs
    PROVE  \/ Taken(j)' \subseteq Taken(j)
           \/ DockerCanFail /\ job[j].pc = "remove_old"
           \/ Disturbed(j)
<1>0. /\ IInv
      /\ job \in [Jobs -> JobRecords] /\ job[j] \in JobRecords
      /\ ctr \in [Ids -> CtrRecords]
  BY DEF StepInv, IInv, TypeOK
<1>1. CASE job'[j].pc # "create"
  BY <1>1 DEF Taken
<1>2. CASE job'[j].pc = "create" /\ job'[j] = job[j]
  <2>1. Target(j)' = Target(j) /\ job[j].pc = "create"
    BY <1>2 DEF Target, Slug
  <2>2. SUFFICES ASSUME NEW i \in Ids, Exists(i)', ctr'[i].name = Target(j), i \notin Taken(j)
                 PROVE  Disturbed(j)
    BY <1>2, <2>1 DEF Taken, Named, Containers
  <2>3. ~(Exists(i) /\ ctr'[i].name = ctr[i].name)
    BY <2>1, <2>2 DEF Taken, Named, Containers
  <2>4. PICK k \in Jobs : Makes(k, i) /\ ~Exists(i)
    BY <1>0, <2>2, <2>3, ThereBefore
  <2>5. k # j
    BY <1>0, <1>2, <2>4, MadeAs
  <2>6. Claims(j, ctr'[i])
    <3>1. IsApply(j) /\ job[j].svc \in Event[j].services
      BY <2>1 DEF StepInv, IInv, ApplyInv, ServicesInv, ApplyPcs
    <3>2. QED
      BY <2>2, <3>1 DEF Claims, Target
  <2>7. QED
    BY <2>2, <2>4, <2>5, <2>6, MakerClaims DEF Disturbed
<1>3. CASE RemoveOld(j) /\ ~DockerCanFail
  <2>1. Target(j)' = Target(j)
    BY <1>0, <1>3 DEF RemoveOld, Goto, Target, Slug, JobRecords
  <2>2. CASE Named(Target(j)) = {} /\ UNCHANGED ctr
    BY <2>1, <2>2 DEF Taken, Named, Containers, Exists
  <2>3. ASSUME NEW i \in Named(Target(j)), ctr' = CtrRemoved(i)
        PROVE  (Named(Target(j)) = {})'
    <3>1. /\ i \in Ids /\ ctr'[i].life = "removed"
          /\ \A k \in Ids \ {i} : ctr'[k] = ctr[k]
      BY <1>0, <2>3 DEF Named, Containers, CtrRemoved, CtrRecords
    <3>2. \A k \in Ids \ {i} : Exists(k) => ctr[k].name # Target(j)
      BY <2>3 DEF Named, StepInv, NamesInv, Containers
    <3>3. QED
      BY <2>1, <3>1, <3>2 DEF Named, Containers, Exists
  <2>4. QED
    BY <1>3, <2>2, <2>3 DEF RemoveOld, Taken
<1>4. RemoveOld(j) => job[j].pc = "remove_old"
  BY DEF RemoveOld
<1>5. QED
  BY <1>0, <1>1, <1>2, <1>3, <1>4, CreateComes DEF RemoveOld

\* What Stop should have listed (runner.go:568-617), the name a redeploy wants (206-211) and
\* what the kernel is told runs are not as they should be only because another job, that
\* claims the same container, has made or removed it; whatever crashes and fails, and
\* whatever the slugs.
THEOREM OthersUndo == Spec => OnlyOthersUndo
<1>1. ASSUME StepInv, [Next]_vars, NEW j \in Jobs
      PROVE  \/ /\ Undone(j)' \subseteq Undone(j)
                /\ Unlisted(j)' \subseteq Unlisted(j)
                /\ \/ Taken(j)' \subseteq Taken(j)
                   \/ DockerCanFail /\ job[j].pc = "remove_old"
             \/ Disturbed(j)
  BY <1>1, UndoneStep, UnlistedStep, TakenStep
<1>2. StepInv /\ [Next]_vars =>
         \A j \in Jobs :
            \/ UNCHANGED <<ctr, job[j]>>
            \/ /\ Undone(j)' \subseteq Undone(j)
               /\ Unlisted(j)' \subseteq Unlisted(j)
               /\ \/ Taken(j)' \subseteq Taken(j)
                  \/ DockerCanFail /\ job[j].pc = "remove_old"
            \/ Disturbed(j)
  BY <1>1
<1>3. QED
  BY <1>2, StepInvariance, PTL DEF Spec, OnlyOthersUndo

=============================================================================
