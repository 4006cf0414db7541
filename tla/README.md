# Deployment engine: models, checks and proofs

TLA+ models of the deployment engine: the supervisor of the sibling processes
(UMCs) and the installation of their binaries, the event subscriber with the
handlers that emit events, the compilation of deployments, and the jobs that drive
Docker. `PROJECT.json` maps every definition to the lines it models and lists runs,
mutants, findings, hazards and theorems. Line numbers without a file name are of
`internal/supervisor/supervisor.go`.

## The system

| Component | State | Operations | Interacts with |
|---|---|---|---|
| Supervisor (`supervisor.go`) | map `processes` under `s.mu` (RWMutex), each `UMCProcess` under `proc.mu`, `stopChan`, WaitGroup; binaries in the file system | StartUMC, StopUMC, StatusUMC, ListUMCs, RestartUMC, SetRestartPolicy, Shutdown, InstallUMC; one monitor goroutine per UMCProcess | `os/exec`, the file system, the UMCs' health endpoints |
| HTTP API (`api/handler.go`) | none | the routes for the supervisor; create and get of deployments | supervisor (calls, in one goroutine per request), kernel (events, KV) |
| Launcher (`cmd/serve/main.go` 28-117) | none | adds supervisor, HTTP server, reconciliation, event subscriber, in this order | `lifecycle` (not in the repository) |
| Event subscriber (`main.go` 231-364, 581-587) | the gRPC stream, `stopChan` | subscribe, receive, dispatch a goroutine per apply or delete | kernel |
| Deployment jobs (`main.go` 366-579) | local | processDeployment, processDeploymentDelete, emit with retries | compiler, runner, kernel |
| Compiler (`compiler.go`) | none | Compile, Validate, resolveSecrets | kernel (secrets) |
| Runner (`runner.go`) | temporary directories; the containers and images of the daemon | Execute, Stop, ReconcileContainers, buildImage, extraction, tarDirectory (a goroutine) | Docker, the servers of the archives |
| Manifest (`manifest.go`, `umcs.yaml`) | none | Parse, Validate | read once by the launcher |
| Deployment handler (`deployment/handler.go`), recipe reconciler | none | Deploy, Delete, GetStatus; ResolveRecipe | kernel; HTTP. Neither has a caller |
| Syscall client (`syscall/client.go`) | none | one gRPC call each | kernel |

What makes it hard, and what correctness means:

* **Supervisor.** The monitor, requests and Shutdown interleave; `Running` and the
  policy are read without `proc.mu`; `Wait` is called on one Cmd from three
  goroutines; locks are held while the code waits for a process or a health
  check. Correct: one live process per UMCProcess (and per name), `Running`
  agrees with the process, no live process without a monitor, a crashed UMC comes
  back, Shutdown stops everything, every call returns.
* **Install.** Requests for one name share a path; the hash is of the stream, the
  rename of a file; any step may fail, or be the last before a crash. Correct: what
  StartUMC finds is a complete, verified binary or nothing.
* **Subscriber and events.** Streams fail, the kernel restarts, calls fail after they
  took effect. Correct: the subscriber reconnects, dispatches no event twice or out of
  order, and ends when stopped; what is announced is stored.
* **Compilation and images.** Secrets are fetched one by one; references
  of images are shared by jobs, and by what is pulled and what is built; errors in the daemon's streams are not read; a goroutine streams
  a directory that a deferred call removes. Correct: nothing runs with a missing secret
  or under a reference that is not its own, no context is cut off, nothing is left behind.
* **Jobs and runner.** Jobs run concurrently without any order per application and
  share the containers; daemon calls fail one at a time; containers crash; the
  engine crashes and reconciles. Correct: what is reported is true, every
  apply is answered, a delete removes the application and nothing else.

`hazards` in `PROJECT.json` lists these at their lines, with the properties that would
catch them, or why none does.

## Modules

| Module | Models |
|---|---|
| `ExecCmd` | `os/exec.Cmd` and its process (external): `Wait` step by step, since the supervisor calls it concurrently |
| `Supervisor` | the supervisor, its requests, the launcher's calls; extends `ExecCmd` |
| `Lifecycle` | abstract: what the supervisor promises of each UMCProcess |
| `Backoff` | the delay before a restart (580-603), the data `Supervisor` leaves out |
| `Install` | InstallUMC and copyFile (360-478) over the file system |
| `Binaries` | abstract: what InstallUMC promises of the binaries |
| `EventSubscriber` | the receive loop and the kernel's stream |
| `Dispatch` | abstract: what the subscriber promises of the events |
| `Deployments` | the deployment routes and the deployment handler; extends `EventSubscriber` with who emits |
| `Compiler` | from an event's payload to a compiled graph |
| `Images` | builds, pulls and the creation of containers; extends `Compiler` |
| `Docker` | the daemon's containers (external): the runner's calls and restarts by the policy unless-stopped |
| `Deployer` | the jobs, Execute, Stop, reconciliation and crashes of the engine; extends `Docker` |
| `MCSupervisor`, `MCInstall`, `MCDeployments`, `MCImages`, `MCDeployer` | constants for TLC |
| `SupervisorProofs`, `LocksProofs`, `BackoffProofs`, `InstallProofs`, `DeploymentsProofs`, `ImagesProofs`, `DeployerProofs` | theorems |

### Supervisor

`call[x]` is the goroutine of request x or of the launcher (`Boot`): its program
counter, the operation that called (`op`, where a call returns to) and its local
variables. `mon[p]` is the monitor of UMCProcess p, `proc[p]` its fields,
`processes` the map. `owner` records for which UMCProcess a Cmd was started.

A critical section of `s.mu` is one step; ListUMCs, which keeps the read lock
across calls, is in `reading`. A writer that waits makes a new RLock wait, as
`sync.RWMutex` specifies: `WriterWaits`. A critical section of `proc.mu` is one
step unless the code blocks in it (`StopAcquire` to `StopReturn`,
`StatusAcquire` to `StatusHealth`); then `pmu[p]` is the holder. The unlocked
reads of `Running` are steps or guards of their own. `RestartPolicy` is written
under `s.mu` and read under `proc.mu`: a data race on a string, so the monitor
may read a torn value that matches no case (`PolicyReads`).

StartUMC may fail for any reason when `StartCanFail`; beyond the bounds on
identities it always does. A process may exit at any time with success or failure,
so SIGINT needs no state. Contexts: a request's is done when its handler has
returned; the launcher's is never cancelled (`BootCtx = NoCtx`) or cancelled with
the shutdown (`BootCtx = Boot`), because that is decided outside the repository.
Requests may arrive during Shutdown for the same reason.

`Lifecycle` knows of each UMCProcess its live processes and whether it is watched. The
refinement mapping takes the live Cmds that `owner` assigns to it, and its
monitor: not started, running, left.

`Blocked` and `WaitsFor` say who waits for whom: for s.mu (`Writing`, `RLocking`), for a
proc.mu (`ProcLocking`) or in a Wait. They read off `call`, `pmu` and `reading` and add
no state.

### Backoff

One step is one exit that leads to a restart. `up` is the time between the end of
the delay and the exit; `LastRestartAt` is set before the delay, so the time
compared with five minutes is `backoff + up`.

### Install

A path (`temp[n]`, `target[n]`) leads to an inode, `file[i]`; a request has inodes open
and goes on writing to them whatever becomes of the paths, as in the code, where Chmod,
Rename and Remove take the path while io.Copy writes to the open file. A binary takes
`Blocks` writes, each of which may be corrupt (`Bad`); the hash of the stream is whether
all of them were right (`intact`). Every failure goes to the deferred os.Remove, which
removes whatever is at the path then, or fails itself without anybody looking (`RemoveFails`). `Crash` ends the requests and leaves
the files. `tainted` and `alone` are history: the first says that the file at the target
may be none of the binaries, since two installs overlapped or the copy that
replaces a failed rename is under way or broke off; an install that nobody overlapped
clears it.

`Binaries` has one value per name instead: the binary, no binary, or unknown. The mapping
(`BinaryOf`, `StageOf`, `AloneOf`) reads it off the file at the target, unknown if tainted. The
write of a block, the chmod and a rename that fails are stutters; the rename that
succeeds, or the last block of the copy that stands in for it, is the one step `Put`.

### EventSubscriber, Dispatch and Deployments

`EventSubscriber` is the two nested loops with their selects. `events` is what the kernel
has emitted, `pending` the part of it that is on its way in the stream; a stream that
broke stays broken, and what was on its way is lost. `jobs` records for which event each
goroutine was started. `RecvEvent` is the dispatch, `Receive` of `Deployer`: a payload that
cannot be marshalled starts nothing. The kernel goes down and up at will.

`Dispatch` is what is promised of `events` and `jobs`, without streams: jobs are for
requests, in their order, none twice. `Deployments` adds who emits: each call of a route or
of the handler is a few calls to the kernel, one step each; a call that fails may have
taken effect. `kv[d]` is who has stored the specification of deployment d.

### Compiler and Images

`payload[j]` is what job j was given, `comp[j]` its compilation: services in any order,
each secret of a service one call to the kernel. What the conversion in
processDeployment does to the payload is kept: of two services with one name the later
stays, and networks do not reach the graph (`GraphNetworks`), so that a service that
names one does not validate. A reference that does not match `secretPattern` stays in the
environment as it is and is no secret here.

In `Images`, `job[j]` is Execute up to the creation of each container. An archive is the
sequence of the sizes of its files; `Extract` copies at most what is left of the limit and
one byte. `tar[j][n]` is the goroutine that writes the directory to the pipe which
ImageBuild reads; `ClosePipe` and `RemoveAll` are the deferred calls, in their order.
`StreamEnds` and `Pull` may leave the daemon without the image, because what
their streams say is discarded, and a call that fails may have taken effect
(`MayTag`). `images` is the daemon's: what it has under each
reference, of one namespace in which the tag of a build (`BuildTag`) may be a
name that a payload pulls. `RemoveAll` may leave the directory, as its error is not looked
at. What follows the
creation of a container, and what Stop and the reconciliation do, is in `Deployer`, which
in turn takes "the image is there or not" as a failure of the create.

### Docker and Deployer

`ctr[i]` is a container; names are unique among existing ones, a create is
refused otherwise. When a process exits, unless-stopped makes the container
`restarting`, which inspect reports as running, until the daemon has started it
(or could not). `job[j]` is the goroutine of event j; every call to Docker or the
kernel is one step, with the failures of that call: `DockerCanFail` and
`EmitCanFail` add failures for reasons not modelled. A failed emit may have reached
the kernel. `seen[j]` (what the kernel was told), `job[j].listed` (what a delete listed)
and `ctr[i].by` (the creator) are history for the properties. NextService may refuse the
graph before the first service, for any reason: that stands for Validate. `Crash` loses the jobs; `Boot` and `Reconcile` are
ReconcileContainers, which the launcher runs before the subscriber.

## Runs

Passing:

| Run | Instance | Properties |
|---|---|---|
| `supervisor` | 1 name, 2 UMCProcesses, 2 Cmds; 2 concurrent requests, each a start, restart, status, list or policy; starts fail; the launcher's Cmds are bound to its context, which nobody cancels as there is no shutdown | TypeOK, Supervised, NotRunningMeansDead, StopHoldsItsProc, OnlyKnownDeadlocks, KeepsLifecycle |
| `supervisor_live` | 1 UMCProcess, 3 Cmds (two monitor restarts); a status request and Shutdown; fairness | OneLivePerProc, KeepsLifecycle, CrashRestart, ShutdownReturns, RequestsReturn |
| `backoff` | uptimes at and around every threshold (60, 240, 300 seconds less each delay) | FollowsSequence, ShrinksOnlyAfterLong |
| `install` | 3 installs of one UMC, two of one version and one of another; binaries of 2 writes, 3 inodes, 1 crash | TypeOK, InstalledIsVerified, TempRemoved, InstallsAtomically |
| `events` | a Deploy with an exposed service, a Delete and a status request of one deployment, 2 requests of the server, a kernel that goes down and up; fairness | TypeOK, AnnouncedIsStored, AtMostOnce, StopEnds |
| `images` | 2 applies of one application, each with any of 8 payloads (2 refs, built and pulled services, one name twice, secrets, and 5 that must fail; one service names the reference another is built under), archives at the limit and a byte above it; fairness | TypeOK, SecretsResolved, RunsItsReference, ExtractedWhole, ContextIntact, TarEnds |
| `deployer` | 2 applies of `app` (2 services; the newer 1), its delete, a container of `app-web`, whose names begin with `app-` as well, 4 containers; calls fail, containers crash | StagesTruthful, DeleteRemovesListed, RemovesClaimed, OnlyOthersUndo |
| `deployer_live` | an apply and the delete over an unlabelled older container; emits fail, 2 crashes of the engine; the daemon refuses nothing; fairness | TypeOK, EndsAnswered, NoneStranded, Answered, StoppedRestarted |

What they say:

* *Supervised*: until stopChan is closed every live process has a monitor that has yet to
  see it exit. *OneLivePerProc*: a UMCProcess never has two live
  processes. *NotRunningMeansDead*: `Running` is not false over a live Command.
  *StopHoldsItsProc*: the Command that StopUMC signalled is the one it waits for and
  clears `Running` for. *OnlyKnownDeadlocks*: whoever is in a call waits, over at most three
  others, for one that can go on, or for one in one of two deadlocks: ListUMCs at its
  recursive RLock behind a writer (272), and StopUMC in the second Wait of a Cmd
  whose result another Wait has taken (223). *KeepsLifecycle*: the supervisor implements `Lifecycle`, in which
  a process is only started over a dead one and while the UMCProcess is watched, and the
  watch ends only over a dead one or in the shutdown. *CrashRestart*: a monitored UMC with
  policy always whose Command has died gets another, until the shutdown, provided that it
  can be started: a restart that fails ends the monitoring (631-634), and the run has none.
  *ShutdownReturns*, *RequestsReturn*: in spite of the locks held over waits and health
  checks every StopUMC of Shutdown, and the status request of the run, comes back; the last
  wait of Shutdown, for the monitors, ends with its context if need be.
* *FollowsSequence*: the delays are 1, 2, 4, ..., 32, 60. *ShrinksOnlyAfterLong*: the
  delay does not shrink but for a restart more than five minutes after the last was
  decided, the delay included.
* *InstalledIsVerified*: what StartUMC would run is absent, or a complete, executable binary
  that a checksum named, also in the middle of an install and after a crash, unless the name
  is tainted. *TempRemoved*: the temporary file goes with the last install of its name;
  only a crash, or a removal that fails, leaves it. *InstallsAtomically*: `Install` implements `Binaries`, in which an
  install that no other of its name overlaps replaces the binary in one moment, or not at
  all, and is reported as successful only after that.
* *AnnouncedIsStored*: who hears of a deployment from Deploy (which has no caller; POST
  announces without storing) finds its specification, and no
  exposure comes before its deployment. *AtMostOnce*: the subscriber and all who emit
  implement `Dispatch`. *StopEnds*: a stop ends the goroutine, unless it waits
  for an event on a healthy stream.
* *SecretsResolved*: a container is created only for a deployment that validates and has all
  secrets of all its services. *RunsItsReference*: a container runs what was pulled or built
  under the reference of its service: the image it names, or the tag of its application,
  service and ref (not necessarily by its own job, nor of its own kind, see the disagreements
  below). *ExtractedWhole*: what is sent to the daemon was extracted to the end of each file,
  and no more than one byte above the limit is ever on disk. *ContextIntact*: the
  directory is there as long as it is walked, and every path tries to remove it. *TarEnds*: the
  goroutine that walks it ends.
* *StagesTruthful*: what the kernel is told of an apply (starting, deployed, success)
  implies that a container of this job was started for each service.
  *DeleteRemovesListed*: a delete without errors has removed every container it listed.
  *RemovesClaimed*: a container is removed only by a step of a job that claims it: an apply
  the names it creates, a delete the label or the prefix, although a redeploy removes by
  name and a delete, long after its listing, by id. So an application loses
  containers only to jobs of its own slug, or of a slug with which its names begin.
  *OnlyOthersUndo*: what an apply or a delete has achieved (a service that Execute has
  behind it or that the kernel was told of stands; Stop has listed all it claims; the name that a
  redeploy freed is free) is undone only by another job that claims the same container, or,
  for the name, by a removal that the daemon refuses; never by a step of its own, a crash, a
  reconciliation, or a job that claims others. Nothing in the code keeps jobs with
  common claims apart; some of the disagreements below are what comes of that.
  *EndsAnswered*: an apply that is over, and has told the kernel or created
  anything, has been answered, with one result and never both, unless five attempts
  failed. *NoneStranded*: if the daemon refuses nothing, a container that was created is
  about to be started by a job whenever the engine is up, also after crashes between
  the two calls. *Answered*: an apply that got to an answer gives it in the end, unless five
  attempts failed or the engine crashed. *StoppedRestarted*: what a starting engine
  finds stopped runs again or is removed, if the daemon refuses nothing: a start that fails is
  not tried again before the next start of the engine.

Why the bounds are enough. The races of the supervisor are between a monitor and one or
two calls on one UMCProcess; a second UMCProcess is what a restart makes of the name, and
calls hold no lock on one UMCProcess while they wait for another, so more names add no
waiting. Two Cmds give each UMCProcess a process to be raced for; three give a monitor
two restarts. Installs of different names share nothing, so one name is enough; three
requests give an overlap of two and one that follows or tells them apart by its version,
and two writes give a binary that is half written. Two requests of the server make an
order, and one emitting call of each kind in any of its states stands beside them. Two
applies share every reference and container name that any number would share. For the jobs, two
of one application suffice for every race between two
Docker calls; the delete is the third party that works on a listing, and `app-web`
is the other application, part of which the delete claims and the applies do not. Two services give an Execute that has one
done and one before it. Two crashes let the engine crash during its reconciliation.
Bounds are on identities (`Procs`, `Cmds`, `Inodes`, `Ids` of containers), events
(`MaxRequests`) and crashes; beyond
them a start or a create fails, which the code can meet anyway. The theorems below
lift the safety properties from the
bounds. Deadlock is not checked where the system may stop: all requests served, all
jobs done, no identity left.

Expected violations, each a disagreement of the code with its own comments (`findings`
quotes them):

| Run | Property | What happens |
|---|---|---|
| `supervisor_one_per_name` | AtMostOneLivePerName | RestartUMC and the monitor both start the UMC |
| `supervisor_list_deadlock` | ListReturns | recursive RLock with a writer in between |
| `install_overlap` | VerifiedIsRenamed | a second install empties the file that the first has verified and is about to rename |
| `subscriber_reconnect` | Reconnects | the break leaves the select, not the loop |

Known disagreements without a run of their own; the models do what the code does, and no
property claims the contrary:

* "Shutdown gracefully stops all managed UMCs" (278), but a monitor that is between two
  processes restarts its UMC before stopChan is closed (294) and then leaves it running;
  so does a start request that is served after the list of UMCs was taken.
* A UMC that a request starts is bound to that request's context (`handler.go:119-120`),
  and killed when the handler has returned; the monitor then starts it anew without one.
* The second Wait of StopUMC (223) may block for ever, with `proc.mu` held, on a Cmd of
  CommandContext whose result another Wait has taken; the comment at 210 says
  "Wait with timeout".
* RestartUMC starts "with the same configuration" (339), but the new UMCProcess has the
  policy always and a fresh backoff (161-162).
* The manifest's `restart_policy` (`umcs.yaml:8`) is parsed and dropped (`main.go:154`).
* "Reset backoff if healthy for 5 minutes" (596) counts from before the delay, so that up
  to a minute of waiting counts as health.
* "docker image built successfully" (`runner.go:438`) is logged whatever the output of the
  build says, and a pull is taken for complete (`runner.go:149`); what then runs may be an
  older image, or one that a concurrent job built under the same tag.
* The tag of a build, `<slug>/<service>:<ref>` (`runner.go:357`), and the image of a service
  (110) are references of one namespace, and nothing keeps them apart: where they coincide, and
  the errors of a pull or build are in its stream, a service runs the image of another.
  The run has such a payload.
* The volumes and networks of a payload are not passed on (`main.go:403-409`): the volumes
  "declared in the deployment spec" (`runner.go:82`) are never created for it, and a
  service that names a network never validates.
* A delete is handled in a goroutine of its own and may overtake an apply received
  before it; "all containers that belong to the deployment" (`main.go:481`) then
  lacks those that the apply creates afterwards.
* A delete matches containers by the prefix `<slug>-` of their names too
  (`runner.go:601`), so that the delete of `app` removes the containers of `app-web`.
* Two applies of one application may collide between the removal and the creation of a
  name: "idempotent redeploy" (`runner.go:206`) then fails with a conflict, or the older
  one, overtaking the newer, replaces what that has reported as deployed.
* A container that crashes at once is `restarting` under unless-stopped, and its
  State.Running is true: the stability check, there "to catch immediate crashes"
  (`runner.go:277`), passes it when the daemon is restarting it.
* An inspect that fails passes the check as well, although `main.go:464` says that it
  "verified the container is still running".

Every property of a passing run has a mutant: a change of one modelled definition
that a plausible bug would make, kept next to that definition, under which TLC
finds the property violated.

## Fairness

`Supervisor`: weak fairness of every goroutine (Go schedules it, its mutexes are
starvation-free, timers fire) and of the context watcher. No process need exit, no
request arrive, no shutdown be asked for. Requests that restart are left out of
the liveness runs: their second Wait (223) may block for ever, see above. That Shutdown
does not wait for ever for the monitors (301) supposes that the context of Stop has a deadline,
which the lifecycle package decides, outside the repository. `Deployer`: weak fairness of each job's next step, which supposes that
Docker and the kernel answer each call (the engine sets no time limit on them), and
of the start of the engine after a crash. `EventSubscriber` and `Deployments`: weak
fairness of the subscriber's goroutine only; the kernel need not come back, and nobody need
emit. `Images`: weak fairness of each job and of each walk, under the same supposition on the
calls as in `Deployer`; each of them may fail.

## Proofs

For every value of the constants (under the named assumptions of the modules, which
only say that the identities are distinct, that the parameters have their types, that the
daemon's older containers have different names, and that two services of one slug do; no
theorem assumes anything of how slugs, names and references of different applications relate):

The inductive invariants and their parts are defined at the head of the proof modules; the
model modules hold what the code does and what is checked of it.

* `SupervisorProofs`: `TypeOK`, `OneLivePerProc`, `NotRunningMeansDead`,
  `StopHoldsItsProc` and `Supervised` are invariants. None but the first is
  inductive. The invariant `IInv` adds: what the map, the monitors and the callers refer
  to exists and belongs together (`WellFormed`); a Wait that is past its process
  has seen it dead, and ProcessState is set for dead processes only
  (`WaitersSawExit`); a monitor that waits does so for the current Command, and one that
  restarts has a dead Command (`MonitorFollows`); every live Cmd is the current
  Command of a monitor at the loop head or waiting, or the one its monitor is
  about to publish (`LiveIsCurrent`). The argument: only the monitor replaces Command,
  and only after its Wait, which returns no earlier than the process is dead even when
  it returns an error; StopUMC holds `proc.mu` from the signal to `Running = false`, so
  that no Command is published under it; hence it clears `Running` over the Command that
  its own Wait has seen dead.
  From `IInv` follows also the refinement, `SupervisorImplementsLifecycle`: a step that
  starts maps to Start because no live Cmd of that UMCProcess is left (`LiveIsCurrent`), an
  exit or a kill to Die because it was the only one, a leaving monitor to GiveUp because
  it has seen its Command dead or stopChan closed, and all others to a stutter.
* `LocksProofs`: `OnlyKnownDeadlocks`, for any numbers of names, UMCProcesses and requests. It
  needs `LocksInv` beside `IInv`: a proc.mu that is held is held by a caller in
  StopUMC or StatusUMC of that UMCProcess (`HoldersHold`), who reads over several steps is
  in ListUMCs (`ListReads`), StopUMC in its second Wait has killed its Command
  (`KillsAreDead`), and a Wait for a context's result has a context
  (`CtxHasWatcher`). The argument orders the waiting: a new reader waits for a writer, a
  writer for ListUMCs, ListUMCs for the holder of a proc.mu, and that holder for
  no lock, but for a process that it has killed or whose interrupt has a timeout; so the
  chain ends after three. The exceptions are where the code breaks the order, and
  `OnlyListRecurses` shows that without list requests nobody waits for s.mu while he
  reads.
* `BackoffProofs`: the two properties of `Backoff`, for any uptimes; `IInv` ties the
  next delay to the number of quick exits.
* `InstallProofs`: `TypeOK`, `InstalledIsVerified` and `TempRemoved`, for any number of
  requests, names, binaries and crashes. `IInv` adds: a file is at one path at most
  (`PathInv`); what a request writes to is at no path of another name (`OpenInv`); a
  request that nobody of its name has overlapped has the temporary file to itself and has
  written there what its hash says (`AloneInv`); whoever overlaps or copies taints
  (`TaintInv`). So only a request that taints the name can change a file at the target, and
  the rename puts a verified file there or leaves the name tainted. A removal that fails
  leaves a file that the next os.Create opens again (`PathInv` and `OpenInv` allow for it).
  `InstallsAreAtomic` is the refinement of `Binaries`, from the same invariant, one lemma per
  step (`CreateMaps` to `CrashMaps`): by `AloneInv` what an install that is alone
  renames is the whole binary its checksum names, by `TaintInv` a step that changes a
  target otherwise is one of a tainted name, where the abstract binary is unknown before and
  after.
* `DeploymentsProofs`: `TypeOK`; `AnnouncedIsStored` through `StoreInv` (a call that is past
  its save has stored something, and nobody removes it); and `AtMostOnce`: every step maps
  to a step of `Dispatch` or a stutter, because what is in the stream is in the order of the
  events and later than all that got a job (`PendingInv`); a new subscription
  starts with what is emitted from then on. `JobsInOrder` draws the consequence: in every
  state the jobs are those of requests, in their order, and no request has two.
* `ImagesProofs`: `TypeOK`, `SecretsResolved`, `RunsItsReference`, `ExtractedWhole` and
  `ContextIntact`. `IInv` follows a job: its compilation has resolved what is compiled
  (`CompInv`), Execute has a complete and valid graph (`GraphInv`) and is at one of its
  services (`AtInv`), an extraction that goes on has cut off no file (`ExtractInv`), the
  directory is there from the download to the last deferred call and its walk ends before
  (`TarInv`); and the daemon: under a reference is what was pulled or built under it
  (`ImagesInv`), a container's job has compiled (`CtrInv`). Which of two services of one name counts is a
  CHOOSE of the last; that it exists takes the well-foundedness of the naturals.
* `DeployerProofs`: `TypeOK`, `StagesTruthful` and `DeleteRemovesListed` are invariants,
  with crashes and any failing calls. `IInv` says for each job where it stands:
  `ApplyInv`, that Execute has a started container for each service it is done with, and
  the one at hand is its own, so that nothing is told before all are up; `DeleteInv`, that
  unless an error was collected all that is no longer in the list or at hand is gone.
  Both survive the steps of others because of what all steps on containers have in common
  (`Evolves`): name, label and creator stay, a started container does not become
  merely created, and a removed one does not come back.
  `EndsAnswered` adds `AnswerInv` for each job (before the first stage nothing is reported or
  created, and a result that is reported is the one being emitted), so that the early
  returns that answer nothing are those that did nothing. `NoneStranded` adds
  `StrandInv`: an engine that is not up has no job, and each created container is on the list
  of the engine that reconciles; a crash between the create and the start is
  thus caught before any event is handled.
  `RemovesClaimed` and `OnlyOthersUndo` are action properties that hold in every step
  from `StepInv`: `IInv`, and that Execute works off the services of its
  event (`ServicesInv`), that no two containers that exist have one name
  (`NamesInv`), and that a delete claims all it has listed and has at hand (`AtHandInv`).
  A claim depends on name and label, which stay (`ClaimStays`), so a delete removes what it
  claims however late (`RemovedBy`). For `OnlyOthersUndo` there is a lemma for each of the three
  achievements (`UndoneStep`, `UnlistedStep`, `TakenStep`): a job that moves itself loses
  none, since Execute removes only the name at hand, which is not one it has behind it; a
  container that comes or goes otherwise has a maker or a remover, who claims it
  (`MakerClaims`). Neither assumes that jobs come in turn or that no slug begins with another.

Only model-checked: what holds under fairness (`CrashRestart`, `ShutdownReturns`,
`RequestsReturn`, `StopEnds`, `TarEnds`, `Answered`, `StoppedRestarted`) and the refuted
properties; every other property of a passing run is a theorem. Liveness and ENABLED, recursive definitions and induction over data are out of the prover's reach.

## Not modelled

* The search for the executable and the environment of the processes: they decide whether a
  start fails, which it may at any time.
* The PID file of cron-engine (170-179), which nothing in the repository reads.
* The path checks of the extraction, volumes, ports, exposures and the text of
  environments in a deployment: functions of data on which no other state depends.
* Parsing and validation of the manifest: pure checks of one file, before anything runs. The
  names it lists are `Manifest` in `Supervisor`.
* The recipe reconciler: one HTTP request, no state, no caller.
* A second call of Shutdown: how often it is called is decided by the lifecycle package,
  outside the repository.
* A crash of the engine in the middle of a build, which leaves its temporary directory: `Crash`
  is in `Deployer` and `Install`.
* Logging and HTTP encoding.

## Plan

Done: the modules above, each with its runs, and proofs of all their safety properties.
What could follow, in this order:

1. An abstract specification of an application (absent, deployed) that `Deployer`
   implements where it does, and `EventSubscriber` composed with `Deployer` through its
   dispatch, so that jobs are bound to events and their loss.
2. `Manifest` and the path checks of the extraction as operators against a reference
   definition.
3. `Images` and `Deployer` as one module, if the state space allows.
