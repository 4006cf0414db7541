---------------------------- MODULE Supervisor ----------------------------
(***************************************************************************)
(* The UMC supervisor: starts, monitors, restarts and stops the sibling    *)
(* processes (UMCs) of the deployment engine.                              *)
(*                                                                         *)
(* Goroutines: Boot is the launcher, which starts the UMCs of the manifest *)
(* and shuts the supervisor down; every Request is one HTTP request; every *)
(* UMCProcess has one monitor goroutine, started by StartUMC and counted   *)
(* by the WaitGroup.  They share the map `processes` under the RWMutex     *)
(* s.mu, each UMCProcess under its mutex proc.mu (and, where the code      *)
(* takes no lock, without), and the exec.Cmd of the process.               *)
(*                                                                         *)
(* A critical section of s.mu held by a writer is one step; the read lock  *)
(* that ListUMCs keeps across other calls is the variable `reading`.  A    *)
(* critical section of proc.mu is one step unless the code blocks inside   *)
(* it: StopUMC waits for the process and StatusUMC for the health check    *)
(* while `pmu` names them as the holder.                                   *)
(***************************************************************************)
EXTENDS ExecCmd, FiniteSets

CONSTANTS
    Names,          \* UMC names
    Procs,          \* identities of *UMCProcess values
    NoProc,         \* a name that has no entry
    Requests,       \* HTTP requests, each served by a goroutine
    Boot,           \* the goroutine of the lifecycle launcher
    Free,           \* the owner of an unlocked mutex
    Ops,            \* the operations the requests may ask for, and "shutdown"
    Manifest,       \* the UMC names the manifest lists
    StartCanFail,   \* an executable may be missing or not start
    BootCtx         \* Boot if the launcher's context can be cancelled, else NoCtx

Callers  == Requests \cup {Boot}
Policies == {"always", "on-failure", "never"}

ASSUME SupervisorAssumption ==
    /\ Names # {}
    /\ NoProc \notin Procs
    /\ Boot \notin Requests
    /\ Free \notin Callers
    /\ NoCtx \notin Requests
    /\ Ops \subseteq {"start", "restart", "status", "list", "policy", "shutdown"}
    /\ Manifest \subseteq Names
    /\ StartCanFail \in BOOLEAN
    /\ BootCtx \in {Boot, NoCtx}

VARIABLES
    processes,  \* s.processes: [Names -> Procs or NoProc]
    proc,       \* proc[p]: the UMCProcess p
    mon,        \* mon[p]: the monitor goroutine of p
    pmu,        \* pmu[p]: the caller that holds p.mu across steps, or Free
    reading,    \* the callers that hold s.mu.RLock across steps
    stopChan,   \* s.stopChan is closed
    call,       \* call[x]: the goroutine x
    owner       \* owner[c]: the UMCProcess that Cmd c was started for

vars == <<cmd, wt, processes, proc, mon, pmu, reading, stopChan, call, owner>>

\* The goroutines that call Wait: a monitor, the helper of a StopUMC, its caller.
Monitor(p)    == <<"monitor", p, p>>
Helper(x, p)  == <<"helper", x, p>>
Killer(x, p)  == <<"killer", x, p>>
Waiters == {Monitor(p) : p \in Procs}
             \cup {Helper(x, p) : x \in Callers, p \in Procs}
             \cup {Killer(x, p) : x \in Callers, p \in Procs}

Ctxs == Requests \cup {Boot, NoCtx}

ProcRecords ==
    [name : Names, Command : Cmds \cup {NoCmd}, Running : BOOLEAN,
     RestartPolicy : Policies, made : BOOLEAN]

MonitorRecords ==
    [pc : {"off", "top", "wait", "backoff", "sleep", "publish", "done"},
     new : Cmds \cup {NoCmd}]

CallPcs == {"idle", "boot", "run", "start", "restart", "stop_lookup", "stop_check",
            "stop_acquire", "stop_wait", "stop_kill", "status_lookup",
            "status_acquire", "status_health", "list", "list_next", "policy",
            "shutdown", "shutdown_next", "shutdown_wait", "done"}
CallOps == {"none", "boot", "shutdown", "start", "restart", "status", "list", "policy"}

CallRecords ==
    [pc : CallPcs, op : CallOps, name : Names, proc : Procs \cup {NoProc},
     todo : SUBSET Names, policy : Policies, res : {"none", "ok", "error"}]

TypeOK ==
    /\ cmd \in [Cmds -> CmdRecords(Ctxs)]
    /\ wt \in [Waiters -> WaitRecords]
    /\ processes \in [Names -> Procs \cup {NoProc}]
    /\ proc \in [Procs -> ProcRecords]
    /\ mon \in [Procs -> MonitorRecords]
    /\ pmu \in [Procs -> Callers \cup {Free}]
    /\ reading \subseteq Callers
    /\ stopChan \in BOOLEAN
    /\ call \in [Callers -> CallRecords]
    /\ owner \in [Cmds -> Procs \cup {NoProc}]

AnyName == CHOOSE n \in Names : TRUE

Init ==
    /\ cmd = [c \in Cmds |-> FreshCmd]
    /\ wt = [w \in Waiters |-> IdleWait]
    /\ processes = [n \in Names |-> NoProc]
    /\ proc = [p \in Procs |-> [name |-> AnyName, Command |-> NoCmd, Running |-> FALSE,
                                RestartPolicy |-> "always", made |-> FALSE]]
    /\ mon = [p \in Procs |-> [pc |-> "off", new |-> NoCmd]]
    /\ pmu = [p \in Procs |-> Free]
    /\ reading = {}
    /\ stopChan = FALSE
    /\ call = [x \in Callers |->
                 [pc |-> IF x = Boot THEN "boot" ELSE "idle",
                  op |-> IF x = Boot THEN "boot" ELSE "none",
                  name |-> AnyName, proc |-> NoProc,
                  todo |-> IF x = Boot THEN Manifest ELSE {},
                  policy |-> "always", res |-> "none"]]
    /\ owner = [c \in Cmds |-> NoProc]

-----------------------------------------------------------------------------
\* The locks.

\* Where a caller is at s.mu.Lock, at s.mu.RLock and at proc.mu.Lock.
Writing     == {"start", "stop_lookup", "policy", "shutdown"}
RLocking    == {"restart", "status_lookup", "list"}
ProcLocking == {"stop_acquire", "status_acquire"}

\* A writer blocked in s.mu.Lock makes every new RLock wait.
WriterWaits == \E x \in Callers : call[x].pc \in Writing
CanRLock    == ~WriterWaits
CanLock     == reading = {}
ProcUnlocked(p) == pmu[p] = Free

Unused == {p \in Procs : ~proc[p].made}

Goto(x, pc) == call' = [call EXCEPT ![x].pc = pc]

\* The call of x comes back: within the launcher's Start and Shutdown and within
\* ListUMCs the loop goes on, a request ends.
ReturnsTo(op) == CASE op = "boot" -> "boot"
                   [] op = "shutdown" -> "shutdown_next"
                   [] op = "list" -> "list_next"
                   [] OTHER -> "done"

\* Start and ListUMCs drop the results of their calls, Shutdown collects the errors.
Result(x, res) == IF call[x].op \in {"boot", "list"} \/ call[x].res = "error"
                  THEN call[x].res ELSE res

Return(x, res) ==
    call' = [call EXCEPT ![x] = [@ EXCEPT !.pc = ReturnsTo(call[x].op), !.proc = NoProc,
                         !.res = Result(x, res)]]

-----------------------------------------------------------------------------
\* Requests, and the launcher's own sequence of calls.

\* The launcher starts the HTTP server after the supervisor; in which order it stops
\* them is not in this repository, so requests may arrive during Shutdown.
ServerUp == call[Boot].pc = "run" \/ call[Boot].op = "shutdown"

\* The handler of SetRestartPolicy accepts the three policies only.
AnyPolicy(policy) == TRUE      \* mutant: no validation
ValidPolicy(policy) == policy \in Policies

BeginRequest(x) ==
    /\ ServerUp
    /\ call[x].pc = "idle"
    /\ \E op \in Ops \ {"shutdown"}, n \in Names, policy \in Policies \cup {"other"} :
          /\ ValidPolicy(policy)
          /\ op # "policy" => policy = "always"
          /\ call' = [call EXCEPT ![x] = [@ EXCEPT !.op = op, !.name = n, !.policy = policy,
                         !.pc = IF op = "status" THEN "status_lookup" ELSE op]]
    /\ UNCHANGED <<cmd, wt, processes, proc, mon, pmu, reading, stopChan, owner>>

\* SupervisorComponent.Start: one StartUMC per UMC of the manifest, whose policy is
\* not passed on; an error is logged.
BootNext ==
    /\ call[Boot].pc = "boot"
    /\ IF call[Boot].todo = {}
       THEN Goto(Boot, "run")
       ELSE \E n \in call[Boot].todo :
               call' = [call EXCEPT ![Boot] = [@ EXCEPT !.pc = "start", !.name = n,
                                    !.todo = call[Boot].todo \ {n}]]
    /\ UNCHANGED <<cmd, wt, processes, proc, mon, pmu, reading, stopChan, owner>>

-----------------------------------------------------------------------------
\* StartUMC: the whole body runs under s.mu.Lock.  x is the caller, and the command
\* is bound to its context.

StartCtx(x) == IF x = Boot THEN BootCtx ELSE x

NewProc(n, c) == [name |-> n, Command |-> c, Running |-> TRUE,
                  RestartPolicy |-> "always", made |-> TRUE]

AlreadyRunning(n) == processes[n] # NoProc /\ proc[processes[n]].Running

StartUMC(x) ==
    /\ call[x].pc = "start"
    /\ CanLock
    /\ ~AlreadyRunning(call[x].name)
    /\ \E p \in Unused, c \in Fresh :
          /\ cmd' = Started(c, StartCtx(x))
          /\ owner' = [owner EXCEPT ![c] = p]
          /\ proc' = [proc EXCEPT ![p] = NewProc(call[x].name, c)]
          /\ processes' = [processes EXCEPT ![call[x].name] = p]
          /\ mon' = [mon EXCEPT ![p].pc = "top"]
    /\ Return(x, "ok")
    /\ UNCHANGED <<wt, pmu, reading, stopChan>>

\* The name is running, no executable was found, or the process did not start (as
\* does none beyond the bounds Procs and Cmds).
StartFails(x) ==
    /\ call[x].pc = "start"
    /\ CanLock
    /\ AlreadyRunning(call[x].name) \/ StartCanFail \/ Unused = {} \/ Fresh = {}
    /\ Return(x, "error")
    /\ UNCHANGED <<cmd, wt, processes, proc, mon, pmu, reading, stopChan, owner>>

-----------------------------------------------------------------------------
\* RestartUMC: the checks, then StopUMC, then (after a delay) StartUMC.

RestartUMC(x) ==
    LET p == processes[call[x].name] IN
    /\ call[x].pc = "restart"
    /\ CanRLock
    /\ IF p # NoProc /\ proc[p].Running
       THEN Goto(x, "stop_lookup")
       ELSE Return(x, "error")
    /\ UNCHANGED <<cmd, wt, processes, proc, mon, pmu, reading, stopChan, owner>>

-----------------------------------------------------------------------------
\* StopUMC, called by RestartUMC and by Shutdown.

StopLookup(x) ==
    LET p == processes[call[x].name] IN
    /\ call[x].pc = "stop_lookup"
    /\ CanLock
    /\ IF p = NoProc THEN Return(x, "error")
       ELSE call' = [call EXCEPT ![x] = [@ EXCEPT !.pc = "stop_check", !.proc = p]]
    /\ UNCHANGED <<cmd, wt, processes, proc, mon, pmu, reading, stopChan, owner>>

\* `if !proc.Running`, read without proc.mu.
StopCheck(x) ==
    /\ call[x].pc = "stop_check"
    /\ IF proc[call[x].proc].Running THEN Goto(x, "stop_acquire") ELSE Return(x, "error")
    /\ UNCHANGED <<cmd, wt, processes, proc, mon, pmu, reading, stopChan, owner>>

\* proc.mu.Lock, SIGINT (the process may Exit at any time), the timer and the helper
\* goroutine that waits for the process.
StopAcquire(x) ==
    LET p == call[x].proc IN
    /\ call[x].pc = "stop_acquire"
    /\ ProcUnlocked(p)
    /\ pmu' = [pmu EXCEPT ![p] = x]
    /\ wt' = Waiting(Helper(x, p), proc[p].Command)
    /\ Goto(x, "stop_wait")
    /\ UNCHANGED <<cmd, processes, proc, mon, reading, stopChan, owner>>

\* `proc.Running = false`, the deferred Unlock and the return: to RestartUMC, which
\* sleeps and calls StartUMC, or to Shutdown.
StopReturn(x) ==
    LET p == call[x].proc IN
    /\ proc' = [proc EXCEPT ![p].Running = FALSE]
    /\ pmu' = [pmu EXCEPT ![p] = Free]
    /\ IF call[x].op = "restart"
       THEN call' = [call EXCEPT ![x] = [@ EXCEPT !.pc = "start", !.proc = NoProc]]
       ELSE Return(x, "ok")

\* `case err := <-done`: the helper's Wait returned.
StopDone(x) ==
    LET h == Helper(x, call[x].proc) IN
    /\ call[x].pc = "stop_wait"
    /\ Returned(h)
    /\ wt' = [wt EXCEPT ![h] = IdleWait]
    /\ StopReturn(x)
    /\ UNCHANGED <<cmd, processes, mon, reading, stopChan, owner>>

\* Mutant: the process that ignored SIGINT is waited for, and not killed.
StopTimeoutNoKill(x) ==
    LET p == call[x].proc IN
    /\ call[x].pc = "stop_wait"
    /\ wt' = Waiting(Killer(x, p), proc[p].Command)
    /\ Goto(x, "stop_kill")
    /\ UNCHANGED <<cmd, processes, proc, mon, pmu, reading, stopChan, owner>>

\* `case <-timeout.C`: kill the process and Wait for it in this goroutine too.
StopTimeout(x) ==
    LET p == call[x].proc IN
    /\ call[x].pc = "stop_wait"
    /\ cmd' = Killed(proc[p].Command)
    /\ wt' = Waiting(Killer(x, p), proc[p].Command)
    /\ Goto(x, "stop_kill")
    /\ UNCHANGED <<processes, proc, mon, pmu, reading, stopChan, owner>>

StopKilled(x) ==
    LET k == Killer(x, call[x].proc) IN
    /\ call[x].pc = "stop_kill"
    /\ Returned(k)
    /\ wt' = [wt EXCEPT ![k] = IdleWait]
    /\ StopReturn(x)
    /\ UNCHANGED <<cmd, processes, mon, reading, stopChan, owner>>

-----------------------------------------------------------------------------
\* StatusUMC, on its own or for each entry of ListUMCs.

StatusLookup(x) ==
    LET p == processes[call[x].name] IN
    /\ call[x].pc = "status_lookup"
    /\ CanRLock
    /\ IF p = NoProc THEN Return(x, "error")
       ELSE call' = [call EXCEPT ![x] = [@ EXCEPT !.pc = "status_acquire", !.proc = p]]
    /\ UNCHANGED <<cmd, wt, processes, proc, mon, pmu, reading, stopChan, owner>>

\* proc.mu.Lock; a running process is asked for its health with the lock held.
StatusAcquire(x) ==
    LET p == call[x].proc IN
    /\ call[x].pc = "status_acquire"
    /\ ProcUnlocked(p)
    /\ IF proc[p].Running
       THEN /\ Goto(x, "status_health")
            /\ pmu' = [pmu EXCEPT ![p] = x]
       ELSE /\ Return(x, "ok")
            /\ UNCHANGED pmu
    /\ UNCHANGED <<cmd, wt, processes, proc, mon, reading, stopChan, owner>>

\* The health check answers or times out.
StatusHealth(x) ==
    /\ call[x].pc = "status_health"
    /\ pmu' = [pmu EXCEPT ![call[x].proc] = Free]
    /\ Return(x, "ok")
    /\ UNCHANGED <<cmd, wt, processes, proc, mon, reading, stopChan, owner>>

\* ListUMCs: RLock, StatusUMC of every entry (which takes RLock again), RUnlock.
ListLock(x) ==
    /\ call[x].pc = "list"
    /\ CanRLock
    /\ reading' = reading \cup {x}
    /\ call' = [call EXCEPT ![x] = [@ EXCEPT !.pc = "list_next",
                            !.todo = {n \in Names : processes[n] # NoProc}]]
    /\ UNCHANGED <<cmd, wt, processes, proc, mon, pmu, stopChan, owner>>

ListNext(x) ==
    /\ call[x].pc = "list_next"
    /\ IF call[x].todo = {}
       THEN /\ reading' = reading \ {x}
            /\ call' = [call EXCEPT ![x] = [@ EXCEPT !.pc = "done", !.res = "ok"]]
       ELSE /\ UNCHANGED reading
            /\ \E n \in call[x].todo :
                  call' = [call EXCEPT ![x] = [@ EXCEPT !.pc = "status_lookup", !.name = n,
                                       !.todo = call[x].todo \ {n}]]
    /\ UNCHANGED <<cmd, wt, processes, proc, mon, pmu, stopChan, owner>>

-----------------------------------------------------------------------------
\* SetRestartPolicy, under s.mu (the monitor reads the field under proc.mu).

WritesPolicy(x, p) ==
    /\ call[x].pc = "policy"
    /\ CanLock
    /\ processes[call[x].name] = p

SetRestartPolicy(x) ==
    /\ call[x].pc = "policy"
    /\ CanLock
    /\ \/ /\ processes[call[x].name] = NoProc
          /\ Return(x, "error")
          /\ UNCHANGED proc
       \/ \E p \in Procs :
             /\ WritesPolicy(x, p)
             /\ proc' = [proc EXCEPT ![p].RestartPolicy = call[x].policy]
             /\ Return(x, "ok")
    /\ UNCHANGED <<cmd, wt, processes, mon, pmu, reading, stopChan, owner>>

-----------------------------------------------------------------------------
\* Shutdown, called by the launcher.

\* `umcNames`, taken under s.mu.Lock.
ShutdownBegin ==
    /\ "shutdown" \in Ops
    /\ call[Boot].pc = "run"
    /\ call' = [call EXCEPT ![Boot] = [@ EXCEPT !.pc = "shutdown", !.op = "shutdown"]]
    /\ UNCHANGED <<cmd, wt, processes, proc, mon, pmu, reading, stopChan, owner>>

ShutdownSnapshot ==
    /\ call[Boot].pc = "shutdown"
    /\ CanLock
    /\ call' = [call EXCEPT ![Boot] = [@ EXCEPT !.pc = "shutdown_next",
                            !.todo = {n \in Names : processes[n] # NoProc}]]
    /\ UNCHANGED <<cmd, wt, processes, proc, mon, pmu, reading, stopChan, owner>>

ShutdownNext ==
    /\ call[Boot].pc = "shutdown_next"
    /\ \E n \in call[Boot].todo :
          call' = [call EXCEPT ![Boot] = [@ EXCEPT !.pc = "stop_lookup", !.name = n,
                               !.todo = call[Boot].todo \ {n}]]
    /\ UNCHANGED <<cmd, wt, processes, proc, mon, pmu, reading, stopChan, owner>>

CloseStopChan ==
    /\ call[Boot].pc = "shutdown_next"
    /\ call[Boot].todo = {}
    /\ stopChan' = TRUE
    /\ Goto(Boot, "shutdown_wait")
    /\ UNCHANGED <<cmd, wt, processes, proc, mon, pmu, reading, owner>>

MonitorsDone == \A p \in Procs : mon[p].pc \in {"off", "done"}

\* The WaitGroup is at zero, or the context of Shutdown is done first: that it has a
\* deadline is decided by the lifecycle package, outside the repository.
ShutdownReturn ==
    /\ call[Boot].pc = "shutdown_wait"
    /\ \/ /\ MonitorsDone
          /\ call' = [call EXCEPT ![Boot] = [@ EXCEPT !.pc = "done", !.res =
                         IF @ = "error" THEN "error" ELSE "ok"]]
       \/ call' = [call EXCEPT ![Boot] = [@ EXCEPT !.pc = "done", !.res = "error"]]
    /\ UNCHANGED <<cmd, wt, processes, proc, mon, pmu, reading, stopChan, owner>>

-----------------------------------------------------------------------------
\* monitorUMC.

MonitorGoto(p, pc) == mon' = [mon EXCEPT ![p] = [pc |-> pc, new |-> NoCmd]]

\* The loop head: leave if stopChan is closed, else Wait for the current Command.
MonitorTop(p) ==
    /\ mon[p].pc = "top"
    /\ IF stopChan
       THEN MonitorGoto(p, "done") /\ UNCHANGED wt
       ELSE MonitorGoto(p, "wait") /\ wt' = Waiting(Monitor(p), proc[p].Command)
    /\ UNCHANGED <<cmd, processes, proc, pmu, reading, stopChan, call, owner>>

\* The policies the unlocked-for-this-reader field can yield: a string that
\* SetRestartPolicy is writing at this moment may be read torn, and matches no case.
PolicyReads(p) ==
    {proc[p].RestartPolicy}
      \cup (IF \E x \in Requests : WritesPolicy(x, p) /\ call[x].policy # proc[p].RestartPolicy
            THEN {"torn"} ELSE {})

\* Mutant: a clean exit is not restarted under any policy.
FailuresOnly(policy, got) == policy # "never" /\ got = "fail"

ShouldRestart(policy, got) ==
    \/ policy = "always"
    \/ policy = "on-failure" /\ got = "fail"

\* Wait returned: Running becomes false, and the monitor leaves or plans a restart.
MonitorExited(p) ==
    /\ mon[p].pc = "wait"
    /\ Returned(Monitor(p))
    /\ ProcUnlocked(p)
    /\ proc' = [proc EXCEPT ![p].Running = FALSE]
    /\ \E policy \in PolicyReads(p) :
          IF ~stopChan /\ ShouldRestart(policy, wt[Monitor(p)].got)
          THEN MonitorGoto(p, "backoff")
          ELSE MonitorGoto(p, "done")
    /\ wt' = [wt EXCEPT ![Monitor(p)] = IdleWait]
    /\ UNCHANGED <<cmd, processes, pmu, reading, stopChan, call, owner>>

\* The restart count and the backoff, under proc.mu (their values: module Backoff).
MonitorBackoff(p) ==
    /\ mon[p].pc = "backoff"
    /\ ProcUnlocked(p)
    /\ MonitorGoto(p, "sleep")
    /\ UNCHANGED <<cmd, wt, processes, proc, pmu, reading, stopChan, call, owner>>

\* The timer fires; the process starts again, bound to no context.
MonitorRestart(p) ==
    /\ mon[p].pc = "sleep"
    /\ \E c \in Fresh :
          /\ cmd' = Started(c, NoCtx)
          /\ owner' = [owner EXCEPT ![c] = p]
          /\ mon' = [mon EXCEPT ![p] = [pc |-> "publish", new |-> c]]
    /\ UNCHANGED <<wt, processes, proc, pmu, reading, stopChan, call>>

\* stopChan wins the select, no executable is found, or the process does not start.
MonitorGivesUp(p) ==
    /\ mon[p].pc = "sleep"
    /\ stopChan \/ StartCanFail
    /\ MonitorGoto(p, "done")
    /\ UNCHANGED <<cmd, wt, processes, proc, pmu, reading, stopChan, call, owner>>

\* Mutants: the new Command is not stored; proc.mu is not taken; the loop ends.
PublishOldCommand(p) ==
    /\ mon[p].pc = "publish"
    /\ ProcUnlocked(p)
    /\ proc' = [proc EXCEPT ![p].Running = TRUE]
    /\ MonitorGoto(p, "top")
    /\ UNCHANGED <<cmd, wt, processes, pmu, reading, stopChan, call, owner>>

PublishUnlocked(p) ==
    /\ mon[p].pc = "publish"
    /\ proc' = [proc EXCEPT ![p].Command = mon[p].new, ![p].Running = TRUE]
    /\ MonitorGoto(p, "top")
    /\ UNCHANGED <<cmd, wt, processes, pmu, reading, stopChan, call, owner>>

PublishAndLeave(p) ==
    /\ mon[p].pc = "publish"
    /\ ProcUnlocked(p)
    /\ proc' = [proc EXCEPT ![p].Command = mon[p].new, ![p].Running = TRUE]
    /\ MonitorGoto(p, "done")
    /\ UNCHANGED <<cmd, wt, processes, pmu, reading, stopChan, call, owner>>

MonitorPublish(p) ==
    /\ mon[p].pc = "publish"
    /\ ProcUnlocked(p)
    /\ proc' = [proc EXCEPT ![p].Command = mon[p].new, ![p].Running = TRUE]
    /\ MonitorGoto(p, "top")
    /\ UNCHANGED <<cmd, wt, processes, pmu, reading, stopChan, call, owner>>

-----------------------------------------------------------------------------
\* The environment, and the steps of the Wait calls.

ProcessExit(c) ==
    /\ Exit(c)
    /\ UNCHANGED <<processes, proc, mon, pmu, reading, stopChan, call, owner>>

\* net/http cancels the context of a request when its handler returns; the launcher's
\* is cancelled at the earliest when it stops its components.
CtxDone(x) ==
    IF x = Boot THEN call[Boot].op = "shutdown"
                ELSE x \in Requests /\ call[x].pc = "done"

ContextKill(c) ==
    /\ CtxDone(cmd[c].ctx)
    /\ CtxKill(c)
    /\ UNCHANGED <<processes, proc, mon, pmu, reading, stopChan, call, owner>>

WaitProgress(w) ==
    /\ WaitStep(w)
    /\ UNCHANGED <<processes, proc, mon, pmu, reading, stopChan, call, owner>>

-----------------------------------------------------------------------------
StopStep(x) == StopLookup(x) \/ StopCheck(x) \/ StopAcquire(x)
                 \/ StopDone(x) \/ StopTimeout(x) \/ StopKilled(x)
StatusStep(x) == StatusLookup(x) \/ StatusAcquire(x) \/ StatusHealth(x)
                   \/ ListLock(x) \/ ListNext(x)
CallStep(x) == StartUMC(x) \/ StartFails(x) \/ RestartUMC(x) \/ StopStep(x)
                 \/ StatusStep(x) \/ SetRestartPolicy(x)
ShutdownStep == ShutdownSnapshot \/ ShutdownNext \/ CloseStopChan \/ ShutdownReturn
MonitorStep(p) == MonitorTop(p) \/ MonitorExited(p) \/ MonitorBackoff(p)
                    \/ MonitorRestart(p) \/ MonitorGivesUp(p) \/ MonitorPublish(p)

Next ==
    \/ BootNext
    \/ ShutdownBegin
    \/ ShutdownStep
    \/ \E x \in Callers : BeginRequest(x) \/ CallStep(x)
    \/ \E p \in Procs : MonitorStep(p)
    \/ \E c \in Cmds : ProcessExit(c) \/ ContextKill(c)
    \/ \E w \in Waiters : WaitProgress(w)

Spec == Init /\ [][Next]_vars

(***************************************************************************)
(* Fairness: every goroutine that can run eventually does (Go's scheduler  *)
(* and mutexes are starvation-free), a timer fires, and the watcher of a   *)
(* done context kills.  Nothing is assumed of processes, of requests or of *)
(* the decision to shut down.                                              *)
(***************************************************************************)
Fairness ==
    /\ WF_vars(BootNext)
    /\ WF_vars(ShutdownStep)
    /\ \A x \in Callers : WF_vars(CallStep(x))
    /\ \A p \in Procs : WF_vars(MonitorStep(p))
    /\ \A c \in Cmds : WF_vars(ContextKill(c))
    /\ \A w \in Waiters : WF_vars(WaitProgress(w))

FairSpec == Spec /\ Fairness

-----------------------------------------------------------------------------
(***************************************************************************)
(* What holds.                                                             *)
(***************************************************************************)

\* A UMCProcess never has two live processes: its monitor starts one only after Wait
\* has returned for the one before, although Wait may return an error, StopUMC waits
\* for the same Cmd, and the new Cmd is published later (541-640).
OneLivePerProc ==
    \A c, d \in Cmds : Alive(c) /\ Alive(d) /\ owner[c] = owner[d] => c = d

StopHolding == {"stop_wait", "stop_kill"}

\* While StopUMC waits it holds proc.mu, so that the Command it signalled, waits for
\* and kills stays the current one (202-232); so does StatusUMC during a health check.
StopHoldsItsProc ==
    \A x \in Callers :
        /\ call[x].pc \in StopHolding \cup {"status_health"} => pmu[call[x].proc] = x
        /\ call[x].pc \in StopHolding =>
              LET h == wt[Helper(x, call[x].proc)] IN
              h.pc # "idle" /\ h.cmd = proc[call[x].proc].Command
        /\ call[x].pc = "stop_kill" =>
              LET k == wt[Killer(x, call[x].proc)] IN
              k.pc # "idle" /\ k.cmd = proc[call[x].proc].Command

\* `Running = false` (233, 553) is never written over a live Command, so that StartUMC
\* does not replace, and StopUMC and StatusUMC do not pass over, a UMC that is up.
NotRunningMeansDead ==
    \A p \in Procs : proc[p].made /\ ~proc[p].Running => Dead(proc[p].Command)

\* Until the supervisor shuts down, every live process has a monitor that has yet to
\* see it exit: no path of the monitor loop leaves a process behind unattended.
Supervised ==
    \A c \in Cmds : Alive(c) /\ ~stopChan =>
        /\ owner[c] \in Procs
        /\ mon[owner[c]].pc \in {"top", "wait", "publish"}

\* Who waits for whom: writers for the readers, new readers for the writers, and both
\* for the holder of proc.mu; StopUMC, holding proc.mu, for the process it has killed.
Resting == {"idle", "run", "done"}

WaitBlocked(w) == \/ wt[w].pc = "block" /\ ~Dead(wt[w].cmd)
                  \/ wt[w].pc = "ctx" /\ cmd[wt[w].cmd].sent

Blocked(x) ==
    \/ call[x].pc \in Writing /\ ~CanLock
    \/ call[x].pc \in RLocking /\ ~CanRLock
    \/ call[x].pc \in ProcLocking /\ ~ProcUnlocked(call[x].proc)
    \/ call[x].pc = "stop_kill" /\ WaitBlocked(Killer(x, call[x].proc))

CanGo(x) == call[x].pc \notin Resting /\ ~Blocked(x)

WaitsFor(x) ==
    CASE call[x].pc \in Writing  -> reading
      [] call[x].pc \in RLocking -> {y \in Callers : call[y].pc \in Writing}
      [] call[x].pc \in ProcLocking /\ ~ProcUnlocked(call[x].proc) -> {pmu[call[x].proc]}
      [] OTHER -> {}

Chain(S) == S \cup UNION {WaitsFor(x) : x \in S}

\* ListUMCs, holding the read lock, at the RLock of StatusUMC behind a writer (272); and
\* StopUMC in a second Wait for a result that the watcher has sent to the first (223).
Recursive(x) == x \in reading /\ call[x].pc = "status_lookup" /\ WriterWaits
StuckWait(x) ==
    LET k == wt[Killer(x, call[x].proc)] IN
    call[x].pc = "stop_kill" /\ k.pc = "ctx" /\ cmd[k.cmd].ctx # NoCtx /\ cmd[k.cmd].sent

\* These two are the only deadlocks: whoever is in a call waits, over at most three
\* others, for one that can go on or is in one of the two; and whoever holds a proc.mu,
\* for which the monitors wait too, can go on or is in the second.
OnlyKnownDeadlocks ==
    /\ \A x \in Callers : call[x].pc \notin Resting =>
          \E y \in Chain(Chain(Chain({x}))) : CanGo(y) \/ Recursive(y) \/ StuckWait(y)
    /\ \A p \in Procs : ~ProcUnlocked(p) => CanGo(pmu[p]) \/ StuckWait(pmu[p])

\* What the lifecycle of a UMCProcess sees of the supervisor: its live processes, and
\* whether its monitor has yet to start, runs, or has left.
LiveOf == [p \in Procs |-> {c \in Cmds : owner[c] = p /\ Alive(c)}]
WatchOf == [p \in Procs |-> CASE mon[p].pc = "off"  -> "off"
                              [] mon[p].pc = "done" -> "gone"
                              [] OTHER              -> "on"]

\* The supervisor implements that lifecycle (121-187, 530-644): with all its locks, Waits
\* and requests, a process is started for a UMCProcess only when the last one is dead and
\* its monitor has not left, and the monitor leaves no live one before the shutdown.
Watched == INSTANCE Lifecycle WITH live <- LiveOf, watch <- WatchOf, closing <- stopChan
KeepsLifecycle == Watched!Spec

\* A monitored UMC with policy always whose Command has exited gets another one (566-640),
\* whatever status requests hold its lock, unless the policy is changed, the
\* supervisor shuts down or the bound on Cmds is reached.  It takes that the executable can
\* be started (StartCanFail = FALSE): a restart that fails ends the monitoring (631-634).
CrashRestart ==
    \A p \in Procs, c \in Cmds :
        /\ proc[p].Command = c
        /\ Dead(c)
        /\ mon[p].pc # "done"
        /\ proc[p].RestartPolicy = "always"
        ~> \/ proc[p].Command # c
           \/ proc[p].RestartPolicy # "always"
           \/ stopChan
           \/ Fresh = {}

\* Shutdown comes back (279-313), whatever the processes and the requests do: no StopUMC
\* that it calls (287-292) stays blocked.  Its last wait, for monitors that may be blocked in
\* theirs, ends with its context if need be.
ShutdownReturns == call[Boot].op = "shutdown" ~> call[Boot].pc = "done"

\* A request is answered: its handler does not stay blocked on s.mu or proc.mu (237-258).
RequestsReturn == \A x \in Requests : call[x].op # "none" ~> call[x].pc = "done"

-----------------------------------------------------------------------------
(***************************************************************************)
(* What the comments and the manifest say, and the code does not do.       *)
(***************************************************************************)

\* StartUMC, "Check if already running" (132), and RestartUMC, "stops and restarts a
\* managed UMC" (315): a name has at most one live process.
AtMostOneLivePerName ==
    \A c, d \in Cmds :
        Alive(c) /\ Alive(d) /\ c # d => proc[owner[c]].name # proc[owner[d]].name

\* "ListUMCs returns all managed UMCs" (265): it returns.
ListReturns == \A x \in Requests : call[x].op = "list" ~> call[x].pc = "done"

=============================================================================
