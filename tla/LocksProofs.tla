----------------------------- MODULE LocksProofs -----------------------------
(***************************************************************************)
(* Proofs about the locks of Supervisor: who holds proc.mu and the read    *)
(* lock of s.mu, and that goroutines block each other for ever in two ways *)
(* only.                                                                   *)
(***************************************************************************)
EXTENDS SupervisorProofs

-----------------------------------------------------------------------------
\* Who holds which lock, by parts.

\* proc.mu is held across steps by StopUMC and StatusUMC only.
HoldersHold ==
    \A p \in Procs : pmu[p] # Free =>
        /\ call[pmu[p]].pc \in StopHolding \cup {"status_health"}
        /\ call[pmu[p]].proc = p

\* The read lock is held across steps by ListUMCs only, from its RLock to its return.
InList == {"list_next", "status_lookup", "status_acquire", "status_health"}
ListReads ==
    \A x \in Callers :
        /\ x \in reading <=> call[x].op = "list" /\ call[x].pc \in InList
        /\ call[x].op = "list" => call[x].pc \in InList \cup {"list", "done"}
        /\ call[x].pc = "list" => call[x].op = "list"

\* The Command that StopUMC has killed, and waits for a second time, is dead.
KillsAreDead == \A x \in Callers : call[x].pc = "stop_kill" => Dead(proc[call[x].proc].Command)

\* A Wait asks for the result of a watcher only if the Cmd has a context.
CtxHasWatcher == \A w \in Waiters : wt[w].pc = "ctx" => cmd[wt[w].cmd].ctx # NoCtx

LocksInv == HoldersHold /\ ListReads /\ KillsAreDead /\ CtxHasWatcher

LInv == IInv /\ LocksInv

\* Only the record of x changes, and it goes on with the operation it is in.
Proceeds(x) ==
    /\ call' \in [Callers -> CallRecords]
    /\ \A y \in Callers \ {x} : call'[y] = call[y]
    /\ call'[x].op = call[x].op

-----------------------------------------------------------------------------
(***************************************************************************)
(* How a call goes on.                                                     *)
(***************************************************************************)

\* A call that comes back goes on with the operation that made it.
LEMMA ReturnProceeds ==
    ASSUME TypeOK, NEW x \in Callers, NEW res \in {"ok", "error"}, Return(x, res)
    PROVE  /\ Proceeds(x)
           /\ call'[x].pc = ReturnsTo(call[x].op)
           /\ call'[x].proc = NoProc
<1>1. call \in [Callers -> CallRecords] /\ call[x] \in CallRecords
  BY DEF TypeOK
<1>2. call' \in [Callers -> CallRecords]
  BY <1>1, ReturnType
<1>3. QED
  BY <1>1, <1>2 DEF Return, CallRecords, Proceeds

\* So does one that moves within the operation.
LEMMA GotoProceeds ==
    ASSUME TypeOK, NEW x \in Callers, NEW pc \in CallPcs, Goto(x, pc)
    PROVE  /\ Proceeds(x)
           /\ call'[x].pc = pc
           /\ call'[x].proc = call[x].proc
<1>1. call \in [Callers -> CallRecords] /\ call[x] \in CallRecords
  BY DEF TypeOK
<1>2. call' \in [Callers -> CallRecords]
  BY <1>1, GotoType
<1>3. QED
  BY <1>1, <1>2 DEF Goto, CallRecords, Proceeds

\* A lookup that finds the UMCProcess goes on to `pc` with it.
LEMMA FindProceeds ==
    ASSUME TypeOK, NEW x \in Callers, NEW pc \in CallPcs, NEW p \in Procs \cup {NoProc},
           call' = [call EXCEPT ![x] = [@ EXCEPT !.pc = pc, !.proc = p]]
    PROVE  /\ Proceeds(x)
           /\ call'[x].pc = pc
<1>1. call \in [Callers -> CallRecords] /\ call[x] \in CallRecords
  BY DEF TypeOK
<1>2. [call[x] EXCEPT !.pc = pc, !.proc = p] \in CallRecords
  BY <1>1, CallFields
<1>3. call' \in [Callers -> CallRecords]
  BY <1>1, <1>2
<1>4. QED
  BY <1>1, <1>3 DEF CallRecords, Proceeds

\* A step that replaces the record of x by one of the same operation.
LEMMA ReplaceProceeds ==
    ASSUME TypeOK, NEW x \in Callers, NEW r \in CallRecords, r.op = call[x].op,
           call' = [call EXCEPT ![x] = r]
    PROVE  Proceeds(x) /\ call'[x] = r
<1>1. call \in [Callers -> CallRecords]
  BY DEF TypeOK
<1>2. call' \in [Callers -> CallRecords] /\ call'[x] = r
  BY <1>1
<1>3. \A y \in Callers \ {x} : call'[y] = call[y]
  BY <1>1
<1>4. QED
  BY <1>2, <1>3 DEF Proceeds

\* ListUMCs returns.
LEMMA ListEnds ==
    ASSUME TypeOK, NEW x \in Callers, ListNext(x), call[x].todo = {}
    PROVE  Proceeds(x) /\ call'[x].pc = "done" /\ reading' = reading \ {x}
<1> DEFINE r == [call[x] EXCEPT !.pc = "done", !.res = "ok"]
<1>1. call[x] \in CallRecords /\ "done" \in CallPcs
  BY DEF TypeOK, CallPcs
<1>2. r \in CallRecords
  BY <1>1, CallFields
<1>3. r.op = call[x].op /\ r.pc = "done"
  BY <1>1 DEF CallRecords
<1>4. call' = [call EXCEPT ![x] = r] /\ reading' = reading \ {x}
  BY DEF ListNext
<1> HIDE DEF r
<1>5. QED
  BY <1>2, <1>3, <1>4, ReplaceProceeds

\* A loop goes on to `pc` with its next name.
LEMMA NextProceeds ==
    ASSUME TypeOK, NEW x \in Callers, NEW pc \in CallPcs, NEW n \in call[x].todo,
           call' = [call EXCEPT ![x] = [@ EXCEPT !.pc = pc, !.name = n,
                                        !.todo = call[x].todo \ {n}]]
    PROVE  /\ Proceeds(x)
           /\ call'[x].pc = pc
<1>1. call \in [Callers -> CallRecords] /\ call[x] \in CallRecords
  BY DEF TypeOK
<1>2. n \in Names /\ call[x].todo \ {n} \in SUBSET Names
  BY <1>1 DEF CallRecords
<1>3. [call[x] EXCEPT !.pc = pc, !.name = n, !.todo = call[x].todo \ {n}] \in CallRecords
  BY <1>1, <1>2, CallFields
<1>4. call' \in [Callers -> CallRecords]
  BY <1>1, <1>3
<1>5. QED
  BY <1>1, <1>4 DEF CallRecords, Proceeds

-----------------------------------------------------------------------------
(***************************************************************************)
(* What keeps the parts of LocksInv.                                       *)
(***************************************************************************)

\* A goroutine that holds no proc.mu moves, and no proc.mu changes hands.
LEMMA OthersHold ==
    ASSUME LInv, NEW x \in Callers, call[x].pc \notin Holding, UNCHANGED pmu,
           \A y \in Callers \ {x} : call'[y] = call[y]
    PROVE  HoldersHold'
<1>1. \A p \in Procs : pmu[p] # Free => pmu[p] \in Callers \ {x}
  BY DEF LInv, LocksInv, HoldersHold, Holding, IInv, TypeOK
<1>2. QED
  BY <1>1 DEF LInv, LocksInv, HoldersHold

\* The goroutine x takes the mutex of its UMCProcess.
LEMMA TakesHold ==
    ASSUME LInv, NEW x \in Callers, call[x].pc \notin Holding, call[x].proc \in Procs,
           pmu' = [pmu EXCEPT ![call[x].proc] = x],
           \A y \in Callers \ {x} : call'[y] = call[y],
           call'[x].pc \in Holding, call'[x].proc = call[x].proc
    PROVE  HoldersHold'
<1>1. \A p \in Procs : pmu[p] # Free => pmu[p] \in Callers \ {x}
  BY DEF LInv, LocksInv, HoldersHold, Holding, IInv, TypeOK
<1>2. \A p \in Procs : pmu'[p] = IF p = call[x].proc THEN x ELSE pmu[p]
  BY DEF LInv, IInv, TypeOK
<1>3. QED
  BY <1>1, <1>2 DEF LInv, LocksInv, HoldersHold, Holding

\* The holder x releases it.
LEMMA ReleasesHold ==
    ASSUME LInv, NEW x \in Callers, call[x].pc \in Holding,
           pmu' = [pmu EXCEPT ![call[x].proc] = Free],
           \A y \in Callers \ {x} : call'[y] = call[y]
    PROVE  HoldersHold'
<1>1. call[x].proc \in Procs
  BY HoldersDiffer DEF LInv
<1>2. \A p \in Procs : pmu'[p] = IF p = call[x].proc THEN Free ELSE pmu[p]
  BY <1>1 DEF LInv, IInv, TypeOK
<1>3. \A p \in Procs \ {call[x].proc} : pmu[p] # Free => pmu[p] \in Callers \ {x}
  BY DEF LInv, LocksInv, HoldersHold, IInv, TypeOK
<1>4. QED
  BY <1>2, <1>3 DEF LInv, LocksInv, HoldersHold

\* A goroutine moves without taking or releasing the read lock: within ListUMCs, or
\* in another operation.
LEMMA ReadersStay ==
    ASSUME ListReads, NEW x \in Callers, UNCHANGED reading, Proceeds(x), call'[x].pc # "list",
           call[x].op = "list" => call[x].pc \in InList /\ call'[x].pc \in InList
    PROVE  ListReads'
  BY DEF ListReads, Proceeds

\* A goroutine at a place that ListUMCs does not come to is in another operation.
LEMMA NotInList ==
    ASSUME ListReads, NEW x \in Callers, call[x].pc \notin InList \cup {"list", "done"}
    PROVE  call[x].op # "list"
  BY DEF ListReads

\* Cmds that have started keep their context, and those that are dead stay dead.
LEMMA CmdsStay ==
    ASSUME IInv, [Next]_vars
    PROVE  \A c \in Cmds : cmd[c].life # "none" => /\ cmd'[c].ctx = cmd[c].ctx
                                                   /\ Dead(c) => Dead(c)'
<1> DEFINE Stays == \A c \in Cmds : cmd[c].life # "none" => /\ cmd'[c].ctx = cmd[c].ctx
                                                            /\ Dead(c) => Dead(c)'
<1>0. cmd \in [Cmds -> CmdRecords(Ctxs)] /\ wt \in [Waiters -> WaitRecords]
  BY DEF IInv, TypeOK
<1>1. ASSUME UNCHANGED cmd  PROVE Stays
  BY <1>1 DEF Dead
<1>2. ASSUME NEW c \in Fresh, NEW x \in Ctxs, cmd' = Started(c, x)  PROVE Stays
  BY <1>0, <1>2 DEF Started, Fresh, Dead
<1>3. ASSUME NEW c, cmd' = Killed(c)  PROVE Stays
  BY <1>0, <1>3 DEF Killed, Dead, Alive, CmdRecords
<1>4. ASSUME NEW c \in Cmds, Exit(c)  PROVE Stays
  BY <1>0, <1>4 DEF Exit, Dead, Alive, CmdRecords
<1>5. ASSUME NEW w \in Waiters, WaitStep(w)  PROVE Stays
  <2>1. CASE WaitCheck(w)
    BY <2>1, <1>1 DEF WaitCheck
  <2>2. CASE WaitProcess(w)
    BY <1>0, <2>2 DEF WaitProcess, Dead, CmdRecords
  <2>3. CASE WaitAssign(w)
    BY <1>0, <2>3 DEF WaitAssign, Dead, CmdRecords
  <2>4. CASE WaitCtxResult(w)
    BY <1>0, <2>4 DEF WaitCtxResult, Dead, CmdRecords
  <2>5. QED
    BY <1>5, <2>1, <2>2, <2>3, <2>4 DEF WaitStep
<1>6. CASE BootNext \/ ShutdownBegin \/ ShutdownStep
  BY <1>6, <1>1 DEF BootNext, ShutdownBegin, ShutdownStep, ShutdownSnapshot, ShutdownNext,
                    CloseStopChan, ShutdownReturn
<1>7. ASSUME NEW x \in Callers, BeginRequest(x) \/ CallStep(x)  PROVE Stays
  <2>1. CASE StartUMC(x)
    <3>1. StartCtx(x) \in Ctxs
      BY SupervisorAssumption DEF StartCtx, Ctxs, Callers
    <3>2. QED
      BY <2>1, <3>1, <1>2 DEF StartUMC
  <2>2. CASE StopTimeout(x)
    BY <2>2, <1>3 DEF StopTimeout
  <2>3. CASE ~StartUMC(x) /\ ~StopTimeout(x)
    BY <1>7, <2>3, <1>1
    DEF CallStep, StopStep, StatusStep, BeginRequest, StartFails, RestartUMC, StopLookup,
        StopCheck, StopAcquire, StopDone, StopKilled, StatusLookup, StatusAcquire,
        StatusHealth, ListLock, ListNext, SetRestartPolicy
  <2>4. QED
    BY <2>1, <2>2, <2>3
<1>8. ASSUME NEW p \in Procs, MonitorStep(p)  PROVE Stays
  <2>1. CASE MonitorRestart(p)
    <3>1. NoCtx \in Ctxs
      BY DEF Ctxs
    <3>2. QED
      BY <2>1, <3>1, <1>2 DEF MonitorRestart
  <2>2. CASE ~MonitorRestart(p)
    BY <1>8, <2>2, <1>1
    DEF MonitorStep, MonitorTop, MonitorExited, MonitorBackoff, MonitorGivesUp, MonitorPublish
  <2>3. QED
    BY <2>1, <2>2
<1>9. ASSUME NEW c \in Cmds, ProcessExit(c) \/ ContextKill(c)  PROVE Stays
  BY <1>9, <1>3, <1>4 DEF ProcessExit, ContextKill, CtxKill
<1>10. ASSUME NEW w \in Waiters, WaitProgress(w)  PROVE Stays
  BY <1>10, <1>5 DEF WaitProgress
<1>11. CASE UNCHANGED vars
  BY <1>11, <1>1 DEF vars
<1>12. QED
  BY <1>6, <1>7, <1>8, <1>9, <1>10, <1>11 DEF Next

\* A Wait gets to the watcher's result through the test of the Cmd's context only.
LEMMA CtxHasWatcherStays ==
    ASSUME LInv, [Next]_vars
    PROVE  CtxHasWatcher'
<1>0. /\ cmd \in [Cmds -> CmdRecords(Ctxs)] /\ wt \in [Waiters -> WaitRecords]
      /\ \A w \in Waiters : wt[w].pc = "ctx" => /\ wt[w].cmd \in Cmds
                                                /\ cmd[wt[w].cmd].life # "none"
                                                /\ cmd[wt[w].cmd].ctx # NoCtx
      /\ \A c \in Cmds : cmd[c].life # "none" => cmd'[c].ctx = cmd[c].ctx
  BY CmdsStay DEF LInv, LocksInv, KillsAreDead, CtxHasWatcher, IInv, TypeOK, WaitersSawExit
<1>1. ASSUME \A w \in Waiters : wt'[w] = wt[w] \/ wt'[w].pc # "ctx"
      PROVE  CtxHasWatcher'
  BY <1>0, <1>1 DEF CtxHasWatcher
<1>2. ASSUME UNCHANGED wt  PROVE CtxHasWatcher'
  BY <1>1, <1>2
<1>3. ASSUME NEW v, NEW c, wt' = Waiting(v, c)  PROVE CtxHasWatcher'
  BY <1>0, <1>1, <1>3 DEF Waiting
<1>4. ASSUME NEW v, wt' = [wt EXCEPT ![v] = IdleWait]  PROVE CtxHasWatcher'
  BY <1>0, <1>1, <1>4 DEF IdleWait
<1>5. ASSUME NEW v \in Waiters, WaitStep(v)  PROVE CtxHasWatcher'
  <2>1. CASE WaitCheck(v)
    BY <1>0, <1>1, <2>1 DEF WaitCheck, WaitRecords
  <2>2. CASE WaitProcess(v)
    BY <1>0, <1>1, <2>2 DEF WaitProcess, WaitRecords
  <2>3. CASE WaitAssign(v)
    <3>1. /\ wt[v].cmd \in Cmds /\ cmd[wt[v].cmd].life # "none"
      BY <2>3 DEF WaitAssign, LInv, IInv, WaitersSawExit
    <3>2. /\ wt'[v].cmd = wt[v].cmd
          /\ wt'[v].pc = "ctx" => cmd[wt[v].cmd].ctx # NoCtx
          /\ \A w \in Waiters \ {v} : wt'[w] = wt[w]
      BY <1>0, <2>3 DEF WaitAssign, WaitRecords
    <3>3. QED
      BY <1>0, <3>1, <3>2 DEF CtxHasWatcher
  <2>4. CASE WaitCtxResult(v)
    BY <1>0, <1>1, <2>4 DEF WaitCtxResult, WaitRecords
  <2>5. QED
    BY <1>5, <2>1, <2>2, <2>3, <2>4 DEF WaitStep
<1>6. CASE BootNext \/ ShutdownBegin \/ ShutdownStep
  BY <1>6, <1>2 DEF BootNext, ShutdownBegin, ShutdownStep, ShutdownSnapshot, ShutdownNext,
                    CloseStopChan, ShutdownReturn
<1>7. ASSUME NEW x \in Callers, BeginRequest(x) \/ CallStep(x)  PROVE CtxHasWatcher'
  <2>1. CASE StopAcquire(x) \/ StopTimeout(x)
    BY <2>1, <1>3 DEF StopAcquire, StopTimeout
  <2>2. CASE StopDone(x) \/ StopKilled(x)
    BY <2>2, <1>4 DEF StopDone, StopKilled
  <2>3. CASE ~(StopAcquire(x) \/ StopTimeout(x)) /\ ~(StopDone(x) \/ StopKilled(x))
    BY <1>7, <2>3, <1>2
    DEF CallStep, StopStep, StatusStep, BeginRequest, StartUMC, StartFails, RestartUMC,
        StopLookup, StopCheck, StatusLookup, StatusAcquire, StatusHealth, ListLock,
        ListNext, SetRestartPolicy
  <2>4. QED
    BY <2>1, <2>2, <2>3
<1>8. ASSUME NEW p \in Procs, MonitorStep(p)  PROVE CtxHasWatcher'
  <2>1. CASE MonitorTop(p)
    BY <2>1, <1>2, <1>3 DEF MonitorTop
  <2>2. CASE MonitorExited(p)
    BY <2>2, <1>4 DEF MonitorExited
  <2>3. CASE ~MonitorTop(p) /\ ~MonitorExited(p)
    BY <1>8, <2>3, <1>2
    DEF MonitorStep, MonitorBackoff, MonitorRestart, MonitorGivesUp, MonitorPublish
  <2>4. QED
    BY <2>1, <2>2, <2>3
<1>9. ASSUME NEW c \in Cmds, ProcessExit(c) \/ ContextKill(c)  PROVE CtxHasWatcher'
  BY <1>9, <1>2 DEF ProcessExit, ContextKill, CtxKill, Exit
<1>10. ASSUME NEW w \in Waiters, WaitProgress(w)  PROVE CtxHasWatcher'
  BY <1>10, <1>5 DEF WaitProgress
<1>11. CASE UNCHANGED vars
  BY <1>11, <1>2 DEF vars
<1>12. QED
  BY <1>6, <1>7, <1>8, <1>9, <1>10, <1>11 DEF Next

\* The Command that StopUMC has killed stays the current one, and dead, unless some step
\* gives the UMCProcess another Command.
LEMMA KillsStayDead ==
    ASSUME LInv, [Next]_vars,
           \A y \in Callers : call'[y].pc = "stop_kill" =>
               /\ call[y].pc = "stop_kill" /\ call'[y].proc = call[y].proc
               /\ proc'[call[y].proc].Command = proc[call[y].proc].Command
    PROVE  KillsAreDead'
<1>1. ASSUME NEW y \in Callers, call[y].pc = "stop_kill"
      PROVE  /\ proc[call[y].proc].Command \in Cmds
             /\ Dead(proc[call[y].proc].Command)
  BY <1>1 DEF LInv, LocksInv, KillsAreDead, CtxHasWatcher, IInv, WellFormed, ProcNamed, StopHolding
<1>2. ASSUME NEW c \in Cmds, Dead(c)  PROVE Dead(c)'
  BY <1>2, CmdsStay DEF LInv, Dead
<1>3. QED
  BY <1>1, <1>2 DEF KillsAreDead, Dead

\* A goroutine that holds no proc.mu moves without taking one, and the Commands under
\* the mutexes that are held stay.
LEMMA QuietLocks ==
    ASSUME LInv, [Next]_vars, NEW x \in Callers,
           UNCHANGED <<pmu, reading>>, Proceeds(x),
           call[x].pc \notin Holding, call'[x].pc \notin {"stop_kill", "list"},
           call[x].op = "list" => call[x].pc \in InList /\ call'[x].pc \in InList,
           \A p \in Procs : ~ProcUnlocked(p) => proc'[p].Command = proc[p].Command
    PROVE  LocksInv'
<1>1. HoldersHold'
  BY OthersHold DEF Proceeds
<1>2. ListReads'
  BY ReadersStay DEF LInv, LocksInv
<1>3. KillsAreDead'
  <2>1. ASSUME NEW y \in Callers, call'[y].pc = "stop_kill"
        PROVE  /\ call[y].pc = "stop_kill" /\ call'[y].proc = call[y].proc
               /\ proc'[call[y].proc].Command = proc[call[y].proc].Command
    <3>1. call[y].pc = "stop_kill" /\ call'[y].proc = call[y].proc
      BY <2>1 DEF Proceeds
    <3>2. call[y].proc \in Procs /\ ~ProcUnlocked(call[y].proc)
      BY <3>1, HoldersDiffer DEF LInv, Holding, StopHolding
    <3>3. QED
      BY <3>1, <3>2
  <2>2. QED
    BY <2>1, KillsStayDead
<1>4. QED
  BY <1>1, <1>2, <1>3, CtxHasWatcherStays DEF LocksInv

-----------------------------------------------------------------------------
(***************************************************************************)
(* The steps.                                                              *)
(***************************************************************************)

\* The launcher's steps.
LEMMA LauncherLocks ==
    ASSUME LInv, [Next]_vars, BootNext \/ ShutdownBegin \/ ShutdownStep
    PROVE  LocksInv'
<1>0. /\ Boot \in Callers /\ call[Boot] \in CallRecords /\ call \in [Callers -> CallRecords]
      /\ TypeOK /\ ListReads
      /\ {"run", "start", "shutdown_next", "stop_lookup", "shutdown_wait"} \subseteq CallPcs
  BY DEF LInv, LocksInv, IInv, TypeOK, Callers, CallPcs
<1>1. /\ UNCHANGED <<pmu, reading, proc>>
      /\ call[Boot].pc \in {"boot", "run", "shutdown", "shutdown_next", "shutdown_wait"}
  BY DEF BootNext, ShutdownBegin, ShutdownStep, ShutdownSnapshot, ShutdownNext,
         CloseStopChan, ShutdownReturn
<1>2. call[Boot].pc \notin Holding \cup InList /\ call[Boot].op # "list"
  BY <1>0, <1>1, NotInList DEF Holding, StopHolding, InList
<1>3. CASE ShutdownBegin
  <2>1. /\ call' \in [Callers -> CallRecords]
        /\ \A y \in Callers \ {Boot} : call'[y] = call[y]
        /\ call'[Boot].pc = "shutdown" /\ call'[Boot].op = "shutdown"
    <3>1. "shutdown" \in CallPcs \cap CallOps
      BY DEF CallPcs, CallOps
    <3>2. [call[Boot] EXCEPT !.pc = "shutdown", !.op = "shutdown"] \in CallRecords
      BY <1>0, <3>1, CallFields
    <3>3. QED
      BY <1>0, <1>3, <3>2 DEF ShutdownBegin, CallRecords
  <2>2. HoldersHold'
    BY <1>0, <1>1, <1>2, <2>1, OthersHold
  <2>3. ListReads'
    BY <1>0, <1>1, <1>2, <2>1 DEF ListReads
  <2>4. KillsAreDead'
    BY <1>0, <1>1, <2>1, KillsStayDead
  <2>5. QED
    BY <2>2, <2>3, <2>4, CtxHasWatcherStays DEF LocksInv
<1>4. ASSUME Proceeds(Boot), call'[Boot].pc \notin {"stop_kill", "list"}  PROVE LocksInv'
  BY <1>0, <1>1, <1>2, <1>4, QuietLocks
<1>5. CASE BootNext
  <2>1. CASE call[Boot].todo = {}
    BY <1>0, <1>4, <1>5, <2>1, GotoProceeds DEF BootNext
  <2>2. CASE call[Boot].todo # {}
    BY <1>0, <1>4, <1>5, <2>2, NextProceeds DEF BootNext
  <2>3. QED
    BY <2>1, <2>2
<1>6. CASE ShutdownStep
  <2>1. CASE ShutdownSnapshot
    <3>1. {n \in Names : processes[n] # NoProc} \in SUBSET Names
      OBVIOUS
    <3>2. [call[Boot] EXCEPT !.pc = "shutdown_next", !.todo = {n \in Names : processes[n] # NoProc}]
            \in CallRecords
      BY <1>0, <3>1, CallFields
    <3>3. Proceeds(Boot) /\ call'[Boot].pc = "shutdown_next"
      BY <1>0, <2>1, <3>2 DEF ShutdownSnapshot, Proceeds, CallRecords
    <3>4. QED
      BY <1>4, <3>3
  <2>2. CASE ShutdownNext
    BY <1>0, <1>4, <2>2, NextProceeds DEF ShutdownNext
  <2>3. CASE CloseStopChan
    BY <1>0, <1>4, <2>3, GotoProceeds DEF CloseStopChan
  <2>4. CASE ShutdownReturn
    <3>1. PICK res \in {"ok", "error"} : call' = [call EXCEPT ![Boot] = [@ EXCEPT !.pc = "done", !.res = res]]
      BY <2>4 DEF ShutdownReturn
    <3>2. [call[Boot] EXCEPT !.pc = "done", !.res = res] \in CallRecords
      <4>1. "done" \in CallPcs
        BY DEF CallPcs
      <4>2. QED
        BY <1>0, <4>1, CallFields
    <3>3. Proceeds(Boot) /\ call'[Boot].pc = "done"
      BY <1>0, <3>1, <3>2 DEF Proceeds, CallRecords
    <3>4. QED
      BY <1>4, <3>3
  <2>5. QED
    BY <1>6, <2>1, <2>2, <2>3, <2>4 DEF ShutdownStep
<1>7. QED
  BY <1>3, <1>5, <1>6

\* A request begins at no place that ListUMCs or StopUMC hold a lock at.
LEMMA BeginLocks ==
    ASSUME LInv, [Next]_vars, NEW x \in Callers, BeginRequest(x)
    PROVE  LocksInv'
<1>1. PICK op \in Ops \ {"shutdown"}, n \in Names, policy \in Policies :
        call' = [call EXCEPT ![x] = [@ EXCEPT !.op = op, !.name = n, !.policy = policy,
                   !.pc = IF op = "status" THEN "status_lookup" ELSE op]]
  BY DEF BeginRequest, ValidPolicy
<1>2. op \in {"start", "restart", "status", "list", "policy"}
  BY SupervisorAssumption
<1>3. /\ call[x].pc = "idle" /\ UNCHANGED <<pmu, reading, proc>>
      /\ call[x].op # "list" /\ x \notin reading
      /\ call \in [Callers -> CallRecords] /\ ListReads
  <2>1. call[x].pc = "idle" /\ ListReads
    BY DEF BeginRequest, LInv, LocksInv
  <2>2. QED
    BY <2>1 DEF BeginRequest, ListReads, LInv, IInv, TypeOK, InList
<1>4. /\ \A y \in Callers \ {x} : call'[y] = call[y]
      /\ call'[x].op = op
      /\ call'[x].pc = IF op = "status" THEN "status_lookup" ELSE op
  BY <1>1, <1>3 DEF CallRecords
<1>5. HoldersHold'
  BY <1>3, <1>4, OthersHold DEF Holding, StopHolding
<1>6. ListReads'
  BY <1>2, <1>3, <1>4 DEF ListReads, InList
<1>7. KillsAreDead'
  BY <1>2, <1>3, <1>4, KillsStayDead
<1>8. QED
  BY <1>5, <1>6, <1>7, CtxHasWatcherStays DEF LocksInv

\* The steps of a call that neither take nor release a lock across steps.
LEMMA CallLocks ==
    ASSUME LInv, [Next]_vars, NEW x \in Callers,
           \/ StartUMC(x) \/ StartFails(x) \/ RestartUMC(x) \/ StopLookup(x) \/ StopCheck(x)
           \/ StatusLookup(x) \/ SetRestartPolicy(x)
    PROVE  LocksInv'
<1>0. /\ TypeOK /\ WellFormed /\ ListReads
      /\ {"stop_lookup", "stop_check", "stop_acquire", "status_acquire"} \subseteq CallPcs
      /\ call[x] \in CallRecords
  BY DEF LInv, LocksInv, IInv, TypeOK, CallPcs
<1>1. /\ UNCHANGED <<pmu, reading>>
      /\ call[x].pc \in {"start", "restart", "stop_lookup", "stop_check", "status_lookup", "policy"}
  BY DEF StartUMC, StartFails, RestartUMC, StopLookup, StopCheck, StatusLookup, SetRestartPolicy
<1>2. call[x].pc \notin Holding
  BY <1>1 DEF Holding, StopHolding
<1>3. \A p \in Procs : ~ProcUnlocked(p) => proc'[p].Command = proc[p].Command
  <2>1. ASSUME NEW p \in Procs, ~ProcUnlocked(p)  PROVE proc[p].made
    <3>1. pmu[p] \in Callers /\ call[pmu[p]].proc = p /\ call[pmu[p]].pc \in ProcNamed
      BY <1>0, <2>1 DEF LInv, LocksInv, HoldersHold, ProcUnlocked, TypeOK, ProcNamed
    <3>2. QED
      BY <1>0, <3>1 DEF WellFormed
  <2>2. CASE StartUMC(x)
    BY <1>0, <2>1, <2>2 DEF StartUMC, Unused, TypeOK
  <2>3. CASE SetRestartPolicy(x)
    BY <1>0, <2>3 DEF SetRestartPolicy, TypeOK, ProcRecords
  <2>4. CASE ~StartUMC(x) /\ ~SetRestartPolicy(x)
    BY <2>4 DEF StartFails, RestartUMC, StopLookup, StopCheck, StatusLookup
  <2>5. QED
    BY <2>2, <2>3, <2>4
<1>4. call[x].op = "list" => call[x].pc = "status_lookup" /\ call[x].pc \in InList
  BY <1>0, <1>1, NotInList DEF InList
<1>5. ASSUME NEW res \in {"ok", "error"}, Return(x, res)
      PROVE  LocksInv'
  <2>1. Proceeds(x) /\ call'[x].pc = ReturnsTo(call[x].op)
    BY <1>0, <1>5, ReturnProceeds
  <2>2. call'[x].pc \notin {"stop_kill", "list"} /\ (call[x].op = "list" => call'[x].pc \in InList)
    BY <2>1 DEF ReturnsTo, InList
  <2>3. QED
    BY <1>1, <1>2, <1>3, <1>4, <2>1, <2>2, QuietLocks
<1>6. ASSUME NEW pc \in CallPcs \ {"stop_kill", "list"}, Proceeds(x), call'[x].pc = pc,
             call[x].pc = "status_lookup" => pc = "status_acquire"
      PROVE  LocksInv'
  BY <1>1, <1>2, <1>3, <1>4, <1>6, QuietLocks DEF InList
<1>7. CASE StartUMC(x) \/ StartFails(x) \/ SetRestartPolicy(x)
  BY <1>7, <1>5 DEF StartUMC, StartFails, SetRestartPolicy
<1>8. CASE RestartUMC(x)
  BY <1>0, <1>8, <1>5, <1>6, GotoProceeds DEF RestartUMC
<1>9. CASE StopLookup(x)
  <2>1. processes[call[x].name] \in Procs \cup {NoProc}
    BY <1>0 DEF TypeOK, CallRecords
  <2>2. CASE processes[call[x].name] = NoProc
    BY <1>9, <2>2, <1>5 DEF StopLookup
  <2>3. CASE processes[call[x].name] # NoProc
    <3>1. call' = [call EXCEPT ![x] = [@ EXCEPT !.pc = "stop_check",
                                                !.proc = processes[call[x].name]]]
      BY <1>9, <2>3 DEF StopLookup
    <3>2. Proceeds(x) /\ call'[x].pc = "stop_check"
      BY <1>0, <2>1, <3>1, FindProceeds
    <3>3. QED
      BY <1>0, <1>9, <3>2, <1>6 DEF StopLookup
  <2>4. QED
    BY <2>2, <2>3
<1>10. CASE StopCheck(x)
  BY <1>0, <1>10, <1>5, <1>6, GotoProceeds DEF StopCheck
<1>11. CASE StatusLookup(x)
  <2>1. processes[call[x].name] \in Procs \cup {NoProc}
    BY <1>0 DEF TypeOK, CallRecords
  <2>2. CASE processes[call[x].name] = NoProc
    BY <1>11, <2>2, <1>5 DEF StatusLookup
  <2>3. CASE processes[call[x].name] # NoProc
    <3>1. call' = [call EXCEPT ![x] = [@ EXCEPT !.pc = "status_acquire",
                                                !.proc = processes[call[x].name]]]
      BY <1>11, <2>3 DEF StatusLookup
    <3>2. Proceeds(x) /\ call'[x].pc = "status_acquire"
      BY <1>0, <2>1, <3>1, FindProceeds
    <3>3. QED
      BY <1>0, <1>11, <3>2, <1>6 DEF StatusLookup
  <2>4. QED
    BY <2>2, <2>3
<1>12. QED
  BY <1>7, <1>8, <1>9, <1>10, <1>11

\* A process that has started is dead after a Kill.
LEMMA KilledDies ==
    ASSUME cmd \in [Cmds -> CmdRecords(Ctxs)], NEW c \in Cmds, cmd[c].life # "none",
           cmd' = Killed(c)
    PROVE  cmd'[c].life \in {"exited", "reaped"}
<1>1. cmd[c] \in CmdRecords(Ctxs) /\ cmd[c].life \in Lives
  BY DEF CmdRecords
<1>2. CASE Alive(c)
  <2>1. cmd'[c] = [cmd[c] EXCEPT !.life = "exited", !.code = "fail"]
    BY <1>2 DEF Killed
  <2>2. QED
    BY <1>1, <2>1 DEF CmdRecords
<1>3. CASE ~Alive(c)
  BY <1>1, <1>3 DEF Killed, Alive, Lives
<1>4. QED
  BY <1>2, <1>3

\* StopUMC takes proc.mu, and keeps it over the Kill of a Command that is dead then.
LEMMA StopLocks ==
    ASSUME LInv, [Next]_vars, NEW x \in Callers, StopAcquire(x) \/ StopTimeout(x)
    PROVE  LocksInv'
<1>0. /\ TypeOK /\ ListReads /\ call[x] \in CallRecords
      /\ {"stop_wait", "stop_kill"} \subseteq CallPcs
      /\ UNCHANGED <<proc, reading>>
  BY DEF LInv, LocksInv, IInv, TypeOK, CallPcs, StopAcquire, StopTimeout
<1>1. /\ call[x].pc \in {"stop_acquire", "stop_wait"} /\ call[x].op # "list"
      /\ call[x].proc \in Procs
  <2>1. call[x].pc \in {"stop_acquire", "stop_wait"}
    BY DEF StopAcquire, StopTimeout
  <2>2. QED
    BY <1>0, <2>1, NotInList DEF InList, LInv, IInv, WellFormed, ProcNamed, StopHolding
<1>2. CASE StopAcquire(x)
  <2>1. Proceeds(x) /\ call'[x].pc = "stop_wait" /\ call'[x].proc = call[x].proc
    BY <1>0, <1>2, GotoProceeds DEF StopAcquire
  <2>2. HoldersHold'
    BY <1>1, <1>2, <2>1, TakesHold DEF StopAcquire, Proceeds, Holding, StopHolding
  <2>3. ListReads'
    BY <1>0, <1>1, <2>1, ReadersStay
  <2>4. KillsAreDead'
    BY <1>0, <2>1, KillsStayDead DEF Proceeds
  <2>5. QED
    BY <2>2, <2>3, <2>4, CtxHasWatcherStays DEF LocksInv
<1>3. CASE StopTimeout(x)
  <2>1. Proceeds(x) /\ call'[x].pc = "stop_kill" /\ call'[x].proc = call[x].proc
    BY <1>0, <1>3, GotoProceeds DEF StopTimeout
  <2>2. HoldersHold'
    <3>1. UNCHANGED pmu /\ call[x].pc \in Holding /\ call'[x].pc \in Holding
      BY <1>3, <2>1 DEF StopTimeout, Holding, StopHolding
    <3>2. \A p \in Procs : pmu[p] # Free => /\ pmu[p] \in Callers
                                             /\ call[pmu[p]].pc \in Holding
                                             /\ call[pmu[p]].proc = p
      BY <1>0 DEF LInv, LocksInv, HoldersHold, TypeOK, Holding
    <3>3. QED
      BY <2>1, <3>1, <3>2 DEF Proceeds, HoldersHold, Holding
  <2>3. ListReads'
    BY <1>0, <1>1, <2>1, ReadersStay
  <2>4. KillsAreDead'
    <3>1. \A y \in Callers : call[y].pc = "stop_kill" => /\ proc[call[y].proc].Command \in Cmds
                                                         /\ Dead(proc[call[y].proc].Command)
      BY DEF LInv, LocksInv, KillsAreDead, IInv, WellFormed, ProcNamed, StopHolding
    <3>2. \A c \in Cmds : Dead(c) => Dead(c)'
      BY CmdsStay DEF LInv, Dead
    <3>3. cmd'[proc[call[x].proc].Command].life \in {"exited", "reaped"}
      <4>1. /\ proc[call[x].proc].Command \in Cmds
            /\ cmd[proc[call[x].proc].Command].life # "none"
        BY <1>3 DEF StopTimeout, LInv, IInv, WellFormed, ProcNamed, StopHolding
      <4>2. cmd \in [Cmds -> CmdRecords(Ctxs)]
        BY <1>0 DEF TypeOK
      <4>3. cmd' = Killed(proc[call[x].proc].Command)
        BY <1>3 DEF StopTimeout
      <4>4. QED
        BY <1>0, <4>1, <4>2, <4>3, KilledDies
    <3>4. QED
      BY <1>0, <2>1, <3>1, <3>2, <3>3 DEF KillsAreDead, Proceeds, Dead
  <2>5. QED
    BY <2>2, <2>3, <2>4, CtxHasWatcherStays DEF LocksInv
<1>4. QED
  BY <1>2, <1>3

\* StopUMC and StatusUMC release it when they return.
LEMMA ReleaseLocks ==
    ASSUME LInv, [Next]_vars, NEW x \in Callers, StopDone(x) \/ StopKilled(x) \/ StatusHealth(x)
    PROVE  LocksInv'
<1>0. /\ TypeOK /\ ListReads /\ call[x] \in CallRecords /\ "start" \in CallPcs
      /\ UNCHANGED reading
  BY DEF LInv, LocksInv, IInv, TypeOK, CallPcs, StopDone, StopKilled, StatusHealth
<1>1. /\ pmu' = [pmu EXCEPT ![call[x].proc] = Free]
      /\ call[x].pc \in {"stop_wait", "stop_kill", "status_health"}
      /\ call[x].pc \in Holding
      /\ call[x].proc \in Procs
  BY DEF StopDone, StopKilled, StopReturn, StatusHealth, Holding, StopHolding,
         LInv, IInv, WellFormed, ProcNamed
<1>2. \A p \in Procs : proc'[p].Command = proc[p].Command
  <2>1. proc' = proc \/ proc' = [proc EXCEPT ![call[x].proc].Running = FALSE]
    BY DEF StopDone, StopKilled, StopReturn, StatusHealth
  <2>2. QED
    BY <1>0, <2>1 DEF TypeOK, ProcRecords
<1>3. ASSUME Proceeds(x), call'[x].pc \notin {"stop_kill", "list"},
             call[x].op = "list" => call'[x].pc \in InList
      PROVE  LocksInv'
  <2>1. HoldersHold'
    BY <1>1, <1>3, ReleasesHold DEF Proceeds
  <2>2. ListReads'
    <3>1. call[x].op = "list" => call[x].pc \in InList
      BY <1>0, <1>1, NotInList DEF InList
    <3>2. QED
      BY <1>0, <1>3, <3>1, ReadersStay
  <2>3. KillsAreDead'
    <3>1. \A y \in Callers : call[y].pc = "stop_kill" => call[y].proc \in Procs
      BY HoldersDiffer DEF LInv, Holding, StopHolding
    <3>2. QED
      BY <1>2, <1>3, <3>1, KillsStayDead DEF Proceeds
  <2>4. QED
    BY <2>1, <2>2, <2>3, CtxHasWatcherStays DEF LocksInv
<1>4. ASSUME NEW res \in {"ok", "error"}, Return(x, res)
      PROVE  LocksInv'
  <2>1. Proceeds(x) /\ call'[x].pc = ReturnsTo(call[x].op)
    BY <1>0, <1>4, ReturnProceeds
  <2>2. call'[x].pc \notin {"stop_kill", "list"} /\ (call[x].op = "list" => call'[x].pc \in InList)
    BY <2>1 DEF ReturnsTo, InList
  <2>3. QED
    BY <1>3, <2>1, <2>2
<1>5. CASE StatusHealth(x)
  BY <1>4, <1>5 DEF StatusHealth
<1>6. CASE StopReturn(x)
  <2>1. CASE call[x].op = "restart"
    <3>1. Proceeds(x) /\ call'[x].pc = "start"
      BY <1>0, <1>6, <2>1, FindProceeds DEF StopReturn
    <3>2. QED
      BY <1>3, <2>1, <3>1
  <2>2. CASE call[x].op # "restart"
    BY <1>4, <1>6, <2>2 DEF StopReturn
  <2>3. QED
    BY <2>1, <2>2
<1>7. QED
  BY <1>5, <1>6 DEF StopDone, StopKilled

\* StatusUMC takes it for the health check of a running process, and else returns.
LEMMA StatusLocks ==
    ASSUME LInv, [Next]_vars, NEW x \in Callers, StatusAcquire(x)
    PROVE  LocksInv'
<1>0. /\ TypeOK /\ ListReads /\ "status_health" \in CallPcs
      /\ UNCHANGED <<reading, proc>> /\ call[x].pc = "status_acquire"
      /\ call[x].proc \in Procs
  BY DEF LInv, LocksInv, IInv, CallPcs, StatusAcquire, WellFormed, ProcNamed
<1>1. call[x].pc \in InList /\ call[x].pc \notin Holding
  BY <1>0 DEF InList, Holding, StopHolding
<1>2. CASE proc[call[x].proc].Running
  <2>1. Proceeds(x) /\ call'[x].pc = "status_health" /\ call'[x].proc = call[x].proc
    BY <1>0, <1>2, GotoProceeds DEF StatusAcquire
  <2>2. HoldersHold'
    BY <1>0, <1>1, <1>2, <2>1, TakesHold DEF StatusAcquire, Proceeds, Holding
  <2>3. ListReads'
    BY <1>0, <1>1, <2>1, ReadersStay DEF InList
  <2>4. KillsAreDead'
    BY <1>0, <2>1, KillsStayDead DEF Proceeds
  <2>5. QED
    BY <2>2, <2>3, <2>4, CtxHasWatcherStays DEF LocksInv
<1>3. CASE ~proc[call[x].proc].Running
  <2>1. Return(x, "ok") /\ UNCHANGED pmu
    BY <1>3 DEF StatusAcquire
  <2>2. Proceeds(x) /\ call'[x].pc = ReturnsTo(call[x].op)
    BY <1>0, <2>1, ReturnProceeds
  <2>3. call'[x].pc \notin {"stop_kill", "list"} /\ (call[x].op = "list" => call'[x].pc \in InList)
    BY <2>2 DEF ReturnsTo, InList
  <2>4. QED
    BY <1>0, <1>1, <2>1, <2>2, <2>3, QuietLocks
<1>4. QED
  BY <1>2, <1>3

\* ListUMCs takes the read lock, goes through the entries and releases it.
LEMMA ListLocks ==
    ASSUME LInv, [Next]_vars, NEW x \in Callers, ListLock(x) \/ ListNext(x)
    PROVE  LocksInv'
<1>0. /\ TypeOK /\ ListReads /\ call[x] \in CallRecords /\ call \in [Callers -> CallRecords]
      /\ {"status_lookup", "list_next", "done"} \subseteq CallPcs
      /\ UNCHANGED <<pmu, proc>> /\ call[x].pc \in {"list", "list_next"}
  BY DEF LInv, LocksInv, IInv, TypeOK, CallPcs, ListLock, ListNext
<1>1. call[x].pc \notin Holding
  BY <1>0 DEF Holding, StopHolding
<1>2. ASSUME Proceeds(x), call'[x].pc # "stop_kill", ListReads'
      PROVE  LocksInv'
  <2>1. HoldersHold'
    BY <1>0, <1>1, <1>2, OthersHold DEF Proceeds
  <2>2. KillsAreDead'
    BY <1>0, <1>2, KillsStayDead DEF Proceeds
  <2>3. QED
    BY <1>2, <2>1, <2>2, CtxHasWatcherStays DEF LocksInv
<1>3. call[x].pc = "list" => call[x].op = "list"
  BY <1>0 DEF ListReads
<1>4. CASE ListLock(x)
  <2>1. {n \in Names : processes[n] # NoProc} \in SUBSET Names
    OBVIOUS
  <2>2. [call[x] EXCEPT !.pc = "list_next", !.todo = {n \in Names : processes[n] # NoProc}]
          \in CallRecords
    BY <1>0, <2>1, CallFields
  <2>3. /\ Proceeds(x) /\ call'[x].pc = "list_next" /\ reading' = reading \cup {x}
        /\ call[x].pc = "list"
    BY <1>0, <1>4, <2>2 DEF ListLock, Proceeds, CallRecords
  <2>4. ListReads'
    BY <1>0, <1>3, <2>3 DEF ListReads, Proceeds, InList
  <2>5. QED
    BY <1>2, <2>3, <2>4
<1>5. CASE ListNext(x) /\ call[x].todo = {}
  <2>2. Proceeds(x) /\ call'[x].pc = "done" /\ reading' = reading \ {x}
    BY <1>0, <1>5, ListEnds
  <2>3. ListReads'
    BY <1>0, <1>3, <2>2 DEF ListReads, Proceeds, InList
  <2>4. QED
    BY <1>2, <2>2, <2>3
<1>6. CASE ListNext(x) /\ call[x].todo # {}
  <2>1. UNCHANGED reading /\ call[x].pc = "list_next"
    BY <1>6 DEF ListNext
  <2>2. Proceeds(x) /\ call'[x].pc = "status_lookup"
    BY <1>0, <1>6, NextProceeds DEF ListNext
  <2>3. ListReads'
    BY <1>0, <2>1, <2>2, ReadersStay DEF InList
  <2>4. QED
    BY <1>2, <2>2, <2>3
<1>7. QED
  BY <1>4, <1>5, <1>6

\* Monitors publish under proc.mu, so no Command changes that StopUMC has killed; the
\* processes and the Waits touch no lock.
LEMMA OthersLocks ==
    ASSUME LInv, [Next]_vars,
           \/ \E p \in Procs : MonitorStep(p)
           \/ \E c \in Cmds : ProcessExit(c) \/ ContextKill(c)
           \/ \E w \in Waiters : WaitProgress(w)
           \/ UNCHANGED vars
    PROVE  LocksInv'
<1>0. TypeOK
  BY DEF LInv, IInv
<1>1. /\ UNCHANGED <<pmu, reading, call>>
      /\ UNCHANGED proc \/ \E p \in Procs : MonitorExited(p) \/ MonitorPublish(p)
  BY DEF MonitorStep, MonitorTop, MonitorExited, MonitorBackoff, MonitorRestart,
         MonitorGivesUp, MonitorPublish, ProcessExit, ContextKill, WaitProgress, vars
<1>2. HoldersHold' /\ ListReads'
  BY <1>1 DEF LInv, LocksInv, HoldersHold, ListReads
<1>3. ASSUME NEW q \in Procs, ~ProcUnlocked(q)
      PROVE  proc'[q].Command = proc[q].Command
  <2>1. CASE UNCHANGED proc
    BY <2>1
  <2>2. ASSUME NEW p \in Procs, MonitorExited(p)  PROVE proc'[q].Command = proc[q].Command
    BY <1>0, <2>2 DEF MonitorExited, TypeOK, ProcRecords
  <2>3. ASSUME NEW p \in Procs, MonitorPublish(p)  PROVE proc'[q].Command = proc[q].Command
    <3>1. p # q
      BY <1>3, <2>3 DEF MonitorPublish
    <3>2. QED
      BY <1>0, <2>3, <3>1 DEF MonitorPublish, TypeOK
  <2>4. QED
    BY <1>1, <2>1, <2>2, <2>3
<1>4. KillsAreDead'
  <2>1. \A y \in Callers : call[y].pc = "stop_kill" =>
            call[y].proc \in Procs /\ ~ProcUnlocked(call[y].proc)
    BY HoldersDiffer DEF LInv, Holding, StopHolding
  <2>2. QED
    BY <1>1, <1>3, <2>1, KillsStayDead
<1>5. QED
  BY <1>2, <1>4, CtxHasWatcherStays DEF LocksInv

-----------------------------------------------------------------------------
(***************************************************************************)
(* The invariant of the locks.                                             *)
(***************************************************************************)

\* Nobody holds a lock before the launcher starts.
LEMMA InitLocks ==
    ASSUME Init
    PROVE  LocksInv
<1>1. HoldersHold
  BY DEF Init, HoldersHold
<1>2. ListReads
  BY DEF Init, ListReads, InList
<1>3. KillsAreDead /\ CtxHasWatcher
  BY DEF Init, KillsAreDead, CtxHasWatcher, IdleWait
<1>4. QED
  BY <1>1, <1>2, <1>3 DEF LocksInv

\* The invariant is inductive.
LEMMA StepLocks ==
    ASSUME LInv, [Next]_vars
    PROVE  LocksInv'
<1>1. CASE BootNext \/ ShutdownBegin \/ ShutdownStep
  BY <1>1, LauncherLocks
<1>2. ASSUME NEW x \in Callers, BeginRequest(x) \/ CallStep(x)
      PROVE  LocksInv'
  BY <1>2, BeginLocks, CallLocks, StopLocks, ReleaseLocks, StatusLocks, ListLocks
  DEF CallStep, StopStep, StatusStep
<1>3. CASE \/ \E p \in Procs : MonitorStep(p)
           \/ \E c \in Cmds : ProcessExit(c) \/ ContextKill(c)
           \/ \E w \in Waiters : WaitProgress(w)
           \/ UNCHANGED vars
  BY <1>3, OthersLocks
<1>4. QED
  BY <1>1, <1>2, <1>3 DEF Next

\* Who holds which lock (supervisor.go:80, 97), for every number of requests.
THEOREM LocksHeld == Spec => []LocksInv
<1>1. Init => LInv
  BY InitIInv, InitLocks DEF LInv
<1>2. LInv /\ [Next]_vars => LInv'
  BY StepIInv, StepLocks DEF LInv
<1>3. LInv => LocksInv
  BY DEF LInv
<1>4. QED
  BY <1>1, <1>2, <1>3, PTL DEF Spec

-----------------------------------------------------------------------------
(***************************************************************************)
(* No deadlock but the two known ones.                                     *)
(***************************************************************************)

Goes(x) == CanGo(x) \/ Recursive(x) \/ StuckWait(x)

\* The chain of those waited for grows with every link.
LEMMA ChainGrows ==
    ASSUME NEW x, NEW y \in WaitsFor(x)
    PROVE  /\ x \in Chain({x})
           /\ y \in Chain({x})
           /\ Chain({y}) \subseteq Chain(Chain({x}))
           /\ Chain(Chain({y})) \subseteq Chain(Chain(Chain({x})))
<1>1. ASSUME NEW S, NEW T, S \subseteq T
      PROVE  S \subseteq Chain(S) /\ Chain(S) \subseteq Chain(T)
  BY <1>1 DEF Chain
<1>2. x \in Chain({x}) /\ y \in Chain({x})
  BY DEF Chain
<1>3. {y} \subseteq Chain({x})
  BY <1>2
<1>4. Chain({y}) \subseteq Chain(Chain({x}))
  BY <1>1, <1>3
<1>5. Chain(Chain({y})) \subseteq Chain(Chain(Chain({x})))
  BY <1>1, <1>4
<1>6. QED
  BY <1>2, <1>4, <1>5

\* The holder of a proc.mu waits for no lock, and for no live process.
LEMMA HolderGoes ==
    ASSUME LInv, NEW x \in Callers, call[x].pc \in Holding
    PROVE  CanGo(x) \/ StuckWait(x)
<1>1. call[x].pc \notin Resting \cup Writing \cup RLocking \cup ProcLocking
  BY DEF Holding, StopHolding, Resting, Writing, RLocking, ProcLocking
<1>2. CASE call[x].pc # "stop_kill"
  BY <1>1, <1>2 DEF CanGo, Blocked
<1>3. CASE call[x].pc = "stop_kill"
  <2> DEFINE k == Killer(x, call[x].proc)
  <2>1. k \in Waiters
    BY HoldersDiffer, WaitersDiffer DEF LInv
  <2>2. wt[k].cmd = proc[call[x].proc].Command /\ Dead(wt[k].cmd)
    BY <1>3 DEF LInv, LocksInv, KillsAreDead, IInv, StopHoldsItsProc
  <2>3. wt[k].pc = "ctx" => cmd[wt[k].cmd].ctx # NoCtx
    BY <2>1 DEF LInv, LocksInv, CtxHasWatcher
  <2>4. WaitBlocked(k) => StuckWait(x)
    BY <1>3, <2>2, <2>3 DEF WaitBlocked, StuckWait
  <2>5. QED
    BY <1>1, <1>3, <2>4 DEF CanGo, Blocked
<1>4. QED
  BY <1>2, <1>3

\* Whoever is at a proc.mu can go, or waits for a holder that does.
LEMMA ProcLockerGoes ==
    ASSUME LInv, NEW x \in Callers, call[x].pc \in ProcLocking
    PROVE  \E y \in Chain({x}) : Goes(y)
<1>1. call[x].proc \in Procs /\ call[x].pc \notin Resting \cup Writing \cup RLocking \cup {"stop_kill"}
  BY DEF LInv, IInv, WellFormed, ProcNamed, Resting, Writing, RLocking, ProcLocking
<1>2. CASE ProcUnlocked(call[x].proc)
  <2>1. CanGo(x)
    BY <1>1, <1>2 DEF CanGo, Blocked
  <2>2. QED
    BY <2>1 DEF Goes, Chain
<1>3. CASE ~ProcUnlocked(call[x].proc)
  <2> DEFINE y == pmu[call[x].proc]
  <2>1. y \in Callers /\ call[y].pc \in Holding
    BY <1>1, <1>3 DEF LInv, LocksInv, HoldersHold, IInv, TypeOK, ProcUnlocked, Holding
  <2>2. CanGo(y) \/ StuckWait(y)
    BY <2>1, HolderGoes
  <2>3. y \in WaitsFor(x)
    BY <1>1, <1>3 DEF WaitsFor
  <2>4. QED
    BY <2>2, <2>3, ChainGrows DEF Goes
<1>4. QED
  BY <1>2, <1>3

\* A reader can go, or is at the second RLock behind a writer, or at a proc.mu.
LEMMA ReaderGoes ==
    ASSUME LInv, NEW x \in reading
    PROVE  \E y \in Chain({x}) : Goes(y)
<1>1. x \in Callers /\ call[x].pc \in InList
  BY DEF LInv, LocksInv, ListReads, IInv, TypeOK
<1>2. x \in Chain({x})
  BY DEF Chain
<1>3. CASE call[x].pc = "status_acquire"
  BY <1>1, <1>3, ProcLockerGoes DEF ProcLocking
<1>4. CASE call[x].pc = "status_health"
  BY <1>1, <1>2, <1>4, HolderGoes DEF Goes, Holding
<1>5. CASE call[x].pc = "list_next"
  <2>1. CanGo(x)
    BY <1>5 DEF CanGo, Blocked, Resting, Writing, RLocking, ProcLocking
  <2>2. QED
    BY <1>2, <2>1 DEF Goes
<1>6. CASE call[x].pc = "status_lookup"
  <2>1. CanGo(x) \/ Recursive(x)
    BY <1>6 DEF CanGo, Blocked, Recursive, CanRLock, Resting, Writing, RLocking, ProcLocking
  <2>2. QED
    BY <1>2, <2>1 DEF Goes
<1>7. QED
  BY <1>1, <1>3, <1>4, <1>5, <1>6 DEF InList

\* A writer can go, or waits for the readers.
LEMMA WriterGoes ==
    ASSUME LInv, NEW x \in Callers, call[x].pc \in Writing
    PROVE  \E y \in Chain(Chain({x})) : Goes(y)
<1>1. call[x].pc \notin Resting \cup RLocking \cup ProcLocking \cup {"stop_kill"}
  BY DEF Writing, Resting, RLocking, ProcLocking
<1>2. CASE reading = {}
  <2>1. CanGo(x)
    BY <1>1, <1>2 DEF CanGo, Blocked, CanLock
  <2>2. QED
    BY <2>1 DEF Goes, Chain
<1>3. CASE reading # {}
  <2>1. PICK r \in reading : TRUE
    BY <1>3
  <2>2. r \in WaitsFor(x)
    BY <1>1, <2>1 DEF WaitsFor
  <2>3. Chain({r}) \subseteq Chain(Chain({x}))
    BY <2>2, ChainGrows
  <2>4. QED
    BY <2>3, ReaderGoes
<1>4. QED
  BY <1>2, <1>3

\* So the locks are taken in an order that only ListUMCs breaks.
LEMMA EveryoneGoes ==
    ASSUME LInv
    PROVE  OnlyKnownDeadlocks
<1>1. ASSUME NEW x \in Callers, call[x].pc \notin Resting
      PROVE  \E y \in Chain(Chain(Chain({x}))) : Goes(y)
  <2>0. \A S : S \subseteq Chain(S)
    BY DEF Chain
  <2>1. CASE call[x].pc \in Writing
    BY <2>0, <2>1, WriterGoes
  <2>2. CASE call[x].pc \in RLocking
    <3>1. CASE WriterWaits
      <4>1. PICK y \in Callers : call[y].pc \in Writing
        BY <3>1 DEF WriterWaits
      <4>2. call[x].pc \notin Writing \cup ProcLocking
        BY <2>2 DEF Writing, RLocking, ProcLocking
      <4>3. WaitsFor(x) = {z \in Callers : call[z].pc \in Writing}
        BY <2>2, <4>2 DEF WaitsFor
      <4>a. y \in WaitsFor(x)
        BY <4>1, <4>3
      <4>4. Chain(Chain({y})) \subseteq Chain(Chain(Chain({x})))
        BY <4>a, ChainGrows
      <4>5. QED
        BY <4>1, <4>4, WriterGoes
    <3>2. CASE ~WriterWaits
      <4>1. CanGo(x)
        BY <1>1, <2>2, <3>2 DEF CanGo, Blocked, CanRLock, Writing, RLocking, ProcLocking
      <4>2. QED
        BY <2>0, <4>1 DEF Goes
    <3>3. QED
      BY <3>1, <3>2
  <2>3. CASE call[x].pc \in ProcLocking
    BY <2>0, <2>3, ProcLockerGoes
  <2>4. CASE call[x].pc \in Holding
    <3>1. Goes(x)
      BY <2>4, HolderGoes DEF Goes
    <3>2. QED
      BY <2>0, <3>1
  <2>5. CASE call[x].pc \notin Writing \cup RLocking \cup ProcLocking \cup Holding
    <3>1. Goes(x)
      BY <1>1, <2>5 DEF Goes, CanGo, Blocked, Holding, StopHolding
    <3>2. QED
      BY <2>0, <3>1
  <2>6. QED
    BY <2>1, <2>2, <2>3, <2>4, <2>5
<1>2. ASSUME NEW p \in Procs, ~ProcUnlocked(p)
      PROVE  CanGo(pmu[p]) \/ StuckWait(pmu[p])
  <2>1. pmu[p] \in Callers /\ call[pmu[p]].pc \in Holding
    BY <1>2 DEF LInv, LocksInv, HoldersHold, IInv, TypeOK, ProcUnlocked, Holding
  <2>2. QED
    BY <2>1, HolderGoes
<1>3. QED
  BY <1>1, <1>2 DEF OnlyKnownDeadlocks, Goes

\* The goroutines of the supervisor block each other for ever in two ways only: the
\* recursive RLock of ListUMCs (supervisor.go:267, 272) and the second Wait of StopUMC
\* (223); s.mu and each proc.mu are taken in one order otherwise.
THEOREM DeadlocksAreKnown == Spec => []OnlyKnownDeadlocks
<1>1. Init => LInv
  BY InitIInv, InitLocks DEF LInv
<1>2. LInv /\ [Next]_vars => LInv'
  BY StepIInv, StepLocks DEF LInv
<1>3. LInv => OnlyKnownDeadlocks
  BY EveryoneGoes
<1>4. QED
  BY <1>1, <1>2, <1>3, PTL DEF Spec

-----------------------------------------------------------------------------
(***************************************************************************)
(* Without a list there is no recursive read lock.                         *)
(***************************************************************************)

\* A step of a call leaves its operation and the other goroutines alone, and does not
\* come to ListUMCs.
LEMMA CallProceeds ==
    ASSUME LInv, NEW x \in Callers, CallStep(x)
    PROVE  Proceeds(x) /\ call'[x].pc # "list"
<1>0. /\ TypeOK /\ call[x] \in CallRecords /\ call \in [Callers -> CallRecords]
      /\ {"stop_lookup", "stop_check", "stop_acquire", "stop_wait", "stop_kill", "start", "done",
          "status_lookup", "status_acquire", "status_health", "list_next"} \subseteq CallPcs
      /\ processes[call[x].name] \in Procs \cup {NoProc}
  BY DEF LInv, IInv, TypeOK, CallPcs, CallRecords
<1>1. ASSUME NEW res \in {"ok", "error"}, Return(x, res)
      PROVE  Proceeds(x) /\ call'[x].pc # "list"
  BY <1>0, <1>1, ReturnProceeds DEF ReturnsTo
<1>2. ASSUME NEW pc \in CallPcs \ {"list"}, Goto(x, pc)
      PROVE  Proceeds(x) /\ call'[x].pc # "list"
  BY <1>0, <1>2, GotoProceeds
<1>3. ASSUME NEW pc \in CallPcs \ {"list"}, NEW p \in Procs \cup {NoProc},
             call' = [call EXCEPT ![x] = [@ EXCEPT !.pc = pc, !.proc = p]]
      PROVE  Proceeds(x) /\ call'[x].pc # "list"
  <2>1. Proceeds(x) /\ call'[x].pc = pc
    BY <1>0, <1>3, FindProceeds
  <2>2. QED
    BY <2>1
<1>4. CASE StartUMC(x) \/ StartFails(x) \/ RestartUMC(x) \/ SetRestartPolicy(x)
  BY <1>0, <1>4, <1>1, <1>2 DEF StartUMC, StartFails, RestartUMC, SetRestartPolicy
<1>5. CASE StopLookup(x)
  BY <1>0, <1>5, <1>1, <1>3 DEF StopLookup
<1>6. CASE StopCheck(x) \/ StopAcquire(x) \/ StopTimeout(x)
  BY <1>0, <1>6, <1>1, <1>2 DEF StopCheck, StopAcquire, StopTimeout
<1>7. CASE StopDone(x) \/ StopKilled(x)
  BY <1>0, <1>7, <1>1, <1>3 DEF StopDone, StopKilled, StopReturn
<1>8. CASE StatusLookup(x)
  BY <1>0, <1>8, <1>1, <1>3 DEF StatusLookup
<1>9. CASE StatusAcquire(x) \/ StatusHealth(x)
  BY <1>0, <1>9, <1>1, <1>2 DEF StatusAcquire, StatusHealth
<1>10. CASE ListLock(x)
  <2>1. [call[x] EXCEPT !.pc = "list_next", !.todo = {n \in Names : processes[n] # NoProc}]
          \in CallRecords
    <3>1. {n \in Names : processes[n] # NoProc} \in SUBSET Names
      OBVIOUS
    <3>2. QED
      BY <1>0, <3>1, CallFields
  <2>2. QED
    BY <1>0, <1>10, <2>1 DEF ListLock, Proceeds, CallRecords
<1>11. CASE ListNext(x) /\ call[x].todo = {}
  <2>1. Proceeds(x) /\ call'[x].pc = "done"
    BY <1>0, <1>11, ListEnds
  <2>2. QED
    BY <2>1
<1>12. CASE ListNext(x) /\ call[x].todo # {}
  <2>1. Proceeds(x) /\ call'[x].pc = "status_lookup"
    BY <1>0, <1>12, NextProceeds DEF ListNext
  <2>2. QED
    BY <2>1
<1>13. QED
  BY <1>4, <1>5, <1>6, <1>7, <1>8, <1>9, <1>10, <1>11, <1>12
  DEF CallStep, StopStep, StatusStep

\* Without a GET of the list nobody reads across steps, so the first deadlock is the
\* making of ListUMCs alone (265-276).
THEOREM OnlyListRecurses ==
    ASSUME "list" \notin Ops
    PROVE  Spec => [](\A x \in Callers : ~Recursive(x))
<1> DEFINE Unlisted == \A x \in Callers : call[x].op # "list"
<1>1. Init => LInv /\ Unlisted
  <2>1. Init => Unlisted
    BY DEF Init
  <2>2. QED
    BY <2>1, InitIInv, InitLocks DEF LInv
<1>2. LInv /\ Unlisted /\ [Next]_vars => LInv' /\ Unlisted'
  <2> SUFFICES ASSUME LInv, Unlisted, [Next]_vars  PROVE Unlisted'
    BY StepIInv, StepLocks DEF LInv
  <2>1. call \in [Callers -> CallRecords]
    BY DEF LInv, IInv, TypeOK
  <2>2. ASSUME NEW x \in Callers, BeginRequest(x)  PROVE Unlisted'
    BY <2>1, <2>2 DEF BeginRequest, CallRecords
  <2>3. CASE ShutdownBegin
    BY <2>1, <2>3 DEF ShutdownBegin, CallRecords
  <2>4. ASSUME NEW x \in Callers, CallStep(x)  PROVE Unlisted'
    BY <2>4, CallProceeds DEF Proceeds
  <2>5. CASE BootNext
    <3>1. CASE call[Boot].todo = {}
      BY <2>1, <2>5, <3>1 DEF BootNext, Goto, CallRecords
    <3>2. CASE call[Boot].todo # {}
      <4>1. Boot \in Callers /\ TypeOK /\ "start" \in CallPcs
        BY DEF Callers, LInv, IInv, CallPcs
      <4>2. Proceeds(Boot)
        BY <2>5, <3>2, <4>1, NextProceeds DEF BootNext
      <4>3. QED
        BY <4>2 DEF Proceeds
    <3>3. QED
      BY <3>1, <3>2
  <2>6. CASE ShutdownStep
    <3>1. call[Boot] \in CallRecords /\ Boot \in Callers
      BY <2>1 DEF Callers
    <3>2. PICK r : r.op = call[Boot].op /\ call' = [call EXCEPT ![Boot] = r]
      <4>1. CASE ShutdownSnapshot
        BY <3>1, <4>1 DEF ShutdownSnapshot, CallRecords
      <4>2. CASE ShutdownNext
        BY <3>1, <4>2 DEF ShutdownNext, Goto, CallRecords
      <4>3. CASE CloseStopChan
        BY <3>1, <4>3 DEF CloseStopChan, Goto, CallRecords
      <4>4. CASE ShutdownReturn
        BY <3>1, <4>4 DEF ShutdownReturn, Goto, CallRecords
      <4>5. QED
        BY <2>6, <4>1, <4>2, <4>3, <4>4 DEF ShutdownStep
    <3>3. QED
      BY <2>1, <3>1, <3>2
  <2>7. CASE \/ \E p \in Procs : MonitorStep(p)
             \/ \E c \in Cmds : ProcessExit(c) \/ ContextKill(c)
             \/ \E w \in Waiters : WaitProgress(w)
             \/ UNCHANGED vars
    <3>1. UNCHANGED call
      BY <2>7 DEF MonitorStep, MonitorTop, MonitorExited, MonitorBackoff, MonitorRestart,
             MonitorGivesUp, MonitorPublish, ProcessExit, ContextKill, WaitProgress, vars
    <3>2. QED
      BY <3>1
  <2>8. QED
    BY <2>2, <2>3, <2>4, <2>5, <2>6, <2>7 DEF Next
<1>3. LInv /\ Unlisted => \A x \in Callers : ~Recursive(x)
  BY DEF LInv, LocksInv, ListReads, Recursive
<1>4. QED
  BY <1>1, <1>2, <1>3, PTL DEF Spec

=============================================================================
