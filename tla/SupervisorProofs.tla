------------------------- MODULE SupervisorProofs -------------------------
(***************************************************************************)
(* Proofs about Supervisor, for any number of names, UMCProcesses, Cmds    *)
(* and requests, and any choice of the operations they ask for.            *)
(***************************************************************************)
EXTENDS Supervisor, TLAPS

-----------------------------------------------------------------------------
(***************************************************************************)
(* The inductive invariant behind the safety properties, by parts.         *)
(***************************************************************************)

ProcNamed == {"stop_check", "stop_acquire", "status_acquire", "status_health"} \cup StopHolding

\* A UMCProcess has a monitor, and a Command that was started for it; so has what the
\* monitor is about to publish; the map and the callers refer to none but these.
WellFormed ==
    /\ \A p \in Procs :
          /\ proc[p].made <=> mon[p].pc # "off"
          /\ proc[p].made => /\ proc[p].Command \in Cmds
                             /\ cmd[proc[p].Command].life # "none"
                             /\ owner[proc[p].Command] = p
          /\ mon[p].pc = "publish" => /\ mon[p].new \in Cmds
                                      /\ cmd[mon[p].new].life # "none"
                                      /\ owner[mon[p].new] = p
    /\ \A n \in Names : processes[n] # NoProc => proc[processes[n]].made
    /\ \A x \in Callers : call[x].pc \in ProcNamed =>
                            call[x].proc \in Procs /\ proc[call[x].proc].made

\* A Wait call past the wait for the process has seen it dead, and ProcessState is
\* only set for a dead process.
WaitersSawExit ==
    /\ \A c \in Cmds : cmd[c].reported => Dead(c)
    /\ \A w \in Waiters :
          /\ wt[w].pc # "idle" => wt[w].cmd \in Cmds /\ cmd[wt[w].cmd].life # "none"
          /\ wt[w].pc \in {"assign", "ctx", "done"} => Dead(wt[w].cmd)

\* The monitor waits for the current Command, and restarts only when that is dead.
MonitorFollows ==
    \A p \in Procs :
        /\ mon[p].pc = "wait" => /\ wt[Monitor(p)].pc # "idle"
                                 /\ wt[Monitor(p)].cmd = proc[p].Command
        /\ mon[p].pc \in {"backoff", "sleep", "publish"} => Dead(proc[p].Command)

\* A live process is the Command its monitor has yet to see exit, or the one that
\* monitor has just started; after the shutdown it may be unattended.
LiveIsCurrent ==
    \A c \in Cmds : Alive(c) =>
        /\ owner[c] \in Procs
        /\ \/ /\ proc[owner[c]].Command = c
              /\ mon[owner[c]].pc \in {"top", "wait"} \/ (stopChan /\ mon[owner[c]].pc = "done")
           \/ /\ mon[owner[c]].pc = "publish"
              /\ mon[owner[c]].new = c

IInv ==
    /\ TypeOK
    /\ WellFormed
    /\ WaitersSawExit
    /\ MonitorFollows
    /\ StopHoldsItsProc
    /\ LiveIsCurrent
    /\ NotRunningMeansDead

-----------------------------------------------------------------------------
\* The goroutines that call Wait are waiters, and different ones.
LEMMA WaitersDiffer ==
    /\ \A p \in Procs : Monitor(p) \in Waiters
    /\ \A x \in Callers, p \in Procs : Helper(x, p) \in Waiters /\ Killer(x, p) \in Waiters
    /\ \A p, q \in Procs : Monitor(p) = Monitor(q) => p = q
    /\ \A p \in Procs, x \in Callers, q \in Procs :
          Monitor(p) # Helper(x, q) /\ Monitor(p) # Killer(x, q)
    /\ \A x, y \in Callers, p, q \in Procs :
          /\ Helper(x, p) # Killer(y, q)
          /\ Helper(x, p) = Helper(y, q) => x = y /\ p = q
          /\ Killer(x, p) = Killer(y, q) => x = y /\ p = q
    BY DEF Waiters, Monitor, Helper, Killer

\* The two ways a call goes on keep its record well typed.
LEMMA GotoType ==
    ASSUME call \in [Callers -> CallRecords], NEW x \in Callers, NEW pc \in CallPcs,
           Goto(x, pc)
    PROVE  /\ call' \in [Callers -> CallRecords]
           /\ call'[x].pc = pc
           /\ \A y \in Callers \ {x} : call'[y] = call[y]
    BY DEF Goto, CallRecords

\* A goroutine that goes on with other fields of its record changed.
LEMMA CallType ==
    ASSUME call \in [Callers -> CallRecords], NEW x \in Callers, NEW r \in CallRecords,
           call' = [call EXCEPT ![x] = r]
    PROVE  /\ call' \in [Callers -> CallRecords]
           /\ call'[x] = r
           /\ \A y \in Callers \ {x} : call'[y] = call[y]
    OBVIOUS

\* The fields that the steps of a goroutine change keep its record well typed.
LEMMA CallFields ==
    ASSUME NEW r \in CallRecords, NEW pc \in CallPcs
    PROVE  /\ \A op \in CallOps : [r EXCEPT !.pc = pc, !.op = op] \in CallRecords
           /\ \A q \in Procs \cup {NoProc} : [r EXCEPT !.pc = pc, !.proc = q] \in CallRecords
           /\ \A t \in SUBSET Names : [r EXCEPT !.pc = pc, !.todo = t] \in CallRecords
           /\ \A res \in {"none", "ok", "error"} : [r EXCEPT !.pc = pc, !.res = res] \in CallRecords
           /\ \A n \in Names, t \in SUBSET Names : [r EXCEPT !.pc = pc, !.name = n, !.todo = t] \in CallRecords
           /\ \A op \in CallOps, n \in Names, policy \in Policies : [r EXCEPT !.op = op, !.name = n, !.policy = policy, !.pc = pc] \in CallRecords
<1>1. ASSUME NEW op \in CallOps
      PROVE  [r EXCEPT !.pc = pc, !.op = op] \in CallRecords
  BY DEF CallRecords
<1>2. ASSUME NEW q \in Procs \cup {NoProc}
      PROVE  [r EXCEPT !.pc = pc, !.proc = q] \in CallRecords
  BY DEF CallRecords
<1>3. ASSUME NEW t \in SUBSET Names
      PROVE  [r EXCEPT !.pc = pc, !.todo = t] \in CallRecords
  BY DEF CallRecords
<1>4. ASSUME NEW res \in {"none", "ok", "error"}
      PROVE  [r EXCEPT !.pc = pc, !.res = res] \in CallRecords
  BY DEF CallRecords
<1>5. ASSUME NEW n \in Names, NEW t \in SUBSET Names
      PROVE  [r EXCEPT !.pc = pc, !.name = n, !.todo = t] \in CallRecords
  BY DEF CallRecords
<1>6. ASSUME NEW op \in CallOps, NEW n \in Names, NEW policy \in Policies
      PROVE  [r EXCEPT !.op = op, !.name = n, !.policy = policy, !.pc = pc] \in CallRecords
  BY DEF CallRecords
<1>7. QED
  BY <1>1, <1>2, <1>3, <1>4, <1>5, <1>6

\* Return leads back to the operation that called.
LEMMA ReturnType ==
    ASSUME call \in [Callers -> CallRecords],
           NEW x \in Callers, NEW res \in {"ok", "error"},
           Return(x, res)
    PROVE  /\ call' \in [Callers -> CallRecords]
           /\ call'[x].pc \in {"boot", "shutdown_next", "list_next", "done"}
           /\ \A y \in Callers \ {x} : call'[y] = call[y]
<1>1. call[x] \in CallRecords
  OBVIOUS
<1>2. ReturnsTo(call[x].op) \in {"boot", "shutdown_next", "list_next", "done"}
  BY DEF ReturnsTo
<1>a. ReturnsTo(call[x].op) \in CallPcs
  BY <1>2 DEF CallPcs
<1>3. Result(x, res) \in {"none", "ok", "error"}
  BY <1>1 DEF Result, CallRecords
<1>4. QED
  BY <1>1, <1>2, <1>a, <1>3 DEF Return, CallRecords

-----------------------------------------------------------------------------
(***************************************************************************)
(* Type correctness.                                                       *)
(***************************************************************************)

\* The fields that the process and a Wait change keep their records well typed.
LEMMA ExecFields ==
    ASSUME NEW r \in CmdRecords(Ctxs), NEW v \in WaitRecords
    PROVE  /\ \A code \in Codes : [r EXCEPT !.life = "exited", !.code = code] \in CmdRecords(Ctxs)
           /\ [r EXCEPT !.life = "reaped"] \in CmdRecords(Ctxs)
           /\ \A b \in BOOLEAN : [r EXCEPT !.reported = b] \in CmdRecords(Ctxs)
           /\ [r EXCEPT !.sent = TRUE] \in CmdRecords(Ctxs)
           /\ \A code \in Codes : [v EXCEPT !.pc = "done", !.got = code] \in WaitRecords
           /\ \A code \in Codes : [v EXCEPT !.pc = "assign", !.got = code] \in WaitRecords
           /\ \A pc \in {"block", "ctx", "done"} : [v EXCEPT !.pc = pc] \in WaitRecords
<1>1. \A code \in Codes : [r EXCEPT !.life = "exited", !.code = code] \in CmdRecords(Ctxs)
  BY DEF CmdRecords, Lives
<1>2. [r EXCEPT !.life = "reaped"] \in CmdRecords(Ctxs)
  BY DEF CmdRecords, Lives
<1>3. \A b \in BOOLEAN : [r EXCEPT !.reported = b] \in CmdRecords(Ctxs)
  BY DEF CmdRecords
<1>4. [r EXCEPT !.sent = TRUE] \in CmdRecords(Ctxs)
  BY DEF CmdRecords
<1>5. \A code \in Codes : /\ [v EXCEPT !.pc = "done", !.got = code] \in WaitRecords
                          /\ [v EXCEPT !.pc = "assign", !.got = code] \in WaitRecords
  BY DEF WaitRecords
<1>6. \A pc \in {"block", "ctx", "done"} : [v EXCEPT !.pc = pc] \in WaitRecords
  BY DEF WaitRecords
<1>7. QED
  BY <1>1, <1>2, <1>3, <1>4, <1>5, <1>6

\* A Cmd that is new and a goroutine that does not wait are well typed.
LEMMA FreshTypes == FreshCmd \in CmdRecords(Ctxs) /\ IdleWait \in WaitRecords
  BY DEF FreshCmd, IdleWait, CmdRecords, WaitRecords, Ctxs, Lives, Codes

\* What starting a process and beginning or ending a Wait do to the types.
LEMMA ExecTypes ==
    ASSUME TypeOK
    PROVE  /\ \A c \in Cmds, x \in Ctxs : Started(c, x) \in [Cmds -> CmdRecords(Ctxs)]
           /\ \A c : Killed(c) \in [Cmds -> CmdRecords(Ctxs)]
           /\ \A w \in Waiters, c \in Cmds \cup {NoCmd} : Waiting(w, c) \in [Waiters -> WaitRecords]
           /\ \A w : [wt EXCEPT ![w] = IdleWait] \in [Waiters -> WaitRecords]
<1>1. FreshCmd \in CmdRecords(Ctxs) /\ IdleWait \in WaitRecords
  BY FreshTypes
<1>2. ASSUME NEW c \in Cmds, NEW x \in Ctxs
      PROVE  Started(c, x) \in [Cmds -> CmdRecords(Ctxs)]
  <2>1. [FreshCmd EXCEPT !.life = "alive", !.ctx = x] \in CmdRecords(Ctxs)
    BY <1>1 DEF CmdRecords, Lives
  <2>2. QED
    BY <2>1 DEF Started, TypeOK
<1>3. ASSUME NEW c
      PROVE  Killed(c) \in [Cmds -> CmdRecords(Ctxs)]
  <2>1. c \in Cmds => [cmd[c] EXCEPT !.life = "exited", !.code = "fail"] \in CmdRecords(Ctxs)
    BY <1>1, ExecFields DEF TypeOK, Codes
  <2>2. c \in Cmds => [cmd EXCEPT ![c] = [cmd[c] EXCEPT !.life = "exited", !.code = "fail"]]
                       \in [Cmds -> CmdRecords(Ctxs)]
    BY <2>1 DEF TypeOK
  <2>3. c \notin Cmds => [cmd EXCEPT ![c].life = "exited", ![c].code = "fail"] = cmd
    BY DEF TypeOK
  <2>4. QED
    BY <2>2, <2>3 DEF Killed, TypeOK
<1>4. ASSUME NEW w \in Waiters, NEW c \in Cmds \cup {NoCmd}
      PROVE  Waiting(w, c) \in [Waiters -> WaitRecords]
  <2>1. [pc |-> "check", cmd |-> c, got |-> "ok"] \in WaitRecords
    BY DEF WaitRecords, Codes
  <2>2. QED
    BY <2>1 DEF Waiting, TypeOK
<1>5. QED
  BY <1>1, <1>2, <1>3, <1>4 DEF TypeOK

\* The Wait calls, the exits and the kills keep cmd and wt well typed.
LEMMA ExecStepTypes ==
    ASSUME TypeOK, WaitersSawExit
    PROVE  /\ \A w \in Waiters : WaitStep(w) =>
                 cmd' \in [Cmds -> CmdRecords(Ctxs)] /\ wt' \in [Waiters -> WaitRecords]
           /\ \A c \in Cmds : Exit(c) \/ CtxKill(c) =>
                 cmd' \in [Cmds -> CmdRecords(Ctxs)] /\ wt' \in [Waiters -> WaitRecords]
<1>1. ASSUME NEW w \in Waiters, WaitStep(w)
      PROVE  cmd' \in [Cmds -> CmdRecords(Ctxs)] /\ wt' \in [Waiters -> WaitRecords]
  <2>. DEFINE c == wt[w].cmd
  <2>0. /\ wt \in [Waiters -> WaitRecords] /\ wt[w] \in WaitRecords
        /\ cmd \in [Cmds -> CmdRecords(Ctxs)] /\ (c \in Cmds => cmd[c] \in CmdRecords(Ctxs))
    BY DEF TypeOK
  <2>1. CASE WaitCheck(w)
    <3>1. /\ [wt[w] EXCEPT !.pc = "done", !.got = "error"] \in WaitRecords
          /\ [wt[w] EXCEPT !.pc = "block"] \in WaitRecords
      BY <2>0, ExecFields, FreshTypes DEF Codes
    <3>2. QED
      BY <2>0, <2>1, <3>1 DEF WaitCheck
  <2>2. CASE WaitProcess(w)
    <3>1. cmd' \in [Cmds -> CmdRecords(Ctxs)]
      <4>1. c \in Cmds => [cmd[c] EXCEPT !.life = "reaped"] \in CmdRecords(Ctxs)
        BY <2>0, ExecFields
      <4>2. QED
        BY <2>0, <2>2, <4>1 DEF WaitProcess
    <3>2. (IF cmd[c].life = "exited" THEN cmd[c].code ELSE "error") \in Codes
      BY <2>2 DEF WaitProcess, WaitersSawExit, TypeOK, CmdRecords, Codes
    <3>3. [wt[w] EXCEPT !.pc = "assign",
                        !.got = IF cmd[c].life = "exited" THEN cmd[c].code ELSE "error"] \in WaitRecords
      BY <2>0, <3>2, ExecFields, FreshTypes
    <3>4. QED
      BY <2>0, <2>2, <3>1, <3>3 DEF WaitProcess
  <2>3. CASE WaitAssign(w)
    <3>1. cmd' \in [Cmds -> CmdRecords(Ctxs)]
      <4>1. c \in Cmds => [cmd[c] EXCEPT !.reported = (wt[w].got # "error")] \in CmdRecords(Ctxs)
        BY <2>0, ExecFields
      <4>2. QED
        BY <2>0, <2>3, <4>1 DEF WaitAssign
    <3>2. wt' \in [Waiters -> WaitRecords]
      <4>1. \A pc \in {"done", "ctx"} : [wt[w] EXCEPT !.pc = pc] \in WaitRecords
        BY <2>0, ExecFields, FreshTypes
      <4>2. QED
        BY <2>0, <2>3, <4>1 DEF WaitAssign
    <3>3. QED
      BY <3>1, <3>2
  <2>4. CASE WaitCtxResult(w)
    <3>1. /\ c \in Cmds => [cmd[c] EXCEPT !.sent = TRUE] \in CmdRecords(Ctxs)
          /\ [wt[w] EXCEPT !.pc = "done"] \in WaitRecords
      BY <2>0, ExecFields, FreshTypes
    <3>2. QED
      BY <2>0, <2>4, <3>1 DEF WaitCtxResult
  <2>5. QED
    BY <1>1, <2>1, <2>2, <2>3, <2>4 DEF WaitStep
<1>2. ASSUME NEW c \in Cmds, Exit(c) \/ CtxKill(c)
      PROVE  cmd' \in [Cmds -> CmdRecords(Ctxs)] /\ wt' \in [Waiters -> WaitRecords]
  <2>1. CASE Exit(c)
    <3>1. PICK code \in {"ok", "fail"} :
            cmd' = [cmd EXCEPT ![c].life = "exited", ![c].code = code]
      BY <2>1 DEF Exit
    <3>2. [[cmd[c] EXCEPT !.life = "exited"] EXCEPT !.code = code] \in CmdRecords(Ctxs)
      BY DEF TypeOK, CmdRecords, Lives, Codes
    <3>3. QED
      BY <2>1, <3>1, <3>2 DEF Exit, TypeOK
  <2>2. CASE CtxKill(c)
    BY <2>2, ExecTypes DEF CtxKill, TypeOK
  <2>3. QED
    BY <1>2, <2>1, <2>2
<1>3. QED
  BY <1>1, <1>2

\* So do the fields of a UMCProcess that change.
LEMMA ProcFields ==
    ASSUME TypeOK, NEW p \in Procs
    PROVE  /\ [proc EXCEPT ![p].Running = FALSE] \in [Procs -> ProcRecords]
           /\ \A c \in Cmds \cup {NoCmd} :
                 [proc[p] EXCEPT !.Command = c, !.Running = TRUE] \in ProcRecords
<1>1. proc \in [Procs -> ProcRecords] /\ proc[p] \in ProcRecords
  BY DEF TypeOK
<1>2. [proc[p] EXCEPT !.Running = FALSE] \in ProcRecords
  BY <1>1 DEF ProcRecords
<1>3. [proc EXCEPT ![p] = [proc[p] EXCEPT !.Running = FALSE]] \in [Procs -> ProcRecords]
  BY <1>1, <1>2
<1>4. \A c \in Cmds \cup {NoCmd} :
         [proc[p] EXCEPT !.Command = c, !.Running = TRUE] \in ProcRecords
  BY <1>1 DEF ProcRecords
<1>5. QED
  BY <1>3, <1>4

\* A step keeps the types, given the rest of the invariant.
LEMMA TypeStep ==
    ASSUME IInv, [Next]_vars
    PROVE  TypeOK'
<1> USE DEF IInv
<1>0. Boot \in Callers /\ call[Boot] \in CallRecords
  BY DEF TypeOK, Callers
<1>1. CASE BootNext
  <2>1. call[Boot] \in CallRecords
    BY <1>0
  <2>2. call' \in [Callers -> CallRecords]
    <3>1. CASE call[Boot].todo = {}
      BY <1>1, <3>1, GotoType DEF BootNext, TypeOK, Callers, CallPcs
    <3>2. CASE call[Boot].todo # {}
      <4>1. PICK n \in call[Boot].todo :
              call' = [call EXCEPT ![Boot] = [@ EXCEPT !.pc = "start", !.name = n,
                                                       !.todo = call[Boot].todo \ {n}]]
        BY <1>1, <3>2 DEF BootNext
      <4>2. n \in Names /\ call[Boot].todo \ {n} \in SUBSET Names /\ "start" \in CallPcs
        BY <2>1 DEF CallRecords, CallPcs
      <4>3. QED
        <5>1. [call[Boot] EXCEPT !.pc = "start", !.name = n, !.todo = call[Boot].todo \ {n}]
                \in CallRecords
          BY <2>1, <4>2, CallFields
        <5>2. QED
          BY <4>1, <5>1 DEF TypeOK
    <3>3. QED
      BY <3>1, <3>2
  <2>3. QED
    BY <1>1, <2>2 DEF BootNext, TypeOK
<1>2. CASE ShutdownBegin
  <2>1. call' \in [Callers -> CallRecords]
    <3>1. "shutdown" \in CallPcs /\ "shutdown" \in CallOps
      BY DEF CallPcs, CallOps
    <3>2. [call[Boot] EXCEPT !.pc = "shutdown", !.op = "shutdown"] \in CallRecords
      BY <1>0, <3>1, CallFields
    <3>3. QED
      BY <1>2, <3>2 DEF ShutdownBegin, TypeOK
  <2>2. QED
    BY <1>2, <2>1 DEF ShutdownBegin, TypeOK
<1>3. CASE ShutdownStep
  <2>1. CASE ShutdownSnapshot
    <3>1. {n \in Names : processes[n] # NoProc} \in SUBSET Names /\ "shutdown_next" \in CallPcs
      BY DEF CallPcs
    <3>2. call' \in [Callers -> CallRecords]
      BY <2>1, <3>1, <1>0, CallFields DEF ShutdownSnapshot, TypeOK
    <3>3. QED
      BY <2>1, <3>2 DEF ShutdownSnapshot, TypeOK
  <2>2. CASE ShutdownNext
    <3>1. PICK n \in call[Boot].todo :
            call' = [call EXCEPT ![Boot] = [@ EXCEPT !.pc = "stop_lookup", !.name = n,
                                                     !.todo = call[Boot].todo \ {n}]]
      BY <2>2 DEF ShutdownNext
    <3>2. n \in Names /\ call[Boot].todo \ {n} \in SUBSET Names /\ "stop_lookup" \in CallPcs
      BY <1>0 DEF CallRecords, CallPcs
    <3>3. call' \in [Callers -> CallRecords]
      <4>1. [call[Boot] EXCEPT !.pc = "stop_lookup", !.name = n, !.todo = call[Boot].todo \ {n}]
              \in CallRecords
        BY <1>0, <3>2, CallFields
      <4>2. QED
        BY <3>1, <4>1 DEF TypeOK
    <3>4. QED
      BY <2>2, <3>3 DEF ShutdownNext, TypeOK
  <2>3. CASE CloseStopChan
    BY <2>3, <1>0, GotoType DEF CloseStopChan, TypeOK, CallPcs
  <2>4. CASE ShutdownReturn
    <3>1. call' \in [Callers -> CallRecords]
      <4>1. "done" \in CallPcs
        BY DEF CallPcs
      <4>2. \A res \in {"ok", "error"} : [call[Boot] EXCEPT !.pc = "done", !.res = res] \in CallRecords
        BY <1>0, <4>1, CallFields
      <4>3. PICK res \in {"ok", "error"} : call' = [call EXCEPT ![Boot] = [@ EXCEPT !.pc = "done", !.res = res]]
        BY <2>4 DEF ShutdownReturn
      <4>4. QED
        BY <4>2, <4>3 DEF TypeOK
    <3>2. QED
      BY <2>4, <3>1 DEF ShutdownReturn, TypeOK
  <2>5. QED
    BY <1>3, <2>1, <2>2, <2>3, <2>4 DEF ShutdownStep
<1>4. ASSUME NEW x \in Callers, BeginRequest(x)
      PROVE  TypeOK'
  <2>1. call' \in [Callers -> CallRecords]
    <3>1. PICK op \in Ops \ {"shutdown"}, n \in Names, policy \in Policies :
            call' = [call EXCEPT ![x] = [@ EXCEPT !.op = op, !.name = n, !.policy = policy,
                       !.pc = IF op = "status" THEN "status_lookup" ELSE op]]
      BY <1>4 DEF BeginRequest, ValidPolicy
    <3>2. op \in CallOps /\ (IF op = "status" THEN "status_lookup" ELSE op) \in CallPcs
      BY SupervisorAssumption DEF CallOps, CallPcs
    <3>3. QED
      BY <3>1, <3>2, CallFields DEF TypeOK
  <2>2. QED
    BY <1>4, <2>1 DEF BeginRequest, TypeOK
<1>5. ASSUME NEW x \in Callers, CallStep(x)
      PROVE  TypeOK'
  <2>1. CASE StartUMC(x)
    <3>1. call' \in [Callers -> CallRecords]
      BY <2>1, ReturnType DEF StartUMC, TypeOK
    <3>2. PICK p \in Unused, c \in Fresh :
            /\ cmd' = Started(c, StartCtx(x))
            /\ owner' = [owner EXCEPT ![c] = p]
            /\ proc' = [proc EXCEPT ![p] = NewProc(call[x].name, c)]
            /\ processes' = [processes EXCEPT ![call[x].name] = p]
            /\ mon' = [mon EXCEPT ![p].pc = "top"]
      BY <2>1 DEF StartUMC
    <3>3. StartCtx(x) \in Ctxs
      BY SupervisorAssumption DEF StartCtx, Ctxs, Callers
    <3>4. cmd' \in [Cmds -> CmdRecords(Ctxs)]
      BY <3>2, <3>3, ExecTypes DEF Fresh
    <3>5. NewProc(call[x].name, c) \in ProcRecords
      BY DEF NewProc, ProcRecords, Policies, Fresh, TypeOK, CallRecords
    <3>6. QED
      <4>1. processes' \in [Names -> Procs \cup {NoProc}]
        BY <3>2 DEF TypeOK, Unused
      <4>2. mon' \in [Procs -> MonitorRecords]
        BY <3>2 DEF TypeOK, MonitorRecords
      <4>3. owner' \in [Cmds -> Procs \cup {NoProc}] /\ proc' \in [Procs -> ProcRecords]
        BY <3>2, <3>5 DEF TypeOK, Unused
      <4>4. QED
        BY <2>1, <3>1, <3>4, <4>1, <4>2, <4>3 DEF StartUMC, TypeOK
  <2>2. CASE StartFails(x)
    BY <2>2, ReturnType DEF StartFails, TypeOK
  <2>3. CASE RestartUMC(x)
    BY <2>3, ReturnType, GotoType DEF RestartUMC, TypeOK, CallPcs
  <2>4. CASE StopLookup(x)
    <3>1. call' \in [Callers -> CallRecords]
      <4>1. CASE processes[call[x].name] = NoProc
        BY <2>4, <4>1, ReturnType DEF StopLookup, TypeOK
      <4>2. CASE processes[call[x].name] # NoProc
        <5>1. [call[x] EXCEPT !.pc = "stop_check", !.proc = processes[call[x].name]] \in CallRecords
          <6>1. call[x] \in CallRecords /\ "stop_check" \in CallPcs
            BY DEF TypeOK, CallPcs
          <6>2. processes[call[x].name] \in Procs \cup {NoProc}
            BY DEF TypeOK, CallRecords
          <6>3. QED
            BY <6>1, <6>2, CallFields
        <5>2. QED
          BY <2>4, <4>2, <5>1 DEF StopLookup, TypeOK
      <4>3. QED
        BY <4>1, <4>2
    <3>2. QED
      BY <2>4, <3>1 DEF StopLookup, TypeOK
  <2>5. CASE StopCheck(x)
    BY <2>5, ReturnType, GotoType DEF StopCheck, TypeOK, CallPcs
  <2>6. CASE StopAcquire(x)
    <3>1. call' \in [Callers -> CallRecords]
      BY <2>6, GotoType DEF StopAcquire, TypeOK, CallPcs
    <3>2. call[x].proc \in Procs
      BY <2>6 DEF StopAcquire, WellFormed, ProcNamed
    <3>3. wt' \in [Waiters -> WaitRecords]
      BY <2>6, <3>2, ExecTypes, WaitersDiffer DEF StopAcquire, TypeOK, ProcRecords
    <3>4. QED
      BY <2>6, <3>1, <3>2, <3>3 DEF StopAcquire, TypeOK
  <2>7. ASSUME StopReturn(x)
        PROVE  /\ proc' \in [Procs -> ProcRecords]
               /\ pmu' \in [Procs -> Callers \cup {Free}]
               /\ call' \in [Callers -> CallRecords]
    <3>1. call' \in [Callers -> CallRecords]
      <4>1. CASE call[x].op = "restart"
        <5>1. [call[x] EXCEPT !.pc = "start", !.proc = NoProc] \in CallRecords
          <6>1. call[x] \in CallRecords /\ "start" \in CallPcs
            BY DEF TypeOK, CallPcs
          <6>2. QED
            BY <6>1, CallFields
        <5>2. QED
          BY <2>7, <4>1, <5>1 DEF StopReturn, TypeOK
      <4>2. CASE call[x].op # "restart"
        BY <2>7, <4>2, ReturnType DEF StopReturn, TypeOK
      <4>3. QED
        BY <4>1, <4>2
    <3>2. QED
      <4>1. call[x].proc \in Procs => proc' \in [Procs -> ProcRecords]
        BY <2>7, ProcFields DEF StopReturn
      <4>2. call[x].proc \notin Procs => proc' = proc
        BY <2>7 DEF StopReturn, TypeOK
      <4>3. pmu' \in [Procs -> Callers \cup {Free}]
        BY <2>7 DEF StopReturn, TypeOK
      <4>4. QED
        BY <3>1, <4>1, <4>2, <4>3 DEF TypeOK
  <2>8. CASE StopDone(x)
    BY <2>7, <2>8, ExecTypes DEF StopDone, TypeOK
  <2>9. CASE StopTimeout(x)
    <3>1. call' \in [Callers -> CallRecords]
      BY <2>9, GotoType DEF StopTimeout, TypeOK, CallPcs
    <3>2. call[x].proc \in Procs
      BY <2>9 DEF StopTimeout, WellFormed, ProcNamed, StopHolding
    <3>3. /\ wt' \in [Waiters -> WaitRecords]
          /\ cmd' \in [Cmds -> CmdRecords(Ctxs)]
      BY <2>9, <3>2, ExecTypes, WaitersDiffer DEF StopTimeout, TypeOK, ProcRecords
    <3>4. QED
      BY <2>9, <3>1, <3>3 DEF StopTimeout, TypeOK
  <2>10. CASE StopKilled(x)
    BY <2>7, <2>10, ExecTypes DEF StopKilled, TypeOK
  <2>11. CASE StatusLookup(x)
    <3>1. call' \in [Callers -> CallRecords]
      <4>1. CASE processes[call[x].name] = NoProc
        BY <2>11, <4>1, ReturnType DEF StatusLookup, TypeOK
      <4>2. CASE processes[call[x].name] # NoProc
        <5>1. [call[x] EXCEPT !.pc = "status_acquire", !.proc = processes[call[x].name]] \in CallRecords
          <6>1. call[x] \in CallRecords /\ "status_acquire" \in CallPcs
            BY DEF TypeOK, CallPcs
          <6>2. processes[call[x].name] \in Procs \cup {NoProc}
            BY DEF TypeOK, CallRecords
          <6>3. QED
            BY <6>1, <6>2, CallFields
        <5>2. QED
          BY <2>11, <4>2, <5>1 DEF StatusLookup, TypeOK
      <4>3. QED
        BY <4>1, <4>2
    <3>2. QED
      BY <2>11, <3>1 DEF StatusLookup, TypeOK
  <2>12. CASE StatusAcquire(x)
    BY <2>12, ReturnType, GotoType DEF StatusAcquire, TypeOK, CallPcs
  <2>13. CASE StatusHealth(x)
    BY <2>13, ReturnType DEF StatusHealth, TypeOK
  <2>14. CASE ListLock(x)
    <3>1. {n \in Names : processes[n] # NoProc} \in SUBSET Names /\ "list_next" \in CallPcs
      BY DEF CallPcs
    <3>2. call' \in [Callers -> CallRecords]
      BY <2>14, <3>1, CallFields DEF ListLock, TypeOK
    <3>3. QED
      BY <2>14, <3>2 DEF ListLock, TypeOK
  <2>15. CASE ListNext(x)
    <3>1. call' \in [Callers -> CallRecords]
      <4>1. CASE call[x].todo = {}
        <5>1. [call[x] EXCEPT !.pc = "done", !.res = "ok"] \in CallRecords
          <6>1. call[x] \in CallRecords /\ "done" \in CallPcs
            BY DEF TypeOK, CallPcs
          <6>2. QED
            BY <6>1, CallFields
        <5>2. QED
          BY <2>15, <4>1, <5>1 DEF ListNext, TypeOK
      <4>2. CASE call[x].todo # {}
        <5>1. PICK n \in call[x].todo :
                call' = [call EXCEPT ![x] = [@ EXCEPT !.pc = "status_lookup", !.name = n,
                                                      !.todo = call[x].todo \ {n}]]
          BY <2>15, <4>2 DEF ListNext
        <5>2. n \in Names /\ call[x].todo \ {n} \in SUBSET Names /\ "status_lookup" \in CallPcs
          BY DEF CallRecords, CallPcs, TypeOK
        <5>3. QED
          <6>1. [call[x] EXCEPT !.pc = "status_lookup", !.name = n, !.todo = call[x].todo \ {n}]
                  \in CallRecords
            BY <5>2, CallFields DEF TypeOK
          <6>2. QED
            BY <5>1, <6>1 DEF TypeOK
      <4>3. QED
        BY <4>1, <4>2
    <3>2. QED
      BY <2>15, <3>1 DEF ListNext, TypeOK
  <2>16. CASE SetRestartPolicy(x)
    <3>1. call' \in [Callers -> CallRecords]
      BY <2>16, ReturnType DEF SetRestartPolicy, TypeOK
    <3>2. proc' \in [Procs -> ProcRecords]
      <4>1. ASSUME NEW p \in Procs
            PROVE  [proc[p] EXCEPT !.RestartPolicy = call[x].policy] \in ProcRecords
        <5>1. call[x].policy \in Policies /\ proc[p] \in ProcRecords
          BY DEF TypeOK, CallRecords
        <5>2. QED
          BY <5>1 DEF ProcRecords
      <4>2. QED
        BY <2>16, <4>1 DEF SetRestartPolicy, TypeOK
    <3>3. QED
      BY <2>16, <3>1, <3>2 DEF SetRestartPolicy, TypeOK
  <2>17. QED
    BY <1>5, <2>1, <2>2, <2>3, <2>4, <2>5, <2>6, <2>8, <2>9, <2>10, <2>11,
       <2>12, <2>13, <2>14, <2>15, <2>16
    DEF CallStep, StopStep, StatusStep
<1>6. ASSUME NEW p \in Procs, MonitorStep(p)
      PROVE  TypeOK'
  <2>1. ASSUME NEW pc \in {"top", "wait", "backoff", "sleep", "done"}, MonitorGoto(p, pc)
        PROVE  mon' \in [Procs -> MonitorRecords]
    <3>1. [pc |-> pc, new |-> NoCmd] \in MonitorRecords
      BY DEF MonitorRecords
    <3>2. QED
      BY <2>1, <3>1 DEF MonitorGoto, TypeOK
  <2>2. CASE MonitorTop(p)
    <3>1. mon' \in [Procs -> MonitorRecords]
      BY <2>1, <2>2 DEF MonitorTop
    <3>2. wt' \in [Waiters -> WaitRecords]
      BY <2>2, ExecTypes, WaitersDiffer DEF MonitorTop, TypeOK, ProcRecords
    <3>3. QED
      BY <2>2, <3>1, <3>2 DEF MonitorTop, TypeOK
  <2>3. CASE MonitorExited(p)
    <3>1. mon' \in [Procs -> MonitorRecords]
      BY <2>1, <2>3 DEF MonitorExited
    <3>2. wt' \in [Waiters -> WaitRecords]
      BY <2>3, ExecTypes DEF MonitorExited
    <3>3. proc' \in [Procs -> ProcRecords]
      BY <2>3, ProcFields DEF MonitorExited
    <3>4. QED
      BY <2>3, <3>1, <3>2, <3>3 DEF MonitorExited, TypeOK
  <2>4. CASE MonitorBackoff(p)
    BY <2>1, <2>4 DEF MonitorBackoff, TypeOK
  <2>5. CASE MonitorRestart(p)
    <3>1. PICK c \in Fresh : /\ cmd' = Started(c, NoCtx)
                             /\ owner' = [owner EXCEPT ![c] = p]
                             /\ mon' = [mon EXCEPT ![p] = [pc |-> "publish", new |-> c]]
      BY <2>5 DEF MonitorRestart
    <3>2. cmd' \in [Cmds -> CmdRecords(Ctxs)]
      BY <3>1, ExecTypes DEF Ctxs, Fresh
    <3>3. mon' \in [Procs -> MonitorRecords]
      BY <3>1 DEF TypeOK, MonitorRecords, Fresh
    <3>4. QED
      BY <2>5, <3>1, <3>2, <3>3 DEF MonitorRestart, TypeOK
  <2>6. CASE MonitorGivesUp(p)
    BY <2>1, <2>6 DEF MonitorGivesUp, TypeOK
  <2>7. CASE MonitorPublish(p)
    <3>1. mon' \in [Procs -> MonitorRecords]
      BY <2>1, <2>7 DEF MonitorPublish
    <3>2. proc' \in [Procs -> ProcRecords]
      <4>1. mon[p].new \in Cmds \cup {NoCmd}
        BY DEF TypeOK, MonitorRecords
      <4>2. [[proc[p] EXCEPT !.Command = mon[p].new] EXCEPT !.Running = TRUE] \in ProcRecords
        BY <4>1, ProcFields
      <4>3. QED
        BY <2>7, <4>2 DEF MonitorPublish, TypeOK
    <3>3. QED
      BY <2>7, <3>1, <3>2 DEF MonitorPublish, TypeOK
  <2>8. QED
    BY <1>6, <2>2, <2>3, <2>4, <2>5, <2>6, <2>7 DEF MonitorStep
<1>7. ASSUME NEW c \in Cmds, ProcessExit(c) \/ ContextKill(c)
      PROVE  TypeOK'
  BY <1>7, ExecStepTypes DEF ProcessExit, ContextKill, TypeOK
<1>8. ASSUME NEW w \in Waiters, WaitProgress(w)
      PROVE  TypeOK'
  BY <1>8, ExecStepTypes DEF WaitProgress, TypeOK
<1>9. CASE UNCHANGED vars
  BY <1>9 DEF vars, TypeOK
<1>10. QED
  BY <1>1, <1>2, <1>3, <1>4, <1>5, <1>6, <1>7, <1>8, <1>9 DEF Next

-----------------------------------------------------------------------------
(***************************************************************************)
(* The rest of the inductive invariant.                                    *)
(***************************************************************************)

Rest ==
    /\ WellFormed
    /\ WaitersSawExit
    /\ MonitorFollows
    /\ StopHoldsItsProc
    /\ LiveIsCurrent
    /\ NotRunningMeansDead

Holding == StopHolding \cup {"status_health"}

\* A step that only moves one goroutine x, to a place where it holds no proc.mu.
QuietStep(x) ==
    /\ UNCHANGED <<cmd, wt, processes, proc, mon, pmu, owner>>
    /\ stopChan => stopChan'
    /\ \A y \in Callers \ {x} : call'[y] = call[y]
    /\ call'[x].pc \notin Holding
    /\ call'[x].pc \in ProcNamed => call'[x].proc \in Procs /\ proc[call'[x].proc].made

\* A quiet step disturbs no part of the invariant.
LEMMA QuietKeeps ==
    ASSUME IInv, NEW x \in Callers, QuietStep(x)
    PROVE  Rest'
<1> USE DEF IInv, QuietStep
<1>1. WellFormed'
  BY DEF WellFormed
<1>2. WaitersSawExit'
  BY DEF WaitersSawExit, Dead
<1>3. MonitorFollows'
  BY DEF MonitorFollows, Dead
<1>4. StopHoldsItsProc'
  BY DEF StopHoldsItsProc, Holding, StopHolding
<1>5. LiveIsCurrent'
  BY DEF LiveIsCurrent, Alive
<1>6. NotRunningMeansDead'
  BY DEF NotRunningMeansDead, Dead
<1>7. QED
  BY <1>1, <1>2, <1>3, <1>4, <1>5, <1>6 DEF Rest

\* The places a call returns to name no UMCProcess.
LEMMA ReturnIsQuiet ==
    ASSUME TypeOK, NEW x \in Callers, NEW res \in {"ok", "error"}, Return(x, res)
    PROVE  /\ \A y \in Callers \ {x} : call'[y] = call[y]
           /\ call'[x].pc \notin ProcNamed \cup Holding
<1>1. call \in [Callers -> CallRecords]
  BY DEF TypeOK
<1>2. QED
  BY <1>1, ReturnType DEF ProcNamed, StopHolding, Holding

\* The launcher's steps.
LEMMA LauncherKeeps ==
    ASSUME IInv, BootNext \/ ShutdownBegin \/ ShutdownStep
    PROVE  Rest'
<1>1. Boot \in Callers /\ call \in [Callers -> CallRecords]
  BY DEF IInv, TypeOK, Callers
<1>2. QuietStep(Boot)
  <2> USE <1>1 DEF QuietStep, ProcNamed, StopHolding, Holding, CallRecords
  <2>1. CASE BootNext
    <3>1. CASE call[Boot].todo = {}
      BY <2>1, <3>1 DEF BootNext, Goto
    <3>2. CASE call[Boot].todo # {}
      BY <2>1, <3>2, ZenonT(40) DEF BootNext
    <3>3. QED
      BY <3>1, <3>2
  <2>2. CASE ShutdownBegin
    BY <2>2 DEF ShutdownBegin
  <2>3. CASE ShutdownSnapshot
    BY <2>3 DEF ShutdownSnapshot
  <2>4. CASE ShutdownNext
    BY <2>4 DEF ShutdownNext
  <2>5. CASE CloseStopChan
    BY <2>5 DEF CloseStopChan, Goto
  <2>6. CASE ShutdownReturn
    BY <2>6, ZenonT(40) DEF ShutdownReturn
  <2>7. QED
    BY <2>1, <2>2, <2>3, <2>4, <2>5, <2>6 DEF ShutdownStep
<1>3. QED
  BY <1>1, <1>2, QuietKeeps

\* The steps of a call that neither take nor release proc.mu and start nothing.
LEMMA LookupsKeep ==
    ASSUME IInv, NEW x \in Callers,
           \/ BeginRequest(x) \/ StartFails(x) \/ RestartUMC(x) \/ StopLookup(x)
           \/ StopCheck(x) \/ StatusLookup(x) \/ ListLock(x) \/ ListNext(x)
    PROVE  Rest'
<1>1. TypeOK /\ WellFormed /\ call \in [Callers -> CallRecords]
  BY DEF IInv, TypeOK
<1>2. QuietStep(x)
  <2> USE <1>1 DEF QuietStep, ProcNamed, StopHolding, Holding
  <2>1. CASE BeginRequest(x)
    <3>1. PICK op \in Ops \ {"shutdown"}, n \in Names, policy \in Policies :
            call' = [call EXCEPT ![x] = [@ EXCEPT !.op = op, !.name = n, !.policy = policy,
                       !.pc = IF op = "status" THEN "status_lookup" ELSE op]]
      BY <2>1 DEF BeginRequest, ValidPolicy
    <3>2. op \in {"start", "restart", "status", "list", "policy"}
      BY SupervisorAssumption
    <3>3. call'[x].pc \in {"start", "restart", "status_lookup", "list", "policy"}
      BY <3>1, <3>2 DEF CallRecords
    <3>4. QED
      BY <2>1, <3>1, <3>3 DEF BeginRequest
  <2>2. CASE StartFails(x)
    BY <2>2, ReturnIsQuiet DEF StartFails
  <2>3. CASE RestartUMC(x)
    BY <2>3, ReturnIsQuiet DEF RestartUMC, Goto, CallRecords
  <2>4. CASE StopLookup(x)
    <3>1. CASE processes[call[x].name] = NoProc
      BY <2>4, <3>1, ReturnIsQuiet DEF StopLookup
    <3>2. CASE processes[call[x].name] # NoProc
      <4>1. call[x].name \in Names
        BY DEF CallRecords
      <4>2. processes[call[x].name] \in Procs /\ proc[processes[call[x].name]].made
        BY <3>2, <4>1 DEF WellFormed, TypeOK
      <4>3. QED
        BY <2>4, <3>2, <4>2, ZenonT(40) DEF StopLookup, CallRecords
    <3>3. QED
      BY <3>1, <3>2
  <2>5. CASE StopCheck(x)
    BY <2>5, ReturnIsQuiet DEF StopCheck, Goto, CallRecords, WellFormed
  <2>6. CASE StatusLookup(x)
    <3>1. CASE processes[call[x].name] = NoProc
      BY <2>6, <3>1, ReturnIsQuiet DEF StatusLookup
    <3>2. CASE processes[call[x].name] # NoProc
      <4>1. call[x].name \in Names
        BY DEF CallRecords
      <4>2. processes[call[x].name] \in Procs /\ proc[processes[call[x].name]].made
        BY <3>2, <4>1 DEF WellFormed, TypeOK
      <4>3. QED
        BY <2>6, <3>2, <4>2, ZenonT(40) DEF StatusLookup, CallRecords
    <3>3. QED
      BY <3>1, <3>2
  <2>7. CASE ListLock(x)
    BY <2>7 DEF ListLock, CallRecords
  <2>8. CASE ListNext(x)
    <3>1. CASE call[x].todo = {}
      BY <2>8, <3>1, ZenonT(40) DEF ListNext, CallRecords
    <3>2. CASE call[x].todo # {}
      BY <2>8, <3>2, ZenonT(40) DEF ListNext, CallRecords
    <3>3. QED
      BY <3>1, <3>2
  <2>9. QED
    BY <2>1, <2>2, <2>3, <2>4, <2>5, <2>6, <2>7, <2>8
<1>3. QED
  BY <1>2, QuietKeeps

\* A step that only lets processes exit and Wait calls advance.
AgingStep ==
    /\ UNCHANGED <<processes, proc, mon, pmu, reading, stopChan, call, owner>>
    /\ \A c \in Cmds : /\ cmd[c].life # "none" => cmd'[c].life # "none"
                       /\ Dead(c) => Dead(c)'
                       /\ Alive(c)' => Alive(c)
                       /\ cmd'[c].reported => Dead(c)'
    /\ \A w \in Waiters :
          /\ wt'[w].cmd = wt[w].cmd
          /\ wt'[w].pc = "idle" <=> wt[w].pc = "idle"
          /\ wt'[w].pc \in {"assign", "ctx", "done"} => Dead(wt[w].cmd)'

\* Nor does a step in which processes only die and Waits only see it.
LEMMA AgingKeeps ==
    ASSUME IInv, AgingStep
    PROVE  Rest'
<1> USE DEF IInv, AgingStep
<1>1. WellFormed'
  BY DEF WellFormed
<1>2. WaitersSawExit'
  BY DEF WaitersSawExit
<1>3. MonitorFollows'
  <2>1. ASSUME NEW p \in Procs
        PROVE  /\ mon'[p].pc = "wait" => /\ wt'[Monitor(p)].pc # "idle"
                                         /\ wt'[Monitor(p)].cmd = proc'[p].Command
               /\ mon'[p].pc \in {"backoff", "sleep", "publish"} => Dead(proc[p].Command)'
    <3>1. Monitor(p) \in Waiters
      BY WaitersDiffer
    <3>2. mon[p].pc \in {"backoff", "sleep", "publish"} => proc[p].Command \in Cmds
      BY DEF WellFormed
    <3>3. QED
      BY <3>1, <3>2 DEF MonitorFollows
  <2>2. QED
    BY <2>1 DEF MonitorFollows
<1>4. StopHoldsItsProc'
  <2>1. ASSUME NEW x \in Callers, call[x].pc \in StopHolding
        PROVE  Helper(x, call[x].proc) \in Waiters /\ Killer(x, call[x].proc) \in Waiters
    BY <2>1, WaitersDiffer DEF WellFormed, ProcNamed
  <2>2. QED
    BY <2>1 DEF StopHoldsItsProc, StopHolding
<1>5. LiveIsCurrent'
  BY DEF LiveIsCurrent
<1>6. NotRunningMeansDead'
  BY DEF NotRunningMeansDead, WellFormed
<1>7. QED
  BY <1>1, <1>2, <1>3, <1>4, <1>5, <1>6 DEF Rest

\* Kills and exits only age their process.
LEMMA ExitsAge ==
    ASSUME TypeOK, NEW c \in Cmds,
           \/ cmd' = Killed(c)
           \/ Exit(c)
    PROVE  \A d \in Cmds : /\ cmd[d].life # "none" => cmd'[d].life # "none"
                           /\ Dead(d) => Dead(d)'
                           /\ Alive(d)' => Alive(d)
                           /\ cmd'[d].reported = cmd[d].reported
<1> USE DEF TypeOK, CmdRecords, Dead, Alive
<1>1. CASE cmd' = Killed(c)
  BY <1>1 DEF Killed
<1>2. CASE Exit(c)
  BY <1>2 DEF Exit
<1>3. QED
  BY <1>1, <1>2

\* Processes that exit by themselves or are killed by their context.
LEMMA EnvironmentKeeps ==
    ASSUME IInv, NEW c \in Cmds, ProcessExit(c) \/ ContextKill(c)
    PROVE  Rest'
<1>1. /\ UNCHANGED <<wt, processes, proc, mon, pmu, reading, stopChan, call, owner>>
      /\ Exit(c) \/ cmd' = Killed(c)
  BY DEF ProcessExit, ContextKill, Exit, CtxKill
<1>2. TypeOK /\ WaitersSawExit
  BY DEF IInv
<1>3. AgingStep
  BY <1>1, <1>2, ExitsAge DEF AgingStep, WaitersSawExit
<1>4. QED
  BY <1>3, AgingKeeps

\* The steps inside Wait.
LEMMA WaitsKeep ==
    ASSUME IInv, NEW w \in Waiters, WaitProgress(w)
    PROVE  Rest'
<1>1. TypeOK /\ WaitersSawExit /\ WaitStep(w)
      /\ UNCHANGED <<processes, proc, mon, pmu, reading, stopChan, call, owner>>
  BY DEF IInv, WaitProgress
<1>2. wt[w].pc # "idle" => wt[w].cmd \in Cmds /\ cmd[wt[w].cmd].life # "none"
  BY <1>1 DEF WaitersSawExit
<1>3. AgingStep
  <2> USE <1>1, <1>2 DEF AgingStep, WaitersSawExit, TypeOK, Alive, Dead
  <2>1. CASE WaitCheck(w)
    BY <2>1 DEF WaitCheck, WaitRecords
  <2>2. CASE WaitProcess(w)
    BY <2>2 DEF WaitProcess, WaitRecords, CmdRecords
  <2>3. CASE WaitAssign(w)
    BY <2>3 DEF WaitAssign, WaitRecords, CmdRecords
  <2>4. CASE WaitCtxResult(w)
    BY <2>4 DEF WaitCtxResult, WaitRecords, CmdRecords
  <2>5. QED
    BY <2>1, <2>2, <2>3, <2>4 DEF WaitStep
<1>4. QED
  BY <1>3, AgingKeeps

\* No two callers hold the same proc.mu, nor does one hold an unlocked one.
LEMMA HoldersDiffer ==
    ASSUME IInv, NEW x \in Callers, call[x].pc \in Holding
    PROVE  /\ call[x].proc \in Procs
           /\ pmu[call[x].proc] = x
           /\ \A y \in Callers \ {x} : call[y].pc \in Holding => call[y].proc # call[x].proc
           /\ ~ProcUnlocked(call[x].proc)
<1>1. \A y \in Callers : call[y].pc \in Holding =>
          call[y].proc \in Procs /\ pmu[call[y].proc] = y
  BY DEF IInv, WellFormed, StopHoldsItsProc, Holding, ProcNamed
<1>2. QED
  BY <1>1, SupervisorAssumption DEF ProcUnlocked

\* StopUMC takes proc.mu over the Command it waits for (202-217).
LEMMA StopAcquireKeeps ==
    ASSUME IInv, NEW x \in Callers, StopAcquire(x)
    PROVE  Rest'
<1> DEFINE p == call[x].proc
           h == Helper(x, p)
<1>1. /\ p \in Procs /\ proc[p].made /\ ProcUnlocked(p)
      /\ proc[p].Command \in Cmds /\ cmd[proc[p].Command].life # "none"
  BY DEF IInv, StopAcquire, WellFormed, ProcNamed
<1>2. /\ h \in Waiters
      /\ wt'[h] = [pc |-> "check", cmd |-> proc[p].Command, got |-> "ok"]
      /\ \A w \in Waiters \ {h} : wt'[w] = wt[w]
  BY <1>1, WaitersDiffer DEF StopAcquire, Waiting, IInv, TypeOK
<1>3. /\ call'[x].pc = "stop_wait" /\ call'[x].proc = p
      /\ \A y \in Callers \ {x} : call'[y] = call[y]
  BY DEF StopAcquire, Goto, IInv, TypeOK, CallRecords
<1>4. /\ pmu'[p] = x /\ \A q \in Procs \ {p} : pmu'[q] = pmu[q]
      /\ UNCHANGED <<cmd, processes, proc, mon, reading, stopChan, owner>>
  BY <1>1 DEF StopAcquire, IInv, TypeOK
<1> HIDE DEF p, h
<1>5. WellFormed'
  BY <1>1, <1>3, <1>4 DEF IInv, WellFormed
<1>6. WaitersSawExit'
  BY <1>1, <1>2, <1>4 DEF IInv, WaitersSawExit, Dead
<1>7. MonitorFollows'
  <2>1. \A q \in Procs : Monitor(q) \in Waiters /\ Monitor(q) # h
    BY <1>1, WaitersDiffer DEF h
  <2>2. QED
    BY <2>1, <1>2, <1>4 DEF IInv, MonitorFollows, Dead
<1>8. StopHoldsItsProc'
  <2>1. ASSUME NEW y \in Callers \ {x}, call[y].pc \in Holding
        PROVE  /\ call[y].proc \in Procs \ {p}
               /\ Helper(y, call[y].proc) \in Waiters \ {h}
               /\ Killer(y, call[y].proc) \in Waiters \ {h}
    BY <2>1, <1>1, HoldersDiffer, WaitersDiffer DEF h
  <2>2. ASSUME NEW y \in Callers \ {x}
        PROVE  /\ call'[y].pc \in Holding => pmu'[call'[y].proc] = y
               /\ call'[y].pc \in StopHolding =>
                     /\ wt'[Helper(y, call'[y].proc)].pc # "idle"
                     /\ wt'[Helper(y, call'[y].proc)].cmd = proc'[call'[y].proc].Command
               /\ call'[y].pc = "stop_kill" =>
                     /\ wt'[Killer(y, call'[y].proc)].pc # "idle"
                     /\ wt'[Killer(y, call'[y].proc)].cmd = proc'[call'[y].proc].Command
    BY <2>1, <1>2, <1>3, <1>4 DEF IInv, StopHoldsItsProc, Holding, StopHolding
  <2>3. /\ pmu'[call'[x].proc] = x
        /\ wt'[Helper(x, call'[x].proc)].pc # "idle"
        /\ wt'[Helper(x, call'[x].proc)].cmd = proc'[call'[x].proc].Command
    BY <1>2, <1>3, <1>4 DEF h
  <2>4. QED
    BY <2>2, <2>3, <1>3 DEF StopHoldsItsProc, Holding
<1>9. LiveIsCurrent' /\ NotRunningMeansDead'
  BY <1>4 DEF IInv, LiveIsCurrent, NotRunningMeansDead, Alive, Dead
<1>10. QED
  BY <1>5, <1>6, <1>7, <1>8, <1>9 DEF Rest

\* The ten seconds are over: Kill and the second Wait (219-223).
LEMMA StopTimeoutKeeps ==
    ASSUME IInv, NEW x \in Callers, StopTimeout(x)
    PROVE  Rest'
<1> DEFINE p == call[x].proc
           k == Killer(x, p)
<1>1. /\ p \in Procs /\ proc[p].made /\ call[x].pc \in Holding
      /\ proc[p].Command \in Cmds /\ cmd[proc[p].Command].life # "none"
  BY DEF IInv, StopTimeout, WellFormed, ProcNamed, StopHolding, Holding
<1>2. /\ k \in Waiters
      /\ wt'[k] = [pc |-> "check", cmd |-> proc[p].Command, got |-> "ok"]
      /\ \A w \in Waiters \ {k} : wt'[w] = wt[w]
  BY <1>1, WaitersDiffer DEF StopTimeout, Waiting, IInv, TypeOK
<1>3. /\ call[x].pc = "stop_wait" /\ call'[x].pc = "stop_kill" /\ call'[x].proc = p
      /\ \A y \in Callers \ {x} : call'[y] = call[y]
  BY DEF StopTimeout, Goto, IInv, TypeOK, CallRecords
<1>4. /\ \A d \in Cmds : /\ cmd[d].life # "none" => cmd'[d].life # "none"
                         /\ Dead(d) => Dead(d)'
                         /\ Alive(d)' => Alive(d)
                         /\ cmd'[d].reported = cmd[d].reported
      /\ UNCHANGED <<processes, proc, mon, pmu, reading, stopChan, owner>>
  BY <1>1, ExitsAge DEF StopTimeout, IInv
<1> HIDE DEF p, k
<1>5. WellFormed'
  BY <1>1, <1>3, <1>4 DEF IInv, WellFormed
<1>6. WaitersSawExit'
  BY <1>1, <1>2, <1>4 DEF IInv, WaitersSawExit
<1>7. MonitorFollows'
  <2>1. \A q \in Procs : Monitor(q) \in Waiters /\ Monitor(q) # k
    BY <1>1, WaitersDiffer DEF k
  <2>2. \A q \in Procs : mon[q].pc # "off" => proc[q].Command \in Cmds
    BY DEF IInv, WellFormed
  <2>3. QED
    BY <2>1, <2>2, <1>2, <1>4 DEF IInv, MonitorFollows
<1>8. StopHoldsItsProc'
  <2>1. ASSUME NEW y \in Callers, call[y].pc \in Holding
        PROVE  /\ Helper(y, call[y].proc) \in Waiters \ {k}
               /\ y # x => Killer(y, call[y].proc) \in Waiters \ {k}
    BY <2>1, <1>1, HoldersDiffer, WaitersDiffer DEF k
  <2>2. ASSUME NEW y \in Callers \ {x}
        PROVE  /\ call'[y].pc \in Holding => pmu'[call'[y].proc] = y
               /\ call'[y].pc \in StopHolding =>
                     /\ wt'[Helper(y, call'[y].proc)].pc # "idle"
                     /\ wt'[Helper(y, call'[y].proc)].cmd = proc'[call'[y].proc].Command
               /\ call'[y].pc = "stop_kill" =>
                     /\ wt'[Killer(y, call'[y].proc)].pc # "idle"
                     /\ wt'[Killer(y, call'[y].proc)].cmd = proc'[call'[y].proc].Command
    BY <2>1, <1>2, <1>3, <1>4 DEF IInv, StopHoldsItsProc, Holding, StopHolding
  <2>3. /\ pmu'[call'[x].proc] = x
        /\ wt'[Helper(x, call'[x].proc)].pc # "idle"
        /\ wt'[Helper(x, call'[x].proc)].cmd = proc'[call'[x].proc].Command
    BY <2>1, <1>1, <1>2, <1>3, <1>4 DEF IInv, StopHoldsItsProc, Holding, StopHolding, p
  <2>4. /\ wt'[Killer(x, call'[x].proc)].pc # "idle"
        /\ wt'[Killer(x, call'[x].proc)].cmd = proc'[call'[x].proc].Command
    BY <1>2, <1>3, <1>4 DEF k
  <2>5. QED
    BY <2>2, <2>3, <2>4, <1>3 DEF StopHoldsItsProc, Holding
<1>9. LiveIsCurrent' /\ NotRunningMeansDead'
  BY <1>4 DEF IInv, LiveIsCurrent, NotRunningMeansDead, WellFormed
<1>10. QED
  BY <1>5, <1>6, <1>7, <1>8, <1>9 DEF Rest

\* StopUMC comes back: the Wait it was in, of its helper or its own, saw the Command dead.
LEMMA StopReturnKeeps ==
    ASSUME IInv, NEW x \in Callers, StopDone(x) \/ StopKilled(x)
    PROVE  Rest'
<1> DEFINE p == call[x].proc
<1>1. /\ p \in Procs /\ proc[p].made /\ call[x].pc \in Holding
      /\ proc[p].Command \in Cmds
  BY DEF IInv, StopDone, StopKilled, WellFormed, ProcNamed, StopHolding, Holding
<1>2. PICK w \in {Helper(x, p), Killer(x, p)} :
        /\ wt[w].pc = "done" /\ wt[w].cmd = proc[p].Command
        /\ wt' = [wt EXCEPT ![w] = IdleWait]
  <2>1. CASE StopDone(x)
    BY <2>1 DEF StopDone, Returned, IInv, StopHoldsItsProc, StopHolding
  <2>2. CASE StopKilled(x)
    BY <2>2 DEF StopKilled, Returned, IInv, StopHoldsItsProc, StopHolding
  <2>3. QED
    BY <2>1, <2>2
<1>3. w \in Waiters /\ wt'[w].pc = "idle" /\ \A v \in Waiters \ {w} : wt'[v] = wt[v]
  BY <1>1, <1>2, WaitersDiffer DEF IInv, TypeOK, IdleWait
<1>4. Dead(proc[p].Command)
  BY <1>2, <1>3 DEF IInv, WaitersSawExit
<1>5. /\ UNCHANGED <<cmd, processes, mon, reading, stopChan, owner>>
      /\ StopReturn(x)
  BY DEF StopDone, StopKilled
<1>6. /\ pmu'[p] = Free /\ \A q \in Procs \ {p} : pmu'[q] = pmu[q] /\ proc'[q] = proc[q]
      /\ proc'[p].made = proc[p].made /\ proc'[p].Command = proc[p].Command
      /\ proc'[p].Running = FALSE
  BY <1>1, <1>5 DEF StopReturn, IInv, TypeOK, ProcRecords
<1>7. /\ call'[x].pc \notin ProcNamed \cup Holding
      /\ \A y \in Callers \ {x} : call'[y] = call[y]
  <2>1. CASE call[x].op = "restart"
    <3>1. call' = [call EXCEPT ![x] = [@ EXCEPT !.pc = "start", !.proc = NoProc]]
      BY <1>5, <2>1 DEF StopReturn
    <3>2. call'[x].pc = "start" /\ \A y \in Callers \ {x} : call'[y] = call[y]
      BY <3>1 DEF IInv, TypeOK, CallRecords
    <3>3. QED
      BY <3>2 DEF ProcNamed, StopHolding, Holding
  <2>2. CASE call[x].op # "restart"
    BY <1>5, <2>2, ReturnIsQuiet DEF StopReturn, IInv
  <2>3. QED
    BY <2>1, <2>2
<1> HIDE DEF p
<1>8. WellFormed'
  <2>1. \A q \in Procs : proc'[q].made = proc[q].made /\ proc'[q].Command = proc[q].Command
    BY <1>6
  <2>2. \A n \in Names : processes[n] # NoProc => processes[n] \in Procs
    BY DEF IInv, TypeOK
  <2>3. QED
    BY <2>1, <2>2, <1>5, <1>7 DEF IInv, WellFormed
<1>9. WaitersSawExit'
  BY <1>3, <1>5 DEF IInv, WaitersSawExit, Dead
<1>10. MonitorFollows'
  <2>1. \A q \in Procs : Monitor(q) \in Waiters /\ Monitor(q) # w
    BY <1>1, <1>2, WaitersDiffer DEF p
  <2>2. \A q \in Procs : proc'[q].Command = proc[q].Command
    BY <1>6
  <2>3. QED
    BY <2>1, <2>2, <1>3, <1>5 DEF IInv, MonitorFollows, Dead
<1>11. StopHoldsItsProc'
  <2>1. ASSUME NEW y \in Callers \ {x}, call[y].pc \in Holding
        PROVE  /\ call[y].proc \in Procs \ {p}
               /\ Helper(y, call[y].proc) \in Waiters \ {w}
               /\ Killer(y, call[y].proc) \in Waiters \ {w}
    BY <2>1, <1>1, <1>2, HoldersDiffer, WaitersDiffer DEF p
  <2>2. ASSUME NEW y \in Callers \ {x}
        PROVE  /\ call'[y].pc \in Holding => pmu'[call'[y].proc] = y
               /\ call'[y].pc \in StopHolding =>
                     /\ wt'[Helper(y, call'[y].proc)].pc # "idle"
                     /\ wt'[Helper(y, call'[y].proc)].cmd = proc'[call'[y].proc].Command
               /\ call'[y].pc = "stop_kill" =>
                     /\ wt'[Killer(y, call'[y].proc)].pc # "idle"
                     /\ wt'[Killer(y, call'[y].proc)].cmd = proc'[call'[y].proc].Command
    BY <2>1, <1>3, <1>6, <1>7 DEF IInv, StopHoldsItsProc, Holding, StopHolding
  <2>3. QED
    BY <2>2, <1>7 DEF StopHoldsItsProc, Holding, StopHolding
<1>12. LiveIsCurrent'
  <2>1. \A q \in Procs : proc'[q].Command = proc[q].Command
    BY <1>6
  <2>2. QED
    BY <2>1, <1>5 DEF IInv, LiveIsCurrent, Alive
<1>13. NotRunningMeansDead'
  BY <1>4, <1>5, <1>6 DEF IInv, NotRunningMeansDead, Dead
<1>14. QED
  BY <1>8, <1>9, <1>10, <1>11, <1>12, <1>13 DEF Rest

\* Steps that leave processes, Waits and monitors alone, and take or release a lock.
LEMMA StatusAcquireKeeps ==
    ASSUME IInv, NEW x \in Callers, StatusAcquire(x)
    PROVE  Rest'
<1>1. call[x].proc \in Procs /\ proc[call[x].proc].made /\ ProcUnlocked(call[x].proc)
  BY DEF IInv, StatusAcquire, WellFormed, ProcNamed
<1>2. CASE ~proc[call[x].proc].Running
  <2>1. QuietStep(x)
    BY <1>2, ReturnIsQuiet DEF StatusAcquire, QuietStep, IInv
  <2>2. QED
    BY <2>1, QuietKeeps
<1>3. CASE proc[call[x].proc].Running
  <2>1. /\ call'[x].pc = "status_health" /\ call'[x].proc = call[x].proc
        /\ \A y \in Callers \ {x} : call'[y] = call[y]
        /\ pmu'[call[x].proc] = x
        /\ \A q \in Procs \ {call[x].proc} : pmu'[q] = pmu[q]
        /\ UNCHANGED <<cmd, wt, processes, proc, mon, stopChan, owner>>
    BY <1>1, <1>3 DEF StatusAcquire, Goto, IInv, TypeOK, CallRecords
  <2>2. WellFormed' /\ WaitersSawExit' /\ MonitorFollows'
    BY <1>1, <2>1 DEF IInv, WellFormed, WaitersSawExit, MonitorFollows, Dead
  <2>3. StopHoldsItsProc'
    <3>1. ASSUME NEW y \in Callers \ {x}, call[y].pc \in Holding
          PROVE  call[y].proc \in Procs \ {call[x].proc}
      BY <3>1, <1>1, HoldersDiffer
    <3>2. QED
      BY <3>1, <2>1 DEF IInv, StopHoldsItsProc, Holding, StopHolding
  <2>4. LiveIsCurrent' /\ NotRunningMeansDead'
    BY <2>1 DEF IInv, LiveIsCurrent, NotRunningMeansDead, Alive, Dead
  <2>5. QED
    BY <2>2, <2>3, <2>4 DEF Rest
<1>4. QED
  BY <1>2, <1>3

\* The end of the health check (258) gives proc.mu back.
LEMMA StatusHealthKeeps ==
    ASSUME IInv, NEW x \in Callers, StatusHealth(x)
    PROVE  Rest'
<1>1. call[x].pc \in Holding
  BY DEF StatusHealth, Holding
<1>2. /\ UNCHANGED <<cmd, wt, processes, proc, mon, stopChan, owner>>
      /\ call'[x].pc \notin ProcNamed \cup Holding
      /\ \A y \in Callers \ {x} : call'[y] = call[y]
      /\ \A q \in Procs \ {call[x].proc} : pmu'[q] = pmu[q]
  BY ReturnIsQuiet DEF StatusHealth, IInv, TypeOK
<1>3. WellFormed' /\ WaitersSawExit' /\ MonitorFollows'
  BY <1>2 DEF IInv, WellFormed, WaitersSawExit, MonitorFollows, Dead
<1>4. StopHoldsItsProc'
  <2>1. ASSUME NEW y \in Callers \ {x}, call[y].pc \in Holding
        PROVE  call[y].proc \in Procs \ {call[x].proc}
    BY <2>1, <1>1, HoldersDiffer
  <2>2. QED
    BY <2>1, <1>2 DEF IInv, StopHoldsItsProc, Holding, StopHolding
<1>5. LiveIsCurrent' /\ NotRunningMeansDead'
  BY <1>2 DEF IInv, LiveIsCurrent, NotRunningMeansDead, Alive, Dead
<1>6. QED
  BY <1>3, <1>4, <1>5 DEF Rest

\* A new policy (353) concerns no process.
LEMMA SetRestartPolicyKeeps ==
    ASSUME IInv, NEW x \in Callers, SetRestartPolicy(x)
    PROVE  Rest'
<1>1. /\ UNCHANGED <<cmd, wt, processes, mon, pmu, stopChan, owner>>
      /\ call'[x].pc \notin ProcNamed \cup Holding
      /\ \A y \in Callers \ {x} : call'[y] = call[y]
  BY ReturnIsQuiet DEF SetRestartPolicy, IInv
<1>2. \A q \in Procs : /\ proc'[q].made = proc[q].made
                       /\ proc'[q].Command = proc[q].Command
                       /\ proc'[q].Running = proc[q].Running
  BY DEF SetRestartPolicy, IInv, TypeOK, ProcRecords
<1>3. WellFormed'
  BY <1>1, <1>2 DEF IInv, WellFormed, TypeOK
<1>4. WaitersSawExit' /\ MonitorFollows'
  BY <1>1, <1>2 DEF IInv, WaitersSawExit, MonitorFollows, Dead
<1>5. StopHoldsItsProc'
  <2>1. ASSUME NEW y \in Callers \ {x}, call[y].pc \in Holding
        PROVE  call[y].proc \in Procs
    BY <2>1, HoldersDiffer
  <2>2. QED
    BY <1>1, <1>2, <2>1 DEF IInv, StopHoldsItsProc, Holding, StopHolding
<1>6. LiveIsCurrent' /\ NotRunningMeansDead'
  BY <1>1, <1>2 DEF IInv, LiveIsCurrent, NotRunningMeansDead, Alive, Dead
<1>7. QED
  BY <1>3, <1>4, <1>5, <1>6 DEF Rest

\* StartUMC puts a UMCProcess never used before under the name, with its first Command.
LEMMA StartUMCKeeps ==
    ASSUME IInv, NEW x \in Callers, StartUMC(x)
    PROVE  Rest'
<1>1. PICK p \in Unused, c \in Fresh :
        /\ cmd' = Started(c, StartCtx(x))
        /\ owner' = [owner EXCEPT ![c] = p]
        /\ proc' = [proc EXCEPT ![p] = NewProc(call[x].name, c)]
        /\ processes' = [processes EXCEPT ![call[x].name] = p]
        /\ mon' = [mon EXCEPT ![p].pc = "top"]
  BY DEF StartUMC
<1>2. /\ p \in Procs /\ ~proc[p].made /\ mon[p].pc = "off"
      /\ c \in Cmds /\ cmd[c].life = "none"
  BY DEF Unused, Fresh, IInv, WellFormed
<1>3. /\ cmd'[c].life = "alive" /\ cmd'[c].reported = FALSE
      /\ \A d \in Cmds \ {c} : cmd'[d] = cmd[d]
      /\ owner'[c] = p /\ \A d \in Cmds \ {c} : owner'[d] = owner[d]
  BY <1>1, <1>2 DEF Started, FreshCmd, IInv, TypeOK
<1>4. /\ proc'[p].made /\ proc'[p].Running /\ proc'[p].Command = c /\ mon'[p].pc = "top"
      /\ \A q \in Procs \ {p} : proc'[q] = proc[q] /\ mon'[q] = mon[q]
  BY <1>1, <1>2 DEF NewProc, IInv, TypeOK, MonitorRecords
<1>5. \A n \in Names : processes'[n] \in {p, processes[n]}
  BY <1>1 DEF IInv, TypeOK
<1>6. /\ UNCHANGED <<wt, pmu, stopChan>>
      /\ call'[x].pc \notin ProcNamed \cup Holding
      /\ \A y \in Callers \ {x} : call'[y] = call[y]
  BY ReturnIsQuiet DEF StartUMC, IInv
<1>7. /\ \A q \in Procs : proc[q].made => q # p /\ proc[q].Command \in Cmds \ {c}
      /\ \A q \in Procs : mon[q].pc = "publish" => q # p /\ mon[q].new \in Cmds \ {c}
      /\ \A n \in Names : processes[n] # NoProc => processes[n] \in Procs
  BY <1>2 DEF IInv, WellFormed, TypeOK
<1>8. WellFormed'
  <2>1. ASSUME NEW q \in Procs
        PROVE  /\ proc'[q].made <=> mon'[q].pc # "off"
               /\ proc'[q].made => /\ proc'[q].Command \in Cmds
                                   /\ cmd'[proc'[q].Command].life # "none"
                                   /\ owner'[proc'[q].Command] = q
               /\ mon'[q].pc = "publish" => /\ mon'[q].new \in Cmds
                                            /\ cmd'[mon'[q].new].life # "none"
                                            /\ owner'[mon'[q].new] = q
    <3>1. CASE q = p
      BY <3>1, <1>2, <1>3, <1>4
    <3>2. CASE q # p
      BY <3>2, <1>3, <1>4, <1>7 DEF IInv, WellFormed
    <3>3. QED
      BY <3>1, <3>2
  <2>2. \A n \in Names : processes'[n] # NoProc => proc'[processes'[n]].made
    BY <1>4, <1>5, <1>7 DEF IInv, WellFormed
  <2>3. \A y \in Callers : call'[y].pc \in ProcNamed =>
            call'[y].proc \in Procs /\ proc'[call'[y].proc].made
    BY <1>4, <1>6, <1>7 DEF IInv, WellFormed
  <2>4. QED
    BY <2>1, <2>2, <2>3 DEF WellFormed
<1>9. WaitersSawExit'
  BY <1>2, <1>3, <1>6 DEF IInv, WaitersSawExit, Dead
<1>10. MonitorFollows'
  <2>1. ASSUME NEW q \in Procs, q # p, mon[q].pc # "off"
        PROVE  proc[q].Command \in Cmds \ {c}
    BY <2>1, <1>7 DEF IInv, WellFormed
  <2>2. QED
    BY <2>1, <1>3, <1>4, <1>6 DEF IInv, MonitorFollows, Dead
<1>11. StopHoldsItsProc'
  <2>1. ASSUME NEW y \in Callers \ {x}, call[y].pc \in Holding
        PROVE  call[y].proc \in Procs \ {p}
    BY <2>1, <1>2 DEF IInv, WellFormed, Holding, ProcNamed
  <2>2. QED
    BY <2>1, <1>4, <1>6 DEF IInv, StopHoldsItsProc, Holding, StopHolding
<1>12. LiveIsCurrent'
  <2>1. ASSUME NEW d \in Cmds, Alive(d)', d # c
        PROVE  Alive(d) /\ owner[d] \in Procs \ {p}
    BY <2>1, <1>2, <1>3 DEF IInv, LiveIsCurrent, Alive
  <2>2. QED
    BY <2>1, <1>2, <1>3, <1>4, <1>6 DEF IInv, LiveIsCurrent
<1>13. NotRunningMeansDead'
  BY <1>3, <1>4, <1>7 DEF IInv, NotRunningMeansDead, Dead
<1>14. QED
  BY <1>8, <1>9, <1>10, <1>11, <1>12, <1>13 DEF Rest

\* The monitor goes on with neither a process nor a Wait: its Command is dead, or
\* the supervisor has shut down.
LEMMA MonitorMovesKeep ==
    ASSUME IInv, NEW p \in Procs,
           mon[p].pc \in {"backoff", "sleep"} \/ (mon[p].pc = "top" /\ stopChan),
           NEW pc \in {"sleep", "done"}, MonitorGoto(p, pc),
           mon[p].pc = "top" => pc = "done",
           UNCHANGED <<cmd, wt, processes, proc, pmu, reading, stopChan, call, owner>>
    PROVE  Rest'
<1>1. mon'[p] = [pc |-> pc, new |-> NoCmd] /\ \A q \in Procs \ {p} : mon'[q] = mon[q]
  BY DEF MonitorGoto, IInv, TypeOK
<1>2. WellFormed' /\ WaitersSawExit' /\ StopHoldsItsProc' /\ NotRunningMeansDead'
  BY <1>1 DEF IInv, WellFormed, WaitersSawExit, StopHoldsItsProc, NotRunningMeansDead, Dead
<1>3. MonitorFollows'
  BY <1>1 DEF IInv, MonitorFollows, Dead
<1>4. LiveIsCurrent'
  BY <1>1 DEF IInv, LiveIsCurrent, MonitorFollows, Alive, Dead
<1>5. QED
  BY <1>2, <1>3, <1>4 DEF Rest

\* The loop head of the monitor (535) begins to wait or leaves.
LEMMA MonitorTopKeeps ==
    ASSUME IInv, NEW p \in Procs, MonitorTop(p)
    PROVE  Rest'
<1>1. CASE stopChan
  BY <1>1, MonitorMovesKeep DEF MonitorTop
<1>2. CASE ~stopChan
  <2> DEFINE w == Monitor(p)
  <2>1. /\ mon[p].pc = "top" /\ proc[p].Command \in Cmds
        /\ cmd[proc[p].Command].life # "none"
    BY DEF MonitorTop, IInv, WellFormed
  <2>2. /\ w \in Waiters
        /\ wt'[w] = [pc |-> "check", cmd |-> proc[p].Command, got |-> "ok"]
        /\ \A v \in Waiters \ {w} : wt'[v] = wt[v]
    BY <1>2, <2>1, WaitersDiffer DEF MonitorTop, Waiting, IInv, TypeOK
  <2>3. /\ mon'[p] = [pc |-> "wait", new |-> NoCmd]
        /\ \A q \in Procs \ {p} : mon'[q] = mon[q]
    BY <1>2 DEF MonitorTop, MonitorGoto, IInv, TypeOK
  <2>4. UNCHANGED <<cmd, processes, proc, pmu, reading, stopChan, call, owner>>
    BY DEF MonitorTop
  <2>5. WellFormed' /\ NotRunningMeansDead'
    BY <2>1, <2>3, <2>4 DEF IInv, WellFormed, NotRunningMeansDead, Dead
  <2>6. WaitersSawExit'
    BY <2>1, <2>2, <2>4 DEF IInv, WaitersSawExit, Dead
  <2>7. MonitorFollows'
    <3>1. \A q \in Procs \ {p} : Monitor(q) \in Waiters \ {w}
      BY WaitersDiffer
    <3>2. QED
      BY <3>1, <2>2, <2>3, <2>4 DEF IInv, MonitorFollows, Dead
  <2>8. StopHoldsItsProc'
    <3>1. ASSUME NEW y \in Callers, call[y].pc \in Holding
          PROVE  /\ Helper(y, call[y].proc) \in Waiters \ {w}
                 /\ Killer(y, call[y].proc) \in Waiters \ {w}
      BY <3>1, HoldersDiffer, WaitersDiffer
    <3>2. QED
      BY <3>1, <2>2, <2>4 DEF IInv, StopHoldsItsProc, Holding, StopHolding
  <2>9. LiveIsCurrent'
    BY <2>1, <2>3, <2>4 DEF IInv, LiveIsCurrent, Alive
  <2>10. QED
    BY <2>5, <2>6, <2>7, <2>8, <2>9 DEF Rest
<1>3. QED
  BY <1>1, <1>2

\* The monitor has seen its Command dead and clears Running (553).
LEMMA MonitorExitedKeeps ==
    ASSUME IInv, NEW p \in Procs, MonitorExited(p)
    PROVE  Rest'
<1> DEFINE w == Monitor(p)
<1>1. /\ mon[p].pc = "wait" /\ proc[p].made /\ ProcUnlocked(p)
      /\ wt[w].pc = "done" /\ wt[w].cmd = proc[p].Command /\ w \in Waiters
  BY WaitersDiffer DEF MonitorExited, Returned, IInv, WellFormed, MonitorFollows
<1>2. Dead(proc[p].Command)
  BY <1>1 DEF IInv, WaitersSawExit
<1>3. /\ wt'[w].pc = "idle" /\ \A v \in Waiters \ {w} : wt'[v] = wt[v]
      /\ UNCHANGED <<cmd, processes, pmu, reading, stopChan, call, owner>>
  BY <1>1 DEF MonitorExited, IInv, TypeOK, IdleWait
<1>4. /\ mon'[p].pc \in {"backoff", "done"}
      /\ \A q \in Procs \ {p} : mon'[q] = mon[q]
  BY DEF MonitorExited, MonitorGoto, IInv, TypeOK
<1>5. \A q \in Procs : /\ proc'[q].made = proc[q].made
                       /\ proc'[q].Command = proc[q].Command
                       /\ q # p => proc'[q].Running = proc[q].Running
  BY DEF MonitorExited, IInv, TypeOK, ProcRecords
<1>6. WellFormed'
  <2>1. \A n \in Names : processes[n] # NoProc => processes[n] \in Procs
    BY DEF IInv, TypeOK
  <2>2. QED
    BY <2>1, <1>1, <1>3, <1>4, <1>5 DEF IInv, WellFormed
<1>7. WaitersSawExit'
  BY <1>3 DEF IInv, WaitersSawExit, Dead
<1>8. MonitorFollows'
  <2>1. \A q \in Procs \ {p} : Monitor(q) \in Waiters \ {w}
    BY WaitersDiffer
  <2>2. QED
    BY <2>1, <1>2, <1>3, <1>4, <1>5 DEF IInv, MonitorFollows, Dead
<1>9. StopHoldsItsProc'
  <2>1. ASSUME NEW y \in Callers, call[y].pc \in Holding
        PROVE  /\ call[y].proc \in Procs
               /\ Helper(y, call[y].proc) \in Waiters \ {w}
               /\ Killer(y, call[y].proc) \in Waiters \ {w}
    BY <2>1, HoldersDiffer, WaitersDiffer
  <2>2. QED
    BY <2>1, <1>3, <1>5 DEF IInv, StopHoldsItsProc, Holding, StopHolding
<1>10. LiveIsCurrent'
  BY <1>1, <1>2, <1>3, <1>4, <1>5 DEF IInv, LiveIsCurrent, Alive, Dead
<1>11. NotRunningMeansDead'
  BY <1>2, <1>3, <1>5 DEF IInv, NotRunningMeansDead, Dead
<1>12. QED
  BY <1>6, <1>7, <1>8, <1>9, <1>10, <1>11 DEF Rest

\* The monitor starts a new Cmd, which is live but not yet published.
LEMMA MonitorRestartKeeps ==
    ASSUME IInv, NEW p \in Procs, MonitorRestart(p)
    PROVE  Rest'
<1>1. PICK c \in Fresh : /\ cmd' = Started(c, NoCtx)
                         /\ owner' = [owner EXCEPT ![c] = p]
                         /\ mon' = [mon EXCEPT ![p] = [pc |-> "publish", new |-> c]]
  BY DEF MonitorRestart
<1>2. /\ mon[p].pc = "sleep" /\ proc[p].made /\ Dead(proc[p].Command)
      /\ c \in Cmds /\ cmd[c].life = "none"
      /\ UNCHANGED <<wt, processes, proc, pmu, reading, stopChan, call>>
  BY DEF MonitorRestart, Fresh, IInv, WellFormed, MonitorFollows
<1>3. /\ cmd'[c].life = "alive" /\ cmd'[c].reported = FALSE
      /\ \A d \in Cmds \ {c} : cmd'[d] = cmd[d]
      /\ owner'[c] = p /\ \A d \in Cmds \ {c} : owner'[d] = owner[d]
  BY <1>1, <1>2 DEF Started, FreshCmd, IInv, TypeOK
<1>4. /\ mon'[p] = [pc |-> "publish", new |-> c]
      /\ \A q \in Procs \ {p} : mon'[q] = mon[q]
  BY <1>1 DEF IInv, TypeOK
<1>5. /\ \A q \in Procs : proc[q].made => proc[q].Command \in Cmds \ {c}
      /\ \A q \in Procs : mon[q].pc = "publish" => mon[q].new \in Cmds \ {c}
  BY <1>2 DEF IInv, WellFormed
<1>6. WellFormed'
  BY <1>2, <1>3, <1>4, <1>5 DEF IInv, WellFormed
<1>7. WaitersSawExit'
  BY <1>2, <1>3 DEF IInv, WaitersSawExit, Dead
<1>8. MonitorFollows'
  <2>1. \A q \in Procs : mon[q].pc # "off" => proc[q].Command \in Cmds \ {c}
    BY <1>5 DEF IInv, WellFormed
  <2>2. QED
    BY <2>1, <1>2, <1>3, <1>4 DEF IInv, MonitorFollows, Dead
<1>9. StopHoldsItsProc'
  BY <1>2 DEF IInv, StopHoldsItsProc
<1>10. LiveIsCurrent'
  <2>1. ASSUME NEW d \in Cmds, Alive(d)', d # c
        PROVE  Alive(d) /\ owner[d] \in Procs \ {p}
    BY <2>1, <1>2, <1>3 DEF IInv, LiveIsCurrent, Alive, Dead
  <2>2. QED
    BY <2>1, <1>2, <1>3, <1>4 DEF IInv, LiveIsCurrent
<1>11. NotRunningMeansDead'
  BY <1>2, <1>3, <1>5 DEF IInv, NotRunningMeansDead, Dead
<1>12. QED
  BY <1>6, <1>7, <1>8, <1>9, <1>10, <1>11 DEF Rest

\* It becomes the Command of the UMCProcess, over a dead one.
LEMMA MonitorPublishKeeps ==
    ASSUME IInv, NEW p \in Procs, MonitorPublish(p)
    PROVE  Rest'
<1>1. /\ mon[p].pc = "publish" /\ proc[p].made /\ ProcUnlocked(p)
      /\ mon[p].new \in Cmds /\ cmd[mon[p].new].life # "none" /\ owner[mon[p].new] = p
      /\ Dead(proc[p].Command)
      /\ UNCHANGED <<cmd, wt, processes, pmu, reading, stopChan, call, owner>>
  BY DEF MonitorPublish, IInv, WellFormed, MonitorFollows
<1>2. /\ mon'[p].pc = "top" /\ \A q \in Procs \ {p} : mon'[q] = mon[q] /\ proc'[q] = proc[q]
      /\ proc'[p].Command = mon[p].new /\ proc'[p].Running = TRUE /\ proc'[p].made
  BY <1>1 DEF MonitorPublish, MonitorGoto, IInv, TypeOK, ProcRecords
<1>3. WellFormed'
  <2>1. \A n \in Names : processes[n] # NoProc => processes[n] \in Procs
    BY DEF IInv, TypeOK
  <2>2. QED
    BY <2>1, <1>1, <1>2 DEF IInv, WellFormed
<1>4. WaitersSawExit'
  BY <1>1 DEF IInv, WaitersSawExit, Dead
<1>5. MonitorFollows'
  BY <1>1, <1>2 DEF IInv, MonitorFollows, Dead
<1>6. StopHoldsItsProc'
  <2>1. ASSUME NEW y \in Callers, call[y].pc \in Holding
        PROVE  call[y].proc \in Procs \ {p}
    BY <2>1, <1>1, HoldersDiffer
  <2>2. QED
    BY <2>1, <1>1, <1>2 DEF IInv, StopHoldsItsProc, Holding, StopHolding
<1>7. LiveIsCurrent'
  BY <1>1, <1>2 DEF IInv, LiveIsCurrent, Alive, Dead
<1>8. NotRunningMeansDead'
  BY <1>1, <1>2 DEF IInv, NotRunningMeansDead, Dead
<1>9. QED
  BY <1>3, <1>4, <1>5, <1>6, <1>7, <1>8 DEF Rest

-----------------------------------------------------------------------------
(***************************************************************************)
(* The invariant, and what follows from it.                                *)
(***************************************************************************)

\* Nothing runs before the launcher starts.
LEMMA InitIInv ==
    ASSUME Init
    PROVE  IInv
<1>1. TypeOK
  <2>1. cmd \in [Cmds -> CmdRecords(Ctxs)]
    BY DEF Init, FreshCmd, CmdRecords, Ctxs, Lives, Codes
  <2>2. wt \in [Waiters -> WaitRecords]
    BY DEF Init, IdleWait, WaitRecords, Codes
  <2>3. AnyName \in Names
    BY SupervisorAssumption DEF AnyName
  <2>4. proc \in [Procs -> ProcRecords] /\ mon \in [Procs -> MonitorRecords]
    BY <2>3 DEF Init, ProcRecords, MonitorRecords, Policies
  <2>5. call \in [Callers -> CallRecords]
    <3>1. ASSUME NEW x \in Callers
          PROVE  [pc |-> IF x = Boot THEN "boot" ELSE "idle",
                  op |-> IF x = Boot THEN "boot" ELSE "none",
                  name |-> AnyName, proc |-> NoProc,
                  todo |-> IF x = Boot THEN Manifest ELSE {},
                  policy |-> "always", res |-> "none"] \in CallRecords
      BY <2>3, SupervisorAssumption DEF CallRecords, CallPcs, CallOps, Policies
    <3>2. QED
      BY <3>1 DEF Init
  <2>6. QED
    BY <2>1, <2>2, <2>4, <2>5 DEF Init, TypeOK
<1>2. WellFormed
  BY DEF Init, WellFormed, ProcNamed, StopHolding
<1>3. WaitersSawExit
  BY DEF Init, WaitersSawExit, FreshCmd, IdleWait
<1>4. MonitorFollows
  BY DEF Init, MonitorFollows
<1>5. StopHoldsItsProc
  BY DEF Init, StopHoldsItsProc, StopHolding
<1>6. LiveIsCurrent /\ NotRunningMeansDead
  BY DEF Init, LiveIsCurrent, NotRunningMeansDead, Alive, FreshCmd
<1>7. QED
  BY <1>1, <1>2, <1>3, <1>4, <1>5, <1>6 DEF IInv

\* The invariant is inductive.
LEMMA StepIInv ==
    ASSUME IInv, [Next]_vars
    PROVE  IInv'
<1>1. TypeOK'
  BY TypeStep
<1>2. Rest'
  <2>1. CASE BootNext \/ ShutdownBegin \/ ShutdownStep
    BY <2>1, LauncherKeeps
  <2>2. ASSUME NEW x \in Callers, BeginRequest(x) \/ CallStep(x)
        PROVE  Rest'
    BY <2>2, LookupsKeep, StartUMCKeeps, StopAcquireKeeps, StopReturnKeeps, StopTimeoutKeeps,
       StatusAcquireKeeps, StatusHealthKeeps, SetRestartPolicyKeeps
    DEF CallStep, StopStep, StatusStep
  <2>3. ASSUME NEW p \in Procs, MonitorStep(p)
        PROVE  Rest'
    <3>1. CASE MonitorBackoff(p)
      BY <3>1, MonitorMovesKeep DEF MonitorBackoff
    <3>2. CASE MonitorGivesUp(p)
      BY <3>2, MonitorMovesKeep DEF MonitorGivesUp
    <3>3. QED
      BY <2>3, <3>1, <3>2, MonitorTopKeeps, MonitorExitedKeeps, MonitorRestartKeeps,
         MonitorPublishKeeps DEF MonitorStep
  <2>4. CASE \E c \in Cmds : ProcessExit(c) \/ ContextKill(c)
    BY <2>4, EnvironmentKeeps
  <2>5. CASE \E w \in Waiters : WaitProgress(w)
    BY <2>5, WaitsKeep
  <2>6. CASE UNCHANGED vars
    <3>1. AgingStep
      BY <2>6 DEF vars, AgingStep, IInv, WaitersSawExit, Dead, Alive
    <3>2. QED
      BY <3>1, AgingKeeps
  <2>7. QED
    BY <2>1, <2>2, <2>3, <2>4, <2>5, <2>6 DEF Next
<1>3. QED
  BY <1>1, <1>2 DEF IInv, Rest

\* The inductive invariant holds of every behaviour.
THEOREM Invariance == Spec => []IInv
<1>1. Init => IInv
  BY InitIInv
<1>2. IInv /\ [Next]_vars => IInv'
  BY StepIInv
<1>3. QED
  BY <1>1, <1>2, PTL DEF Spec

\* Type correctness.
THEOREM TypeCorrect == Spec => []TypeOK
<1>1. IInv => TypeOK
  BY DEF IInv
<1>2. QED
  BY <1>1, Invariance, PTL

\* `Running = false` (supervisor.go:233, 553) is never written over a live Command.
THEOREM NotRunningDead == Spec => []NotRunningMeansDead
<1>1. IInv => NotRunningMeansDead
  BY DEF IInv
<1>2. QED
  BY <1>1, Invariance, PTL

\* While StopUMC waits (202-232), the Command it stops stays the current one.
THEOREM StopHolds == Spec => []StopHoldsItsProc
<1>1. IInv => StopHoldsItsProc
  BY DEF IInv
<1>2. QED
  BY <1>1, Invariance, PTL

\* Of two live Cmds of one UMCProcess, neither can be the one about to be published.
LEMMA OneIsCurrent ==
    ASSUME IInv
    PROVE  OneLivePerProc
<1> SUFFICES ASSUME NEW c \in Cmds, NEW d \in Cmds,
                    Alive(c), Alive(d), owner[c] = owner[d]
             PROVE  c = d
  BY DEF OneLivePerProc
<1>1. mon[owner[c]].pc = "publish" => ~Alive(proc[owner[c]].Command)
  BY DEF IInv, LiveIsCurrent, MonitorFollows, Alive, Dead
<1>2. QED
  BY <1>1 DEF IInv, LiveIsCurrent

\* The monitor (530-644) never starts a second process beside a live one of its
\* UMCProcess, however many Waits race on its Cmd.
THEOREM AtMostOneLive == Spec => []OneLivePerProc
<1>1. IInv => OneLivePerProc
  BY OneIsCurrent
<1>2. QED
  BY <1>1, Invariance, PTL

\* Before the shutdown every live process is attended by its monitor.
THEOREM LiveIsSupervised == Spec => []Supervised
<1>1. IInv => Supervised
  BY DEF IInv, LiveIsCurrent, Supervised
<1>2. QED
  BY <1>1, Invariance, PTL

-----------------------------------------------------------------------------
(***************************************************************************)
(* The supervisor implements the lifecycle of each UMCProcess.             *)
(***************************************************************************)

Quiet == UNCHANGED <<LiveOf, WatchOf, stopChan>>

\* Steps that neither start nor end a process, nor move a monitor across its life.
LEMMA NobodyDies ==
    ASSUME UNCHANGED <<mon, stopChan, owner>>, \A c \in Cmds : Alive(c)' <=> Alive(c)
    PROVE  Quiet
<1>1. ASSUME NEW p \in Procs
      PROVE  {c \in Cmds : owner'[c] = p /\ Alive(c)'} = {c \in Cmds : owner[c] = p /\ Alive(c)}
  OBVIOUS
<1>2. LiveOf' = LiveOf
  BY <1>1 DEF LiveOf
<1>3. WatchOf' = WatchOf
  BY DEF WatchOf
<1> QED
  BY <1>2, <1>3 DEF Quiet

\* A process that exits or is killed was the only one of its UMCProcess.
LEMMA DeathMaps ==
    ASSUME IInv, NEW c \in Cmds, cmd' = Killed(c) \/ Exit(c),
           UNCHANGED <<mon, stopChan, owner>>
    PROVE  Watched!Next \/ Quiet
<1>0. cmd \in [Cmds -> CmdRecords(Ctxs)]
  BY DEF IInv, TypeOK
<1>1. CASE ~Alive(c)
  <2>1. UNCHANGED cmd
    BY <1>1 DEF Killed, Exit
  <2> QED
    BY <2>1, NobodyDies DEF Alive
<1>2. CASE Alive(c)
  <2> DEFINE p == owner[c]
  <2>1. p \in Procs
    BY <1>2 DEF IInv, LiveIsCurrent
  <2>2. /\ ~Alive(c)'
        /\ \A d \in Cmds \ {c} : Alive(d)' <=> Alive(d)
    BY <1>0, <1>2 DEF Killed, Exit, Alive, CmdRecords
  <2>3. \A d \in Cmds : Alive(d) /\ owner[d] = p => d = c
    BY <1>2, OneIsCurrent DEF OneLivePerProc
  <2>4. ASSUME NEW q \in Procs
        PROVE  {d \in Cmds : owner'[d] = q /\ Alive(d)'}
                 = IF q = p THEN {} ELSE {d \in Cmds : owner[d] = q /\ Alive(d)}
    BY <2>2, <2>3
  <2>5. LiveOf' = [LiveOf EXCEPT ![p] = {}]
    BY <2>1, <2>4 DEF LiveOf
  <2>6. LiveOf[p] # {}
    BY <1>2, <2>1 DEF LiveOf
  <2>7. WatchOf' = WatchOf
    BY DEF WatchOf
  <2>8. Watched!Die(p)
    BY <2>5, <2>6, <2>7 DEF Watched!Die
  <2> QED
    BY <2>1, <2>8 DEF Watched!Next
<1> QED
  BY <1>1, <1>2

\* A process is started for a UMCProcess that has none, by StartUMC or by its monitor.
LEMMA StartMaps ==
    ASSUME IInv, NEW p \in Procs, NEW c \in Fresh, NEW x,
           cmd' = Started(c, x), owner' = [owner EXCEPT ![c] = p],
           mon[p].pc \in {"off", "sleep"},
           mon'[p].pc \notin {"off", "done"}, \A q \in Procs \ {p} : mon'[q] = mon[q],
           UNCHANGED stopChan
    PROVE  Watched!Next
<1>0. /\ cmd \in [Cmds -> CmdRecords(Ctxs)] /\ owner \in [Cmds -> Procs \cup {NoProc}]
      /\ c \in Cmds /\ ~Alive(c)
  BY DEF IInv, TypeOK, Fresh, Alive
<1>1. /\ owner'[c] = p /\ Alive(c)'
      /\ \A d \in Cmds \ {c} : owner'[d] = owner[d] /\ (Alive(d)' <=> Alive(d))
  BY <1>0 DEF Started, FreshCmd, Alive
<1>2. \A d \in Cmds : ~(Alive(d) /\ owner[d] = p)
  BY DEF IInv, LiveIsCurrent
<1>3. ASSUME NEW q \in Procs
      PROVE  {d \in Cmds : owner'[d] = q /\ Alive(d)'}
               = IF q = p THEN {c} ELSE {d \in Cmds : owner[d] = q /\ Alive(d)}
  BY <1>0, <1>1, <1>2
<1>4. LiveOf[p] = {} /\ \A q \in Procs : c \notin LiveOf[q]
  BY <1>0, <1>2 DEF LiveOf
<1>5. LiveOf' = [LiveOf EXCEPT ![p] = {c}]
  BY <1>3 DEF LiveOf
<1>6. WatchOf[p] \in {"off", "on"} /\ WatchOf' = [WatchOf EXCEPT ![p] = "on"]
  BY DEF WatchOf
<1>7. Watched!Start(p)
  BY <1>0, <1>4, <1>5, <1>6 DEF Watched!Start
<1> QED
  BY <1>7 DEF Watched!Next

\* A monitor goes on, or leaves when its UMCProcess has no live process or the supervisor
\* shuts down.
LEMMA MonitorMaps ==
    ASSUME IInv, NEW p \in Procs,
           mon[p].pc \notin {"off", "done"}, mon'[p].pc # "off",
           \A q \in Procs \ {p} : mon'[q] = mon[q],
           mon'[p].pc = "done" =>
              stopChan \/ \A c \in Cmds : ~(Alive(c) /\ owner[c] = p),
           UNCHANGED <<cmd, owner, stopChan>>
    PROVE  Watched!Next \/ Quiet
<1>1. LiveOf' = LiveOf
  BY DEF LiveOf, Alive
<1>2. CASE mon'[p].pc # "done"
  <2>1. WatchOf' = WatchOf
    BY <1>2 DEF WatchOf
  <2> QED
    BY <1>1, <2>1 DEF Quiet
<1>3. CASE mon'[p].pc = "done"
  <2>1. WatchOf[p] = "on" /\ WatchOf' = [WatchOf EXCEPT ![p] = "gone"]
    BY <1>3 DEF WatchOf
  <2>2. LiveOf[p] = {} \/ stopChan
    BY <1>3 DEF LiveOf
  <2>3. Watched!GiveUp(p)
    BY <1>1, <2>1, <2>2 DEF Watched!GiveUp
  <2> QED
    BY <2>3 DEF Watched!Next
<1> QED
  BY <1>2, <1>3

\* Each step of a monitor.
LEMMA MonitorStepMaps ==
    ASSUME IInv, NEW p \in Procs, MonitorStep(p)
    PROVE  Watched!Next \/ Quiet
<1>0. mon \in [Procs -> MonitorRecords]
  BY DEF IInv, TypeOK
<1>1. CASE MonitorRestart(p)
  <2>1. PICK c \in Fresh :
          /\ cmd' = Started(c, NoCtx)
          /\ owner' = [owner EXCEPT ![c] = p]
          /\ mon' = [mon EXCEPT ![p] = [pc |-> "publish", new |-> c]]
    BY <1>1 DEF MonitorRestart
  <2>2. /\ mon[p].pc = "sleep" /\ mon'[p].pc = "publish"
        /\ \A q \in Procs \ {p} : mon'[q] = mon[q]
        /\ UNCHANGED stopChan
    BY <1>0, <1>1, <2>1 DEF MonitorRestart
  <2> QED
    BY <2>1, <2>2, StartMaps
<1>2. CASE ~MonitorRestart(p)
  <2>1. UNCHANGED <<cmd, owner, stopChan>>
    BY <1>2 DEF MonitorStep, MonitorTop, MonitorExited, MonitorBackoff, MonitorGivesUp,
       MonitorPublish
  <2>2. PICK pc \in {"wait", "backoff", "sleep", "top", "done"} : MonitorGoto(p, pc)
    BY <1>2 DEF MonitorStep, MonitorTop, MonitorExited, MonitorBackoff, MonitorGivesUp,
       MonitorPublish
  <2>3. mon'[p].pc = pc /\ \A q \in Procs \ {p} : mon'[q] = mon[q]
    BY <1>0, <2>2 DEF MonitorGoto
  <2>4. mon[p].pc \notin {"off", "done"}
    BY <1>2 DEF MonitorStep, MonitorTop, MonitorExited, MonitorBackoff, MonitorGivesUp,
       MonitorPublish
  <2>5. CASE MonitorExited(p)
    <3>1. Monitor(p) \in Waiters
      BY WaitersDiffer
    <3>2. mon[p].pc = "wait" /\ wt[Monitor(p)].cmd = proc[p].Command /\ Dead(proc[p].Command)
      BY <2>5, <3>1 DEF MonitorExited, Returned, IInv, WaitersSawExit, MonitorFollows
    <3>3. \A c \in Cmds : ~(Alive(c) /\ owner[c] = p)
      BY <3>2 DEF IInv, LiveIsCurrent, Alive, Dead
    <3> QED
      BY <2>1, <2>3, <2>4, <3>3, MonitorMaps
  <2>6. CASE MonitorGivesUp(p)
    <3>1. \A c \in Cmds : ~(Alive(c) /\ owner[c] = p)
      BY <2>6 DEF MonitorGivesUp, IInv, LiveIsCurrent
    <3> QED
      BY <2>1, <2>3, <2>4, <3>1, MonitorMaps
  <2>7. CASE MonitorTop(p)
    <3>1. mon'[p].pc = "done" => stopChan
      BY <1>0, <2>7 DEF MonitorTop, MonitorGoto
    <3> QED
      BY <2>1, <2>3, <2>4, <3>1, MonitorMaps
  <2>8. CASE MonitorBackoff(p) \/ MonitorPublish(p)
    <3>1. mon'[p].pc # "done"
      BY <1>0, <2>8 DEF MonitorBackoff, MonitorPublish, MonitorGoto
    <3> QED
      BY <2>1, <2>3, <2>4, <3>1, MonitorMaps
  <2> QED
    BY <1>2, <2>5, <2>6, <2>7, <2>8 DEF MonitorStep
<1> QED
  BY <1>1, <1>2

\* Each step of a call: only StartUMC starts, and only StopUMC's timeout kills.
LEMMA CallStepMaps ==
    ASSUME IInv, NEW x \in Callers, BeginRequest(x) \/ CallStep(x)
    PROVE  Watched!Next \/ Quiet
<1>1. CASE StartUMC(x)
  <2>1. PICK p \in Unused, c \in Fresh :
          /\ cmd' = Started(c, StartCtx(x))
          /\ owner' = [owner EXCEPT ![c] = p]
          /\ mon' = [mon EXCEPT ![p].pc = "top"]
    BY <1>1 DEF StartUMC
  <2>2. p \in Procs /\ mon[p].pc = "off"
    BY DEF Unused, IInv, WellFormed
  <2>3. mon'[p].pc = "top" /\ \A q \in Procs \ {p} : mon'[q] = mon[q]
    BY <2>1, <2>2 DEF IInv, TypeOK, MonitorRecords
  <2>4. UNCHANGED stopChan
    BY <1>1 DEF StartUMC
  <2> QED
    BY <2>1, <2>2, <2>3, <2>4, StartMaps
<1>2. CASE StopTimeout(x)
  <2>1. proc[call[x].proc].Command \in Cmds
    BY <1>2 DEF StopTimeout, IInv, WellFormed, ProcNamed, StopHolding
  <2> QED
    BY <1>2, <2>1, DeathMaps DEF StopTimeout
<1>3. CASE ~StartUMC(x) /\ ~StopTimeout(x)
  <2>1. UNCHANGED <<cmd, mon, stopChan, owner>>
    BY <1>3 DEF CallStep, StopStep, StatusStep, BeginRequest, StartFails, RestartUMC, StopLookup,
       StopCheck, StopAcquire, StopDone, StopKilled, StatusLookup, StatusAcquire, StatusHealth,
       ListLock, ListNext, SetRestartPolicy
  <2> QED
    BY <2>1, NobodyDies DEF Alive
<1> QED
  BY <1>1, <1>2, <1>3

\* Every step is one of the lifecycle, or none.
LEMMA StepMaps ==
    ASSUME IInv, [Next]_vars
    PROVE  Watched!Next \/ Quiet
<1>1. CASE BootNext \/ ShutdownBegin \/ ShutdownSnapshot \/ ShutdownNext \/ ShutdownReturn
           \/ UNCHANGED vars
  <2>1. UNCHANGED <<cmd, mon, stopChan, owner>>
    BY <1>1 DEF BootNext, ShutdownBegin, ShutdownSnapshot, ShutdownNext, ShutdownReturn, vars
  <2> QED
    BY <2>1, NobodyDies DEF Alive
<1>2. CASE CloseStopChan
  <2>1. UNCHANGED <<cmd, mon, owner>> /\ stopChan' = TRUE
    BY <1>2 DEF CloseStopChan
  <2>2. UNCHANGED <<LiveOf, WatchOf>>
    BY <2>1 DEF LiveOf, WatchOf, Alive
  <2>3. stopChan \in BOOLEAN
    BY DEF IInv, TypeOK
  <2> QED
    BY <2>1, <2>2, <2>3 DEF Watched!Next, Watched!Close, Quiet
<1>3. ASSUME NEW c \in Cmds, ProcessExit(c) \/ ContextKill(c)
      PROVE  Watched!Next \/ Quiet
  <2>1. UNCHANGED <<mon, stopChan, owner>> /\ (cmd' = Killed(c) \/ Exit(c))
    BY <1>3 DEF ProcessExit, ContextKill, CtxKill
  <2> QED
    BY <2>1, DeathMaps
<1>4. ASSUME NEW w \in Waiters, WaitProgress(w)
      PROVE  Quiet
  <2>1. UNCHANGED <<mon, stopChan, owner>>
    BY <1>4 DEF WaitProgress
  <2>2. \A c \in Cmds : Alive(c)' <=> Alive(c)
    BY <1>4 DEF WaitProgress, WaitStep, WaitCheck, WaitProcess, WaitAssign, WaitCtxResult, Alive,
       Dead, IInv, TypeOK, CmdRecords
  <2> QED
    BY <2>1, <2>2, NobodyDies
<1> QED
  BY <1>1, <1>2, <1>3, <1>4, MonitorStepMaps, CallStepMaps DEF Next, ShutdownStep

\* The supervisor implements the lifecycle of each UMCProcess (121-187, 530-644), whatever
\* starts, stops, restarts and crashes come in between.
THEOREM SupervisorImplementsLifecycle == Spec => KeepsLifecycle
<1>1. Init => Watched!Init
  BY DEF Init, Watched!Init, LiveOf, WatchOf, Alive, FreshCmd
<1>2. IInv /\ [Next]_vars => [Watched!Next]_<<LiveOf, WatchOf, stopChan>>
  BY StepMaps DEF Quiet
<1> QED
  BY <1>1, <1>2, Invariance, PTL DEF Spec, KeepsLifecycle, Watched!Spec

=============================================================================
