------------------------------ MODULE ExecCmd ------------------------------
(***************************************************************************)
(* os/exec.Cmd and the operating-system process behind it, as far as the   *)
(* supervisor depends on them (Go 1.25 standard library, not part of this  *)
(* repository).  The supervisor calls Wait on one Cmd from several         *)
(* goroutines at once, which os/exec does not synchronise, so Wait is      *)
(* modelled step by step: the test of ProcessState, the wait for the       *)
(* process, the assignment of ProcessState, and, for a Cmd made by         *)
(* CommandContext with a cancellable context, the receive of the one       *)
(* result the context watcher ever sends.                                  *)
(***************************************************************************)
EXTENDS Naturals

CONSTANTS
    Cmds,       \* identities of exec.Cmd values (and of their processes)
    NoCmd,      \* a nil *exec.Cmd
    NoCtx       \* the context of exec.Command: none

ASSUME NoCmdAssumption == NoCmd \notin Cmds

VARIABLES
    cmd,        \* cmd[c]: the Cmd and its process
    wt          \* wt[w]: the state of the Wait call of goroutine w

Lives == {"none", "alive", "exited", "reaped"}
Codes == {"ok", "fail", "error"}

CmdRecords(Ctxs) ==
    [life : Lives,          \* of the process; "exited" is a zombie
     code : Codes,          \* how it exited
     reported : BOOLEAN,    \* ProcessState # nil
     ctx : Ctxs,            \* the context it is bound to
     sent : BOOLEAN]        \* the watcher's only result was received

WaitRecords ==
    [pc : {"idle", "check", "block", "assign", "ctx", "done"},
     cmd : Cmds \cup {NoCmd},
     got : Codes]           \* "error": no exit status ("already called", ECHILD)

FreshCmd == [life |-> "none", code |-> "ok", reported |-> FALSE,
             ctx |-> NoCtx, sent |-> FALSE]
IdleWait == [pc |-> "idle", cmd |-> NoCmd, got |-> "ok"]

Alive(c) == cmd[c].life = "alive"
Dead(c)  == cmd[c].life \in {"exited", "reaped"}
Fresh    == {c \in Cmds : cmd[c].life = "none"}

-----------------------------------------------------------------------------
\* The successor values the supervisor's own actions use.

\* Cmd.Start of a command bound to context x succeeded.
Started(c, x) == [cmd EXCEPT ![c] = [FreshCmd EXCEPT !.life = "alive", !.ctx = x]]

\* Process.Kill: a process that has not exited does; otherwise an error nobody reads.
Killed(c) == IF Alive(c) THEN [cmd EXCEPT ![c].life = "exited", ![c].code = "fail"]
                         ELSE cmd

\* Goroutine w calls c.Wait().
Waiting(w, c) == [wt EXCEPT ![w] = [pc |-> "check", cmd |-> c, got |-> "ok"]]

Returned(w) == wt[w].pc = "done"

-----------------------------------------------------------------------------
\* The process ends: by itself, by a crash, or on the SIGINT of StopUMC.
Exit(c) ==
    /\ Alive(c)
    /\ \E code \in {"ok", "fail"} :
          cmd' = [cmd EXCEPT ![c].life = "exited", ![c].code = code]
    /\ UNCHANGED wt

\* The watcher goroutine of CommandContext kills the process once its context is done.
CtxKill(c) ==
    /\ Alive(c)
    /\ cmd' = Killed(c)
    /\ UNCHANGED wt

\* `if c.ProcessState != nil { return errors.New("exec: Wait was already called") }`
WaitCheck(w) ==
    /\ wt[w].pc = "check"
    /\ wt' = IF cmd[wt[w].cmd].reported
             THEN [wt EXCEPT ![w].pc = "done", ![w].got = "error"]
             ELSE [wt EXCEPT ![w].pc = "block"]
    /\ UNCHANGED cmd

\* Process.Wait returns: the status to the caller that reaps, ECHILD to any other.
WaitProcess(w) ==
    LET c == wt[w].cmd IN
    /\ wt[w].pc = "block"
    /\ Dead(c)
    /\ wt' = [wt EXCEPT ![w].pc = "assign",
                        ![w].got = IF cmd[c].life = "exited" THEN cmd[c].code ELSE "error"]
    /\ cmd' = [cmd EXCEPT ![c].life = "reaped"]

\* `c.ProcessState = state`, which is nil for a caller that got an error.
WaitAssign(w) ==
    LET c == wt[w].cmd IN
    /\ wt[w].pc = "assign"
    /\ cmd' = [cmd EXCEPT ![c].reported = (wt[w].got # "error")]
    /\ wt' = [wt EXCEPT ![w].pc = IF cmd[c].ctx = NoCtx THEN "done" ELSE "ctx"]

\* `watch := <-c.ctxResult`: the watcher sends once and is gone.
WaitCtxResult(w) ==
    LET c == wt[w].cmd IN
    /\ wt[w].pc = "ctx"
    /\ ~cmd[c].sent
    /\ cmd' = [cmd EXCEPT ![c].sent = TRUE]
    /\ wt' = [wt EXCEPT ![w].pc = "done"]

WaitStep(w) == WaitCheck(w) \/ WaitProcess(w) \/ WaitAssign(w) \/ WaitCtxResult(w)

=============================================================================
