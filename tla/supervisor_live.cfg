SPECIFICATION FairSpec
CONSTANTS
    n1 = n1  n2 = n2
    p1 = p1  p2 = p2  p3 = p3
    c1 = c1  c2 = c2  c3 = c3  c4 = c4
    r1 = r1  r2 = r2
    boot = boot
    NoCmd = NoCmd  NoCtx = NoCtx  NoProc = NoProc  Free = Free
    Boot = boot
    Names <- OneName
    Procs <- OneProc
    Cmds <- ThreeCmds
    Requests = {r1}
    Ops = {"status", "shutdown"}
    Manifest = {n1}
    StartCanFail = FALSE
    BootCtx = NoCtx
INVARIANTS
    OneLivePerProc
PROPERTIES
    KeepsLifecycle
    CrashRestart
    ShutdownReturns
    RequestsReturn
CHECK_DEADLOCK FALSE
