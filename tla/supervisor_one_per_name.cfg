SPECIFICATION Spec
CONSTANTS
    n1 = n1  n2 = n2
    p1 = p1  p2 = p2  p3 = p3
    c1 = c1  c2 = c2  c3 = c3  c4 = c4
    r1 = r1  r2 = r2
    boot = boot
    NoCmd = NoCmd  NoCtx = NoCtx  NoProc = NoProc  Free = Free
    Boot = boot
    Names <- OneName
    Procs <- TwoProcs
    Cmds <- ThreeCmds
    Requests = {r1}
    Ops = {"restart"}
    Manifest = {n1}
    StartCanFail = FALSE
    BootCtx = NoCtx
SYMMETRY Symmetry
INVARIANTS
    AtMostOneLivePerName
CHECK_DEADLOCK FALSE
