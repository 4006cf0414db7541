---------------------------- MODULE MCSupervisor ----------------------------
(* Small instances of Supervisor for TLC. *)
EXTENDS Supervisor, TLC

CONSTANTS n1, n2, p1, p2, p3, c1, c2, c3, c4, r1, r2, boot

OneName  == {n1}
TwoNames == {n1, n2}
OneProc  == {p1}
TwoProcs == {p1, p2}
ThreeProcs == {p1, p2, p3}
TwoCmds == {c1, c2}
ThreeCmds == {c1, c2, c3}
FourCmds  == {c1, c2, c3, c4}

\* For the runs without liveness only.
Symmetry == Permutations(Procs) \cup Permutations(Cmds) \cup Permutations(Requests)

=============================================================================
