----------------------------- MODULE MCInstall -----------------------------
(* A small instance of Install for TLC. *)
EXTENDS Install, TLC

CONSTANTS x1, x2, x3, a1, a2, umc

\* Three installs of one UMC: two of a version, one of another.
OneName     == [x \in Installs |-> umc]
TwoBinaries == [x \in Installs |-> IF x = x3 THEN a2 ELSE a1]

\* x1 and x2 ask for the same; any file is as good as another.
Symmetry == {p @@ q : p \in Permutations(Inodes), q \in Permutations({x1, x2})}

=============================================================================
