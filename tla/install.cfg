SPECIFICATION Spec
CONSTANTS
    Installs = {x1, x2, x3}
    Names = {umc}
    NameOf <- OneName
    Artifacts = {a1, a2}
    ArtifactOf <- TwoBinaries
    Bad = Bad
    Blocks = 2
    Inodes = {f1, f2, f3}
    NoFile = NoFile
    MaxCrashes = 1
    x1 = x1  x2 = x2  x3 = x3
    a1 = a1  a2 = a2
    umc = umc
SYMMETRY Symmetry
INVARIANTS
    TypeOK
    InstalledIsVerified
    TempRemoved
PROPERTY
    InstallsAtomically
CHECK_DEADLOCK FALSE
