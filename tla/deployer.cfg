SPECIFICATION Spec
CONSTANTS
    i1 = i1  i2 = i2  i3 = i3  i4 = i4
    v1 = v1  v2 = v2
    NoSlug = NoSlug  NoJob = NoJob
    Ids <- FourIds
    Services <- TwoServices
    Slugs <- AppSlugs
    CNames <- Names
    ContainerName <- NameOf
    Prefixed <- OwnNames
    Jobs = {"a1", "a2", "d1"}
    Event <- ApplyApplyDelete
    Old <- OldWeb
    DockerCanFail = TRUE
    EmitCanFail = FALSE
    MaxCrashes = 0
SYMMETRY Symmetry
INVARIANTS
    StagesTruthful
    DeleteRemovesListed
PROPERTIES
    RemovesClaimed
    
CHECK_DEADLOCK FALSE
