SPECIFICATION FairSpec
CONSTANTS
    i1 = i1  i2 = i2  i3 = i3  i4 = i4
    v1 = v1  v2 = v2
    NoSlug = NoSlug  NoJob = NoJob
    Ids <- TwoIds
    Services <- OneService
    Slugs <- AppSlugs
    CNames <- Names
    ContainerName <- NameOf
    Prefixed <- OwnNames
    Jobs = {"a1", "d1"}
    Event <- ApplyDelete
    Old <- OldApp
    DockerCanFail = FALSE
    EmitCanFail = TRUE
    MaxCrashes = 2
INVARIANTS
    TypeOK
    EndsAnswered
    NoneStranded
PROPERTIES
    Answered
    StoppedRestarted
CHECK_DEADLOCK FALSE
