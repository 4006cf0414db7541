SPECIFICATION FairSpec
CONSTANTS
    Jobs = {"one", "two"}
    Payloads <- AllPayloads
    Slugs = {"app"}
    Names = {web, db}
    Refs = {"main", "local"}
    Secrets = {key}
    Networks = {net}
    References <- AllReferences
    BuildTag <- AllBuildTags
    NoImage = NoImage
    MaxExtractedBytes = 3
    Archives <- AllArchives
    NoCtr = NoCtr
    web = web
    db = db
    key = key
    net = net
    postgres = postgres
INVARIANTS
    TypeOK
    SecretsResolved
    RunsItsReference
    ExtractedWhole
    ContextIntact
PROPERTY
    TarEnds
CHECK_DEADLOCK FALSE
