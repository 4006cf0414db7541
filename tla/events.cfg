SPECIFICATION FairSpec
CONSTANTS
    Server = "server"
    Emitters = {"server", "deploy", "delete", "status"}
    MaxRequests = 2
    Calls = {"deploy", "delete", "status"}
    Call <- AllCalls
    Ids = {"d"}
    Exposed = {"v"}
    NoState = NoState
INVARIANTS
    TypeOK
    AnnouncedIsStored
PROPERTIES
    AtMostOnce
    StopEnds
CHECK_DEADLOCK FALSE
