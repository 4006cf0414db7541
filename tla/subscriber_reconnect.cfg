SPECIFICATION SubscriberSpec
CONSTANTS
    Server = "server"
    Emitters = {"server"}
    MaxRequests = 1
PROPERTY
    Reconnects
CHECK_DEADLOCK FALSE
