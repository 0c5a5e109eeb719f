SPECIFICATION Spec
CONSTANTS
    Offers <- H2cOffers
    Host <- MCHost
    JsonLen = 3
    MaxInt = 1000
    NumRequests = 2
    Arrivals <- H2cArrivals
    HttpServers = {"http"}
    GrpcServers = {"grpc"}
INVARIANTS
    AsDocumented
CHECK_DEADLOCK FALSE
