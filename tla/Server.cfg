SPECIFICATION Spec
CONSTANTS
    Offers <- MCOffers
    Host <- MCHost
    JsonLen = 3
    MaxInt = 1000
    NumRequests = 3
    Arrivals <- MCArrivals
    HttpServers = {"http"}
    GrpcServers = {"grpc"}
INVARIANTS
    TypeOK
    ActiveExact
    StatsExact
    BodyExact
    
    HeaderLasts
    LineOwn
    InFlightWaited
PROPERTIES
    StopsInTime
    StopsPromptly
CHECK_DEADLOCK FALSE
