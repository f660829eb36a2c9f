SPECIFICATION Spec
CONSTANTS
    None = None
    Names <- MCNames
    SessionCookies = {"login"}
    HarmlessCookies = {"session"}
    FrameworkCookies = {"session", "login"}
    Configs <- MCConfigs
    Requests <- MCRequests
    Responses <- MCResponses
    Elements <- MCElements
    TailSize = 2
    MaxCached = 14
    MaxServed = 3
CHECK_DEADLOCK FALSE
INVARIANTS TypeOK  ResponseFits 
