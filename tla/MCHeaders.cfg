\* A request and its response.
CONSTANTS
    Extra = {"x-extra"}
    Requests <- MCRequests
    Responses <- MCResponses
    Configs <- MCConfigs
SPECIFICATION Spec
CHECK_DEADLOCK FALSE
INVARIANTS
    TypeOK
    NothingScopedCrosses
    ForwardingIsTheProxys
    OneRequestId
