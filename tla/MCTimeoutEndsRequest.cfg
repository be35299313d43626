SPECIFICATION FairClientSpec
CONSTANTS
    r1 = r1
    Reqs = {r1}
    HasTimeout = TRUE
CHECK_DEADLOCK FALSE
PROPERTIES TimeoutEndsRequest
