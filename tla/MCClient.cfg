SPECIFICATION FairClientSpec
CONSTANTS
    r1 = r1
    r2 = r2
    Reqs = {r1, r2}
    HasTimeout = TRUE
CHECK_DEADLOCK FALSE
INVARIANTS ClientTypeOK OneStepAtATime CalledOnce RequestLifetime TimerEndsWithRequest AllReported
PROPERTIES RequestsEnd
