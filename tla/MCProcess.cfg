CONSTANTS
    Null = Null
    Processes = {m1, m2}
    Requests = {r1, r2}
    MaxConns = 1
    Environments <- MCEnvironments
    Deployed <- MCDeployed
SPECIFICATION ProcessSpec
INVARIANTS
    ProcessTypeOK
    CleanExit
    MigratedBeforeServing
    AllProblemsReported
PROPERTIES
    StartUpEnds
    StopsWhenTold
