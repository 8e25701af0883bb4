SPECIFICATION FairRunnerSpec
CONSTANTS
    Pid = {p1, p2, p3}
    NoPid = NoPid
    MaxCalls = 2
    MaxMembers = 2
INVARIANTS
    RunnerInv
    TimeoutClears
    NothingUnreaped
PROPERTIES
    CallReturns
    ScriptCalls
