SPECIFICATION FairSupervisorSpec
CONSTANTS
    Procs = {p1, p2}
    Agent = agent
    Ctrl = ctrl
    MaxRetry = 2
    MaxChanges = 3
    MaxDeaths = 2
INVARIANTS
    SupervisorInv
PROPERTY
    Converges
