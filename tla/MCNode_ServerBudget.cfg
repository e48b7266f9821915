CONSTANTS
    MaxTasks <- MCMaxTasks
    TickWrap <- MCTickWrap
    ServerPeriod <- MCServerPeriod
    ServerCapacity <- MCServerCapacity
    GenPeriod <- MCGenPeriod
    GenCapacity <- MCGenCapacity
    ApCapacity <- MCApCapacity
    DelayTicks <- MCDelayTicks
SPECIFICATION Spec
INVARIANT ServerBudget
