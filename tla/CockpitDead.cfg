SPECIFICATION CockpitSpec
CONSTANTS
    Projects = {p1, p2}
    NoProject = noproject
    MaxLinks = 2
    MaxEnsures = 2
INVARIANT
    PooledIsUp
CHECK_DEADLOCK FALSE
