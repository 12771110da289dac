SPECIFICATION Spec
CONSTANTS
    c1 = c1
    c2 = c2
    b1 = b1
    b2 = b2
    h1 = h1
    h2 = h2
    m1 = m1
    m2 = m2
    id1 = id1
    id2 = id2
    id3 = id3
    g1 = g1
    g2 = g2
    Branch = Branch
    None = None
    Commits <- TwoCommits
    Hosts <- TwoHosts
    Builds = {b1, b2}
    BuildID <- IDs
    Machines = {m1, m2}
    MachineOf <- HostMachine
    BuildOf <- HostBuild
    Kind <- AllGomote
    MaxJobs <- OneAndTwo
    Instances = {g1, g2}
    Reps = 1
    MaxRuns = 2
    MaxFaults = 1
    ForceRun = FALSE
INVARIANTS
    ResultsAreRight
    RunEndsWell
PROPERTIES
    MachinesTakenWell
    HeadStillWhileCompiling
