SPECIFICATION FairSpec
CONSTANTS
    p1 = p1
    p2 = p2
    ghosts = ghosts
    i1 = i1
    i2 = i2
    i3 = i3
    i4 = i4
    Free = Free
    Procs <- MCProcs
    Jobs <- MCJobs
    Ids <- MCIds
    MaxFailures = 1
PROPERTY CrashedLeaderReplaced
