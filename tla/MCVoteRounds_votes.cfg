CONSTANTS
    c1 = c1
    c2 = c2
    n1 = n1
    n2 = n2
    n3 = n3
    None = None
    Clients = {c1, c2}
    Nodes = {n1, n2, n3}
    Voters = {n1, n2, n3}
    CommitteeSize = 2
    Threshold = 2
    MaxAttempts = 2
    MaxFaults = 1
    MaxCloses = 1
    Rank <- MCRank
    Deployments <- MCDeployments
SPECIFICATION Spec
INVARIANTS TypeOK BallotsIndependent GrantRecorded
PROPERTIES ImplementsQuorum DecidedByCommittee
CHECK_DEADLOCK FALSE
