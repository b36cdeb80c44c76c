\* Two requests at a time, and the operations that meet.
SPECIFICATION Spec
CONSTANTS
    ada = ada
    ben = ben
    cleo = cleo
    s1 = s1
    s2 = s2
    Contestants = {ada, ben, cleo}
    Stages = {s1, s2}
    Reqs = {r1, r2}
    None = None
    Created <- CleoComesLater
    Engagement <- BenIsKnown
    InitialStage <- FirstIsActive
    Percentage <- HalfThenAll
    SeedStages <- FirstOnly
    MaxVotes = 2
    MaxEditions = 3
    Choices = {"ACTIVE", "COMPLETED", "IN", "ELIMINATED"}
    Workloads <- SmallWorkloads
INVARIANTS TypeOK RemovedAreHidden CounterBacked PodiumOK
PROPERTIES OneActive VotesForStanding FairElimination PodiumIsCurrent
SYMMETRY Interchangeable
