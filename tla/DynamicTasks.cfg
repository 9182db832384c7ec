SPECIFICATION Spec
CONSTANTS
    p = p
    q = q
    tool = tool
    job = job
    Tasks = {p, q}
    s1 = s1
    s2 = s2
    Shapes = {s1, s2}
    DependsOn <- MCDependsOn
    Tools = {tool}
    Verifying = {tool}
    Externals = {job}
    Reported = {"completed"}
    Written = {"active"}
    MaxFacts = 1
    MaxAccepted = 4
    MaxSequence = 2
    MaxReviews = 2
    MaxNavigations = 1
SYMMETRY Symmetry
INVARIANTS RecoveryMatchesLive
PROPERTIES PatchOnJudgedPlan NoProgressReverted
CHECK_DEADLOCK FALSE
