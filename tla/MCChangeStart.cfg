SPECIFICATION MCSpec
CONSTANTS
    s1 = s1 s2 = s2 u1 = u1 u2 = u2 u3 = u3 i1 = i1 i2 = i2
    Subjects = {"change"}
    Sessions = {s1, s2}
    Stages = 1
    Voters <- OneVoter
    Mode <- OneMode
    Entries = {"link", "transition"}
    Beside = {"link", "transition"}
    MaxChains = 2
    Items = {i1}
    FirstItem = i1
    NeedsApproval = {}
    Kinds = {"update"}
    MaxTasks = 1
    OverlapItems = {i1}
    Spared = {"Open", "Pending"}
PROPERTY StartedIsApproved
CHECK_DEADLOCK FALSE
