SPECIFICATION MCSpec
CONSTANTS
    s1 = s1 s2 = s2 u1 = u1 u2 = u2 u3 = u3 i1 = i1 i2 = i2
    Subjects = {"change", "request"}
    Sessions = {s1, s2}
    Stages = 2
    Voters <- TwoStageVoters
    Mode <- TwoStageModes
    Entries = {"plan", "link", "reassign", "chat", "delete", "transition"}
    Beside = {"plan", "link", "reassign", "delete"}
    MaxChains = 3
    Items = {i1, i2}
    FirstItem = i1
    NeedsApproval = {i1}
    Kinds = {"withdraw", "update", "decide", "add item", "add task"}
    MaxTasks = 2
    OverlapItems = {i1}
    Spared = {"Open", "Pending"}
SYMMETRY SessionSymmetry
INVARIANTS RunningInOrder ApprovedIsFullyApproved WaitsForOneChain FulfilmentIsAuthorized RequestFollowsItsItems
PROPERTY StartsApproved
CHECK_DEADLOCK FALSE
