SPECIFICATION MCSpec
CONSTANTS
    i1 = i1 i2 = i2
    Incidents = {i1, i2}
    HoldReasons = {"caller", "vendor"}
    AncestorLimit = 2
    Detailed = {i1}
    MaxTasks = 1
    MaxRaces = 1
    Values = {1, 2}
    Blank = 0
    Hardware = {"vendor"}
    Asset = {"vendor", "install_date"}
    Purchase = {"install_date"}
    Reported = {"status"}
    Discovered = {"vendor"}
    Orders <- MCOrders
    w1 = w1 w2 = w2 s1 = s1 s2 = s2 m1 = m1 m2 = m2
    Items = {w1, w2}
    Sprints = {s1, s2}
    Statuses = {"todo", "finished"}
    Done = {"finished"}
    Default = "todo"
    Memberships = {m1, m2}
    MaxEvents = 3
    MaxEdits = 1
SYMMETRY Symmetry
INVARIANTS NoParentLoop FinishedIsComplete PrecedenceKept SprintReportIsTrue
CHECK_DEADLOCK FALSE
