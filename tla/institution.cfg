\* CHECK_DEADLOCK FALSE: removed users and sports never come back, and other parts
\* stop at their bounds.
CONSTANTS
    Null = Null
    Students = {s1}
    Groups = {k1}
    Days = {1}
    Ids <- MCIds
    Settings <- MCSettings
    Takers = {b1, b2}
    Coaches = {c1}
    Editors = {e1}
    i1 = i1
    i2 = i2
    b1 = b1
    b2 = b2
    c1 = c1
    e1 = e1
    Sports = {a1, a2}
    SportGroup = {g1, g2}
    UserIds = {u1}
    UserLevels = {l1}
    Plain = {absences}
    Report = {k1, k2}
    SettingValues = {1}
    inst1 = inst1
    inst2 = inst2
    Institutions = {inst1, inst2}
    Levels = {primaria}
    Catalog <- MCCatalog
    Grades = {1, 2}
    Courses = {d1, d2}
    Scoped = {r1}
    Indicators = {n1}
    Scores = {6, 8}
    Marks = {m1}
    LastPeriod = 2
    Aggregations <- MCAggregations
    MaxCount = 1
    Years = {y1, y2, y3}
    Emails = {m}
    Invitations = {v1, v2}
    IndicatorIds = {n1, n2}
    MaxOrder = 3
    LevelGrades = {h1, h2}
    StructureCourses = {d1}
    GradeOrders = {1, 2}
    Calls = {p1, p2}
    q1 = q1
    q2 = q2
    q3 = q3
    Graded = {q1, q2, q3}
    GradeScores = {97, 71, 42}
    PendingCounts <- MCPending
    Presence <- MCPresence
    None = None
    Asked = Asked
    r1 = r1
    r2 = r2
    SheetStudents = {r1, r2}
    SheetScores = {6, 8}
    SheetSlots = {x1, x2, x3}
    Twins <- MCTwins
    Cells = {f1, f2}
    Valuations = {LS, LP}
    GridPeriods = {t1, t2}
    x1 = x1
    x2 = x2
    x3 = x3
    f1 = f1
    f2 = f2
    t1 = t1
    t2 = t2
    LS = LS
    LP = LP
    Messages = {o1, o2, o3}
    MaxTime = 3
    Limit = 1
    FormRows = {w1, w2}
    FormValues = {1, 2}
    New = New
    Id = Id
    Filters = Filters
    MaxWrites = 1
SPECIFICATION MCSpec
CHECK_DEADLOCK FALSE
INVARIANTS
    Types
    LookedUpFirst
    WritesKept
    
    ShownIsTrue
    JudgedFairly
PROPERTIES
    OnlyAbsencesJustified
