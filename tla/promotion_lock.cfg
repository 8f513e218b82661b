\* The backend may stop with a year left EXECUTING and nobody able to act on it:
\* a state without a successor.
CONSTANTS
    s1 = s1
    s2 = s2
    g1 = g1
    g2 = g2
    m1 = m1
    e1 = e1
    e2 = e2
    Null = Null
    Students <- MCStudents
    Years = {1, 2}
    ClosedYears = {1}
    Grades <- MCGrades
    GraduatingGrades <- MCGraduating
    NextGrade <- MCNextGrade
    Subjects = {m1}
    Offers <- NoRows
    CourseNos = {1, 2}
    InitCourses <- MCCourses
    InitCourseStudents <- MCCourseStudents
    InitAssignments <- NoRows
    EnrollRequests <- NoRows
    DtoYears <- NoYears
    Executors = {e1, e2}
    Previewers = {p1}
    Overriders = {}
    Reporters = {}
    HeartbeatEvery = 2
    MaxResults = 3
    Faults = {"crash", "queue", "db"}
SPECIFICATION FairSpec
INVARIANTS
    TypeOK
    NoConcurrentExecution
    OneEngineResult
    SummaryNeverOvercounts
PROPERTIES
    ExecuteTerminates
CHECK_DEADLOCK FALSE
