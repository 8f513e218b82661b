CONSTANTS
    s1 = s1
    s2 = s2
    g1 = g1
    g2 = g2
    m1 = m1
    e1 = e1
    e2 = e2
    Null = Null
    Students <- MCStudents
    Years = {1, 2}
    ClosedYears = {1}
    Grades <- MCGrades
    GraduatingGrades <- MCGraduating
    NextGrade <- MCNextGrade
    Subjects = {m1}
    Offers <- MCOffers
    CourseNos = {1, 2}
    InitCourses <- OfferedCourses
    InitCourseStudents <- OneStudent
    InitAssignments <- MCAssignments
    EnrollRequests <- ManualEnrolments
    DtoYears = {1}
    Executors = {e1}
    Previewers = {p1}
    Overriders = {o1}
    Reporters = {}
    HeartbeatEvery = 2
    MaxResults = 2
    Faults = {"crash","remove","orphan"}
SPECIFICATION Spec
INVARIANTS
    EnrolmentsJustified
    DestinationsAgree
    AssignmentsFollowEnrolment
PROPERTIES
    LifecycleKept
CHECK_DEADLOCK FALSE
