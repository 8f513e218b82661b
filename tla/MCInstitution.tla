---------------------------- MODULE MCInstitution ----------------------------
(* The smaller parts of an institution for TLC, and Attendance, which is not so *)
(* small.  They share no state: part says which of them a behaviour is about,   *)
(* and the others keep an initial state.                                       *)
EXTENDS MCRecords, MCScreens

CONSTANTS
    i1, i2, b1, b2, c1, e1,                          \* Attendance
    inst1, inst2,                                    \* Backfill
    q1, q2, q3,                                      \* PromotionRules
    Sports, SportGroup,                              \* SportGroups
    UserIds, UserLevels,                             \* Users
    Plain, Report, SettingValues,                    \* Settings
    Years,                                           \* SchoolYears
    Emails, Invitations,                             \* Invitations
    IndicatorIds, MaxOrder,                          \* Indicators
    LevelGrades, StructureCourses, GradeOrders,      \* AcademicStructure
    Calls                                            \* calls of all but Attendance

VARIABLES
    team,           \* the calls of a behaviour of Attendance
    deletedSports, group, sportCall, unchecked, inTwoCalls, late,
    role, status, deletedUsers, levelRoles, userCall, drifted, overtaken,
    settings, settingsCall, sent, since, lost, dropped,
    years, active, activation, newborn,
    invitation, invitees, inviteCall, invited, invitedTwice,
    indicatorRow, indicatorCall, disturbed,
    displayOrder, courseRow, structureCall, disordered, outdated

MCIds == {i1, i2}
MCSettings == {{1, 2}, {2}}
MCCatalog == Levels \X {1}
MCAggregations == {{{1, 2}}}
MCPending == {[completed |-> 0, notCompleted |-> 2], [completed |-> 2, notCompleted |-> 3]}
MCPresence == {[attended |-> 0, missed |-> 0], [attended |-> 4, missed |-> 1],
               [attended |-> 4, missed |-> 2]}

SG == INSTANCE SportGroups WITH
        Groups <- SportGroup, Requests <- Calls, deleted <- deletedSports,
        request <- sportCall, overlapped <- inTwoCalls
U == INSTANCE Users WITH
        Users <- UserIds, Levels <- UserLevels, Requests <- Calls,
        deleted <- deletedUsers, request <- userCall
S == INSTANCE Settings WITH
        Values <- SettingValues, Requests <- Calls, request <- settingsCall
Y == INSTANCE SchoolYears WITH Requests <- Calls, request <- activation
N == INSTANCE Invitations WITH
        Requests <- Calls, users <- invitees, request <- inviteCall, raced <- invitedTwice
L == INSTANCE Indicators WITH
        Ids <- IndicatorIds, Requests <- Calls, indicator <- indicatorRow,
        request <- indicatorCall
A == INSTANCE AcademicStructure WITH
        Grades <- LevelGrades, Courses <- StructureCourses, Orders <- GradeOrders,
        Requests <- Calls, course <- courseRow, request <- structureCall

\* For the proofs: the teams make requests, a list has room for its indicators, and
\* Null is no call and no row.
ASSUME InstitutionAssumption ==
    /\ {b1, b2, c1, e1} \subseteq Requests
    /\ MCSettings \subseteq Settings
    /\ Plain # {}
    /\ MaxOrder \in Nat /\ IsFiniteSet(IndicatorIds) /\ Cardinality(IndicatorIds) <= MaxOrder
    /\ Null \notin Calls \cup GradeOrders \cup SettingValues
    /\ Null \notin N!Invitation \cup [op : {"read"}, user : UserIds]
         \cup [op : {"write"}, user : UserIds, role : U!Roles]
         \cup [op : {"swap"}, to : UNION {[gs -> GradeOrders] : gs \in SUBSET LevelGrades}]
         \cup [grade : Grades, order : 1 .. MaxOrder]
         \cup [op : {"create"}, grade : Grades, order : 1 .. MaxOrder, alone : BOOLEAN]
         \cup [op : {"reorder"}, grade : Grades, alone : BOOLEAN,
               places : UNION {[is -> 1 .. MaxOrder] : is \in SUBSET IndicatorIds}]

sgVars == <<deletedSports, group, sportCall, unchecked, inTwoCalls, late>>
uVars == <<role, status, deletedUsers, levelRoles, userCall, drifted, overtaken>>
sVars == <<settings, settingsCall, sent, since, lost, dropped>>
yVars == <<years, active, activation, newborn>>
nVars == <<invitation, invitees, inviteCall, invited, invitedTwice>>
lVars == <<indicatorRow, indicatorCall, disturbed>>
aVars == <<displayOrder, courseRow, structureCall, disordered, outdated>>

smallVars == <<valuations, yVars, nVars, lVars, aVars, pVars, screenVars>>

allVars == <<part, team, vars, sgVars, uVars, sVars, bVars, rVars, smallVars>>

Parts ==
    {"attendance", "sportGroups", "users", "settings", "backfill", "reports", "trayectoria",
     "schoolYears", "invitations", "indicators", "structure", "rules"} \cup Screens

\* The thresholds change beside an editor only, of which there are fewest states.
Teams ==
    \/ team = {b1, b2} /\ thresholds = {2}
    \/ team \in {{b1, c1}, {b1, e1}} /\ thresholds \in MCSettings

\* Either institution is as good: one of the courses is of the first, and in a grade
\* of the catalog, and a scoped row of the second.
FirstCourse ==
    /\ course \in [Courses -> B!LevelGrade]
    /\ course[CHOOSE c \in Courses : TRUE] \in B!Catalogued({inst1} \X Levels)
    /\ scoped \in [Scoped -> {Null} \cup {inst2} \X Levels]

\* The initial state of a part that a behaviour is not about.
Idling ==
    /\ part # "attendance" => team = {} /\ thresholds = {2}
    /\ part # "users" => role = [u \in UserIds |-> "TEACHER"]
    /\ part # "backfill" =>
         /\ course = [c \in Courses |-> CHOOSE g \in B!LevelGrade : g[1] = inst1]
         /\ scoped = [r \in Scoped |-> Null]
         /\ indicator = [i \in Indicators |-> [courses |-> {}, grade |-> Null]]
         /\ educationLevels = {}
    /\ part # "reports" => reportPeriodAggregation = Null
    /\ part # "rules" =>
         /\ scores = [i \in Graded |-> Null]
         /\ pending = [completed |-> 0, notCompleted |-> 2]
         /\ presence = [attended |-> 0, missed |-> 0]
    /\ part # "trayectoria" => valuations = [v \in T!Values |-> 0]

\* Of the grades of a student, one is each score.
Distinct(g) ==
    g[q1] \in {97, Null} /\ g[q2] \in {71, Null} /\ g[q3] \in {42, Null}

MCInit ==
    /\ part \in Parts
    /\ ScreensInit
    /\ Idling
    /\ part = "attendance" => Teams
    /\ part = "backfill" => FirstCourse
    /\ Init /\ SG!Init /\ U!Init /\ S!Init /\ B!Init /\ R!Init /\ T!Init
    /\ Y!Init /\ N!Init /\ L!Init /\ A!Init
    /\ P!Init /\ Distinct(scores)

AttendanceStep ==
    /\ part = "attendance"
    /\ \/ \E p \in team : Act(p)
       \/ team = {b1, e1} /\ \E value \in MCSettings : UpdateThresholds(value)
    /\ UNCHANGED <<part, team, sgVars, uVars, sVars, bVars, rVars, smallVars>>

SportGroupsStep ==
    /\ part = "sportGroups" /\ SG!Next
    /\ UNCHANGED <<part, team, vars, uVars, sVars, bVars, rVars, smallVars>>

\* Bound: three roles at a level, out of the six.
UsersStep ==
    /\ part = "users" /\ U!Next
    /\ \A u \in UserIds : Cardinality(levelRoles'[u]) <= 3
    /\ UNCHANGED <<part, team, vars, sgVars, sVars, bVars, rVars, smallVars>>

\* A dto has one key, or none: then it is one of update, with another name.
SettingsStep ==
    /\ part = "settings" /\ S!Next
    /\ \A p \in Calls :
         settingsCall'[p] # Null =>
           LET r == settingsCall'[p]
               keys == Cardinality(DOMAIN r.dto)
           IN  keys = 1 \/ (keys = 0 /\ r.op = "update")
    /\ UNCHANGED <<part, team, vars, sgVars, uVars, bVars, rVars, smallVars>>

BackfillStep ==
    /\ part = "backfill" /\ B!Next
    /\ UNCHANGED <<part, team, vars, sgVars, uVars, sVars, rVars, smallVars>>

\* The last period changes only between reports, and among fewer scores.
ReportsStep ==
    /\ part = "reports" /\ R!Next
    /\ read # Null =>
         /\ grades'[LastPeriod] = grades[LastPeriod]
         /\ closingGrade'[LastPeriod] = closingGrade[LastPeriod]
    /\ closingGrade'[LastPeriod] # Null => closingGrade'[LastPeriod].closingScore = 8
    /\ grades'[LastPeriod] \in [Marks -> {6, Null}]
    /\ UNCHANGED <<part, team, vars, sgVars, uVars, sVars, bVars, smallVars>>

TrayectoriaStep ==
    /\ part = "trayectoria" /\ T!Next
    /\ UNCHANGED <<yVars, nVars, lVars, aVars, pVars>>

SchoolYearsStep ==
    /\ part = "schoolYears" /\ Y!Next
    /\ UNCHANGED <<valuations, nVars, lVars, aVars, pVars>>

InvitationsStep ==
    /\ part = "invitations" /\ N!Next
    /\ UNCHANGED <<valuations, yVars, lVars, aVars, pVars>>

IndicatorsStep ==
    /\ part = "indicators" /\ L!Next
    /\ UNCHANGED <<valuations, yVars, nVars, aVars, pVars>>

StructureStep ==
    /\ part = "structure" /\ A!Next
    /\ UNCHANGED <<valuations, yVars, nVars, lVars, pVars>>

RulesStep ==
    /\ part = "rules" /\ P!Next
    /\ Distinct(scores')
    /\ UNCHANGED <<valuations, yVars, nVars, lVars, aVars>>

SmallStep ==
    /\ \/ TrayectoriaStep \/ SchoolYearsStep \/ InvitationsStep \/ IndicatorsStep
       \/ StructureStep \/ RulesStep
    /\ UNCHANGED <<part, team, vars, sgVars, uVars, sVars, bVars, rVars, screenVars>>

ScreensStep ==
    /\ ScreenStep
    /\ UNCHANGED <<team, vars, sgVars, uVars, sVars, bVars, rVars,
                   valuations, yVars, nVars, lVars, aVars, pVars>>

MCNext ==
    \/ AttendanceStep \/ SportGroupsStep \/ UsersStep \/ SettingsStep
    \/ BackfillStep \/ ReportsStep \/ SmallStep \/ ScreensStep

MCSpec == MCInit /\ [][MCNext]_allVars

-----------------------------------------------------------------------------
\* Every table, call and history of each part has its type.
Types ==
    /\ part = "attendance" => TypeOK
    /\ part = "sportGroups" => SG!TypeOK
    /\ part = "users" => U!TypeOK
    /\ part = "settings" => S!TypeOK
    /\ part = "backfill" => B!TypeOK
    /\ part = "reports" => R!TypeOK
    /\ part = "trayectoria" => T!TypeOK
    /\ part = "schoolYears" => Y!TypeOK
    /\ part = "invitations" => N!TypeOK
    /\ part = "indicators" => L!TypeOK
    /\ part = "structure" => A!TypeOK
    /\ part = "rules" => P!TypeOK
    /\ ScreensTypes

\* What a call looks for before it creates there is only once, and what it
\* requires before it removes is so, unless two calls raced: attendance rows,
\* absence records, places in the groups of a sport, sports with no group,
\* invitations and the users who accept them, places in a list of indicators.  What
\* is typed in a form for something new creates it once.
LookedUpFirst ==
    /\ part = "attendance" => OneRowPerDay /\ OneRecordPerThreshold
    /\ part = "sportGroups" => SG!OneGroupPerSport /\ SG!RemovedSportWasEmpty
    /\ part = "invitations" => N!OnePending /\ N!AcceptedOnce
    /\ part = "indicators" => L!PlacesDistinct
    /\ part = "forms" => F!CreatedOnce

\* What a call or a screen writes by something it has read survives the others'
\* writes, unless two calls raced: settings, roles and removals, the active school
\* year, the numbers of grades and their copies in the courses, evaluations that a
\* teacher has not touched, grades in the slot they were typed for, the field of the
\* row that a form was open for.
WritesKept ==
    /\ part = "users" => U!RoleFollows /\ U!RemovedIsInactive
    /\ part = "settings" => S!SettingsKept
    /\ part = "schoolYears" => Y!OneActiveYear
    /\ part = "structure" => A!NumbersDistinct /\ A!CourseHasNumber
    /\ part = "evaluationGrid" => G!OthersKept
    /\ part = "bulkEntry" => E!StoredWhereTyped
    /\ part = "forms" => F!FormsKeepWrites

\* What runs after something else does all of it: a student has the absence
\* records that its absences earn, and no other; a backfill that gets past
\* a loop, however often it was stopped, leaves none of its rows behind, and so does
\* a repair; a sheet
\* that has come to rest has saved every row, unless a save failed.
NothingLeftBehind ==
    /\ part = "attendance" => RecordsDeserved /\ AbsencesRecorded
    /\ part = "backfill" => B!BackfillCompletes /\ B!DryRunHonest /\ B!RepairTells
    /\ part = "bulkEntry" => E!NothingForgotten

\* What is shown was true: a report shows columns of one moment, a row marked as
\* saved the grade that is stored, a grid with no changes what is stored, and a
\* room its messages without a gap, each once, a form what its row holds or what was
\* typed in it for this row, and a page what its user was told is saved (each but for
\* what the property of the part names).
ShownIsTrue ==
    /\ part = "reports" => R!ReportOfAMoment
    /\ part = "bulkEntry" => E!SavedIsStored
    /\ part = "evaluationGrid" => G!ScreenIsStored
    /\ part = "chatHistory" => H!NoGap /\ H!ShownOnce
    /\ part = "forms" => F!FormShowsRow /\ F!FormIsOfTarget /\ F!DraftStays
    /\ part = "queryCache" => Q!OwnWritesShown

\* A student is judged by its records: the judgement of a report does not punish a
\* better evaluation, and the verdict of a promotion lies between what the records
\* were worth when it began to read them and what they are worth now.
JudgedFairly ==
    /\ part = "trayectoria" => T!BetterIsNotWorse
    /\ part = "rules" => P!VerdictBetween
=============================================================================
