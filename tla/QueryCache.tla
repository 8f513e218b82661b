----------------------------- MODULE QueryCache -----------------------------
(***************************************************************************)
(* The frontend's copy of the database: the answers that react-query keeps   *)
(* under a key.  A mutation that succeeds says by hand which keys it has made *)
(* old.  The hooks of lib/api, and of the pages that have some of their own,  *)
(* are listed with what their answer shows or what they write; a behaviour   *)
(* follows one answer and one mutation of the same user.                    *)
(*                                                                         *)
(* An answer shows the tables whose rows it lists, contains or counts, not    *)
(* those that it only takes a name from.  Of the ids there is one: what is    *)
(* written in another row does not make an answer for this one old.          *)
(***************************************************************************)
EXTENDS Integers, SequencesExt

CONSTANTS
    Id,             \* the row that a key is for
    Filters,        \* the filters that a key is for
    None, Asked,
    MaxWrites       \* bound: mutations of a behaviour

Query(key, shows) == [key |-> key, shows |-> shows]
Mutation(writes, invalidates) == [writes |-> writes, invalidates |-> invalidates]

-----------------------------------------------------------------------------
(* Answers *)

useAnnouncements == Query(<<"announcements">>, {"Announcement"})
useAttendance == Query(<<"attendance", Filters>>, {"Attendance"})
AttendanceDetailPage == Query(<<"attendance-detail", Id, Filters>>, {"Attendance"})
RecordsTab == Query(<<"absence-records", Filters>>, {"AbsenceRecord"})
useCourses == Query(<<"courses">>, {"Course", "CourseStudent", "CourseSubject"})
useCourseDetail == Query(<<"courses", Id>>, {"Course", "CourseStudent", "CourseSubject"})
useSchoolYears == Query(<<"school-years">>, {"SchoolYear"})
usePeriods == Query(<<"periods", Id>>, {"Period"})
useEducationLevels == Query(<<"education-levels">>, {"EducationLevel", "LevelGrade"})
useLevelGrades == Query(<<"level-grades">>, {"EducationLevel", "LevelGrade"})
useGrades == Query(<<"grades", Filters>>, {"Grade"})
useGuardianStudents == Query(<<"guardians", Id, "students">>, {"Guardian", "CourseStudent"})
useSearchStudents == Query(<<"students", "search", Filters>>, {"Student"})
useIndicators == Query(<<"indicators", Id, Filters>>, {"Indicator"})
EvaluationsGrid == Query(<<"evaluations-grid", Id, Filters>>, {"Indicator", "Evaluation"})
Observations == Query(<<"observations", Id, Filters>>, {"Observation"})
useInvitations == Query(<<"invitations", Id>>, {"Invitation"})
useAllInstitutions == Query(<<"institutions", "all">>, {"Plan"})
useInstitutionName == Query(<<"institution-name", Id>>, {"Institution"})
useInstitutionLogo == Query(<<"institution-logo", Id>>, {"Logo"})
useReportSettings == Query(<<"report-settings", Id>>, {"ReportSettings"})
useNotifications == Query(<<"notifications">>, {"Notification"})
useUnreadCount == Query(<<"notifications", "unread-count">>, {"Notification"})
useEligibleSubjects == Query(<<"pending", "eligible", Id, Filters>>, {"Eligible"})
PendingPage == Query(<<"pending-subjects", Id, Filters>>, {"PendingSubject"})
usePromotionResults == Query(<<"promotion-results", Filters>>, {"PromotionResult"})
usePromotionStatistics == Query(<<"promotion-statistics", Id>>, {"PromotionResult"})
useStudentPromotionHistory == Query(<<"promotion-history", Id>>, {"PromotionResult"})
useSpaces == Query(<<"spaces">>, {"Space"})
useSpaceReservations == Query(<<"space-reservations", Filters>>, {"SpaceReservation"})
useSports == Query(<<"sports">>, {"Sport", "SportGroup"})
useSportGroups == Query(<<"sport-groups", Filters>>, {"SportGroup", "SportGroupStudent"})
useSportGroup == Query(<<"sport-groups", Id>>, {"SportGroup", "SportGroupStudent"})
useStudentSubjects ==
    Query(<<"student-subjects", Id, Filters>>,
          {"StudentCourseSubject", "CourseStudent", "CourseSubject"})
useStudents == Query(<<"students">>, {"Student", "CourseStudent", "Guardian"})
useStudent ==
    Query(<<"students", Id>>,
          {"Student", "CourseStudent", "CourseSubject", "Guardian", "Grade"})
useSubjects == Query(<<"subjects">>, {"Subject", "CourseSubject"})
useUsers == Query(<<"users", Filters>>, {"User", "UserLevelRole"})
useUser == Query(<<"users", Id>>, {"User", "UserLevelRole"})
ProfilePage == Query(<<"profile", Id>>, {"User", "UserLevelRole", "Avatar"})
Avatar == Query(<<"avatar", Id>>, {"Avatar"})
Convivencias == Query(<<"convivencias", Filters>>, {"Convivencia"})
ConvivenciaStats == Query(<<"convivencias-stats", Filters>>, {"Convivencia"})
useSyllabuses == Query(<<"syllabus", Id, Filters>>, {"Syllabus"})
useChatRooms == Query(<<"chat", "rooms", Filters>>, {"Room", "Member"})
useChatRoom == Query(<<"chat", "rooms", Id>>, {"Room", "Member"})
useChatUnreadCount == Query(<<"chat", "rooms", "unread">>, {"Receipt"})
Participants == Query(<<"chat", "rooms", Id, "members">>, {"Member"})
useChatMessages == Query(<<"chat", "messages", Id>>, {"Message", "Receipt"})

\* Of what is changed in their tables, hardly anything refreshes these.
useMyInstitution ==
    Query(<<"institution", "mine">>,
          {"Institution", "ReportSettings", "Thresholds", "Logo", "User", "Student", "Course"})
DashboardPage == [useMyInstitution EXCEPT !.key = <<"institution", Id>>]
InstitutionStats ==
    Query(<<"institution-stats", Id>>,
          {"Student", "User", "Course", "Attendance", "Grade", "Publication"})
usePromotionPreview ==
    Query(<<"promotion-preview", Id>>,
          {"CourseStudent", "Grade", "Attendance", "PendingSubject"})

Summaries == {useMyInstitution, DashboardPage, InstitutionStats, usePromotionPreview}

Queries ==
    {useAnnouncements, useAttendance, AttendanceDetailPage, RecordsTab, useCourses,
     useCourseDetail, useSchoolYears, usePeriods, useEducationLevels, useLevelGrades, useGrades,
     useGuardianStudents, useSearchStudents, useIndicators, EvaluationsGrid, Observations,
     useInvitations, useAllInstitutions, useInstitutionName, useInstitutionLogo,
     useReportSettings, useNotifications, useUnreadCount, useEligibleSubjects, PendingPage,
     usePromotionResults, usePromotionStatistics, useStudentPromotionHistory, useSpaces,
     useSpaceReservations, useSports, useSportGroups, useSportGroup, useStudentSubjects,
     useStudents, useStudent, useSubjects, useUsers, useUser, ProfilePage, Avatar, Convivencias,
     ConvivenciaStats, useSyllabuses, useChatRooms, useChatRoom, useChatUnreadCount,
     Participants, useChatMessages}
    \cup Summaries

\* Those that are asked for again and again while they are shown.
Polled ==
    {useNotifications, useUnreadCount, InstitutionStats, useChatRooms, useChatRoom,
     useChatUnreadCount, useChatMessages}

-----------------------------------------------------------------------------
(* Mutations *)

useCreateAnnouncement == Mutation({"Announcement"}, {<<"announcements">>})
usePublishAnnouncement == Mutation({"Announcement", "Publication"}, {<<"announcements">>})
useDeleteAnnouncement == usePublishAnnouncement
useUpdateAnnouncement == usePublishAnnouncement
\* What a promotion was computed from marks its year as stale.
useBulkAttendance ==
    Mutation({"Attendance", "AbsenceRecord", "SchoolYear"}, {<<"attendance">>})
HistoryTab == Mutation({"Attendance", "SchoolYear"}, {<<"attendance">>})
ThresholdsConfig == Mutation({"Thresholds"}, {<<"absence-records">>})
useBulkSportAttendance == Mutation({"Attendance"}, {<<"sport-attendance">>})
useCreateSchoolYear == Mutation({"SchoolYear"}, {<<"school-years">>})
useCreatePeriod == Mutation({"Period"}, {<<"periods">>})
useCreateCourse == Mutation({"Course"}, {<<"courses">>})
useEnrollStudent == Mutation({"CourseStudent"}, {<<"students", Id>>, <<"students">>})
useAssignSubject == Mutation({"CourseSubject"}, {<<"courses", Id>>})
useRemoveSubject == useAssignSubject
useCreateEducationLevel == Mutation({"EducationLevel"}, {<<"education-levels">>})
useUpdateEducationLevel == useCreateEducationLevel
useDeleteEducationLevel == useCreateEducationLevel
useCreateLevelGrade == Mutation({"LevelGrade"}, {<<"education-levels">>})
useUpdateLevelGrade == useCreateLevelGrade
useDeleteLevelGrade == useCreateLevelGrade
useReorderLevelGrades == useCreateLevelGrade
useCreateGrade == Mutation({"Grade", "SchoolYear"}, {<<"grades">>})
useDeleteGrade == useCreateGrade
BulkGradesEntry == useCreateGrade
useLinkStudent == Mutation({"Guardian"}, {<<"guardians", Id, "students">>})
useUnlinkStudent == useLinkStudent
useCreateIndicator == Mutation({"Indicator"}, {<<"indicators">>})
useUpdateIndicator == useCreateIndicator
useDeleteIndicator == useCreateIndicator
SaveEvaluations == Mutation({"Evaluation"}, {<<"evaluations-grid">>})
SaveObservations == Mutation({"Observation"}, {<<"observations">>})
useUpdateInstitution ==
    Mutation({"Institution", "ReportSettings", "Thresholds"}, {<<"institution">>})
LogoUpload == Mutation({"Logo"}, {<<"institution-logo", Id>>, <<"institution", "mine">>})
useCreateInvitation == Mutation({"Invitation"}, {<<"invitations", Id>>})
useRevokeInvitation == useCreateInvitation
useUpdatePlan == Mutation({"Plan"}, {<<"institutions">>})
useCreateInstitution == Mutation({"Plan"}, {<<"institutions", "all">>})
useMarkAsRead == Mutation({"Notification"}, {<<"notifications">>})
useMarkAllAsRead == useMarkAsRead
useCreatePendingSubject ==
    Mutation({"PendingSubject", "Eligible", "SchoolYear"},
             {<<"pending-subjects">>, <<"pending", "eligible">>})
useUpdatePendingStatus ==
    Mutation({"PendingSubject", "SchoolYear"}, {<<"pending-subjects">>})
useUpdatePendingProgress == useUpdatePendingStatus
useDeletePendingSubject ==
    Mutation({"PendingSubject", "Eligible", "SchoolYear"}, {<<"pending-subjects">>})
useExecutePromotion ==
    Mutation({"PromotionResult", "SchoolYear", "CourseStudent"},
             {<<"school-years">>, <<"promotion-preview">>, <<"promotion-results">>,
              <<"promotion-statistics">>, <<"promotion-history">>})
useCreatePromotionOverride ==
    Mutation({"PromotionResult", "SchoolYear", "CourseStudent"},
             {<<"school-years">>, <<"promotion-results">>, <<"promotion-statistics">>,
              <<"promotion-history">>})
useSaveReportSettings == Mutation({"ReportSettings"}, {<<"report-settings">>})
useCreateSpace == Mutation({"Space"}, {<<"spaces">>})
useUpdateSpace == useCreateSpace
useToggleSpaceAvailability == useCreateSpace
useDeleteSpace == useCreateSpace
useCreateSpaceReservation == Mutation({"SpaceReservation"}, {<<"space-reservations">>})
useUpdateSpaceReservation == useCreateSpaceReservation
useUpdateReservationStatus == useCreateSpaceReservation
useCancelReservation == useCreateSpaceReservation
useCreateSport == Mutation({"Sport"}, {<<"sports">>})
useUpdateSport == useCreateSport
useDeleteSport == useCreateSport
useCreateSportGroup == Mutation({"SportGroup", "SportGroupStudent"}, {<<"sport-groups">>})
useUpdateSportGroup == useCreateSportGroup
useDeleteSportGroup == useCreateSportGroup
useAddStudentsToGroup == Mutation({"SportGroupStudent"}, {<<"sport-groups", Id>>})
useRemoveStudentFromGroup == useAddStudentsToGroup
useAssignStudentSubject == Mutation({"StudentCourseSubject"}, {<<"student-subjects", Id>>})
useRemoveSubjectAssignment == useAssignStudentSubject
useCreateStudent == Mutation({"Student"}, {<<"students">>})
useDeleteStudent == useCreateStudent
useCreateSubject == Mutation({"Subject"}, {<<"subjects">>})
useUpdateSubject == useCreateSubject
useDeleteSubject == useCreateSubject
useCreateUser == Mutation({"User", "UserLevelRole"}, {<<"users">>})
useAddLevelRole == useCreateUser
useRemoveLevelRole == useCreateUser
useGrantLeave == Mutation({"User"}, {<<"users">>})
useRevokeLeave == useGrantLeave
useToggleUserStatus == Mutation({"User"}, {<<"users", Id>>, <<"users">>})
useUpdateUser == useToggleUserStatus
AvatarCard == Mutation({"Avatar", "User"}, {<<"avatar", Id>>})
\* The page shows the new one itself and tells no other.
handleAvatarUpload == Mutation({"Avatar", "User"}, {})
CreateConvivencia ==
    Mutation({"Convivencia"}, {<<"convivencias">>, <<"convivencias-stats">>})
DeleteConvivencia == CreateConvivencia
UpdateConvivencia == Mutation({"Convivencia"}, {<<"convivencias">>})
SyllabusPage == Mutation({"Syllabus"}, {<<"syllabus", Id, Filters>>})
\* A unit is updated, and its editor has been closed before the answer.
UpdateUnit == Mutation({"Syllabus"}, {})
useCreateRoom == Mutation({"Room", "Member"}, {<<"chat", "rooms">>})
useMarkRead == Mutation({"Receipt"}, {<<"chat", "messages", Id>>, <<"chat", "rooms", "unread">>})
useSendMessage ==
    Mutation({"Message", "Room", "Receipt"}, {<<"chat", "messages", Id>>, <<"chat", "rooms">>})
AddParticipants == Mutation({"Member"}, {<<"chat", "rooms", Id>>})

Mutations ==
    {useCreateAnnouncement, usePublishAnnouncement, useDeleteAnnouncement,
     useUpdateAnnouncement, useBulkAttendance, HistoryTab, ThresholdsConfig,
     useBulkSportAttendance, useCreateSchoolYear, useCreatePeriod, useCreateCourse,
     useEnrollStudent, useAssignSubject, useRemoveSubject, useCreateEducationLevel,
     useUpdateEducationLevel, useDeleteEducationLevel, useCreateLevelGrade,
     useUpdateLevelGrade, useDeleteLevelGrade, useReorderLevelGrades, useCreateGrade,
     useDeleteGrade, BulkGradesEntry, useLinkStudent, useUnlinkStudent, useCreateIndicator,
     useUpdateIndicator, useDeleteIndicator, SaveEvaluations, SaveObservations,
     useUpdateInstitution, LogoUpload, useCreateInvitation, useRevokeInvitation, useUpdatePlan,
     useCreateInstitution, useMarkAsRead, useMarkAllAsRead, useCreatePendingSubject,
     useUpdatePendingStatus, useUpdatePendingProgress, useDeletePendingSubject,
     useExecutePromotion, useCreatePromotionOverride, useSaveReportSettings, useCreateSpace,
     useUpdateSpace, useToggleSpaceAvailability, useDeleteSpace, useCreateSpaceReservation,
     useUpdateSpaceReservation, useUpdateReservationStatus, useCancelReservation,
     useCreateSport, useUpdateSport, useDeleteSport, useCreateSportGroup, useUpdateSportGroup,
     useDeleteSportGroup, useAddStudentsToGroup, useRemoveStudentFromGroup,
     useAssignStudentSubject, useRemoveSubjectAssignment, useCreateStudent, useDeleteStudent,
     useCreateSubject, useUpdateSubject, useDeleteSubject, useCreateUser, useAddLevelRole,
     useRemoveLevelRole, useGrantLeave, useRevokeLeave, useToggleUserStatus, useUpdateUser,
     AvatarCard, handleAvatarUpload, CreateConvivencia, DeleteConvivencia, UpdateConvivencia,
     SyllabusPage, UpdateUnit, useCreateRoom, useMarkRead, useSendMessage, AddParticipants}

\* Known not to refresh what they make old.
Enrolling == {useEnrollStudent, useExecutePromotion, useCreatePromotionOverride}
Marking ==
    {useBulkAttendance, HistoryTab, useCreateGrade, useCreatePendingSubject,
     useUpdatePendingStatus, useDeletePendingSubject}
Taught == {useCourses, useSubjects, useStudent, useStudentSubjects}
UserChanges == {useCreateUser, useGrantLeave, useUpdateUser, AvatarCard, handleAvatarUpload}

Missed ==
    UNION {(Mutations \ {useUpdateInstitution, LogoUpload, useExecutePromotion}) \X Summaries,
           {LogoUpload} \X {DashboardPage},
           Enrolling \X {useCourses, useCourseDetail, useGuardianStudents, useStudentSubjects},
           (Enrolling \ {useEnrollStudent}) \X {useStudents, useStudent},
           Marking \X {useSchoolYears},
           {useCreateGrade} \X {useStudent},
           {useBulkAttendance, HistoryTab, useBulkSportAttendance} \X {AttendanceDetailPage},
           {useBulkAttendance} \X {RecordsTab},
           {useBulkSportAttendance} \X {useAttendance},
           {useAssignSubject} \X Taught,
           {useCreateEducationLevel, useCreateLevelGrade} \X {useLevelGrades},
           {useLinkStudent} \X {useStudents, useStudent},
           {useCreateIndicator} \X {EvaluationsGrid},
           {useUpdateInstitution} \X {useInstitutionName, useReportSettings},
           {useCreateSportGroup} \X {useSports},
           {useAddStudentsToGroup} \X {useSportGroups},
           {useDeletePendingSubject} \X {useEligibleSubjects},
           UserChanges \X {ProfilePage},
           {AvatarCard, handleAvatarUpload} \X {useUsers, useUser},
           {handleAvatarUpload} \X {Avatar},
           {UpdateConvivencia} \X {ConvivenciaStats},
           {AddParticipants} \X {useChatRooms},
           {UpdateUnit} \X {useSyllabuses}}

-----------------------------------------------------------------------------
(* The state *)

VARIABLES
    query, mutation,    \* that a behaviour follows
    writes,             \* in the database: how many of its mutations are stored
    cached,             \* how many of them the answer shows, if there is one
    fresh,              \* it is neither old enough nor invalidated
    mounted,            \* a page shows it
    fetch,              \* the request for it: not read yet, or what it has read
    call,               \* the mutation under way
    \* history:
    acknowledged,       \* the writes that the user has been told of
    failed,             \* the last fetch failed
    overtaken           \* a mutation succeeded while an older answer was on its way

vars == <<query, mutation, writes, cached, fresh, mounted, fetch, call,
          acknowledged, failed, overtaken>>

Init ==
    /\ query \in Queries /\ mutation \in Mutations
    /\ query.shows \cap mutation.writes # {}
    /\ writes = 0 /\ cached = None /\ fresh = FALSE /\ mounted = FALSE
    /\ fetch = None /\ call = None
    /\ acknowledged = 0 /\ failed = FALSE /\ overtaken = FALSE

\* Mutant: a key stands for itself only.
Exactly(k) == k = query.key

\* A key stands for all that it is the beginning of.
Matches(k) == IsPrefix(k, query.key)

Invalidated == \E k \in mutation.invalidates : Matches(k)

-----------------------------------------------------------------------------
(* The page *)

Mount ==
    /\ ~mounted /\ mounted' = TRUE
    /\ fetch' = IF fetch = None /\ ~fresh THEN Asked ELSE fetch
    /\ UNCHANGED <<query, mutation, writes, cached, fresh, call, acknowledged, failed, overtaken>>

\* A request is not given up.
Unmount ==
    /\ mounted /\ mounted' = FALSE
    /\ UNCHANGED <<query, mutation, writes, cached, fresh, fetch, call,
                   acknowledged, failed, overtaken>>

\* staleTime
Expire ==
    /\ fresh /\ fresh' = FALSE
    /\ UNCHANGED <<query, mutation, writes, cached, mounted, fetch, call,
                   acknowledged, failed, overtaken>>

\* refetchInterval; and what is old, once the browser is connected again.
Poll ==
    /\ mounted /\ fetch = None /\ fetch' = Asked
    /\ query \in Polled \/ ~fresh
    /\ UNCHANGED <<query, mutation, writes, cached, fresh, mounted, call,
                   acknowledged, failed, overtaken>>

Read ==
    /\ fetch = Asked /\ fetch' = writes
    /\ UNCHANGED <<query, mutation, writes, cached, fresh, mounted, call,
                   acknowledged, failed, overtaken>>

Receive ==
    /\ fetch \in Nat
    /\ cached' = fetch /\ fresh' = TRUE /\ fetch' = None
    /\ failed' = FALSE
    /\ overtaken' = (fetch < acknowledged)
    /\ UNCHANGED <<query, mutation, writes, mounted, call, acknowledged>>

FetchFails ==
    /\ fetch # None /\ fetch' = None
    /\ failed' = TRUE
    /\ UNCHANGED <<query, mutation, writes, cached, fresh, mounted, call,
                   acknowledged, overtaken>>

-----------------------------------------------------------------------------
(* The mutation *)

Mutate ==
    /\ call = None /\ writes < MaxWrites
    /\ call' = "sent"
    /\ UNCHANGED <<query, mutation, writes, cached, fresh, mounted, fetch,
                   acknowledged, failed, overtaken>>

Write ==
    /\ call = "sent" /\ call' = "written"
    /\ writes' = writes + 1
    /\ UNCHANGED <<query, mutation, cached, fresh, mounted, fetch,
                   acknowledged, failed, overtaken>>

\* What is shown is fetched again, instead of a request that is under way, but for
\* the first one; what is not shown, when it is.
Succeed ==
    /\ call = "written" /\ call' = None
    /\ acknowledged' = writes
    /\ fresh' = (fresh /\ ~Invalidated)
    /\ fetch' = IF Invalidated /\ mounted /\ cached # None THEN Asked ELSE fetch
    /\ overtaken' = (overtaken \/ fetch' \in Nat)
    /\ UNCHANGED <<query, mutation, writes, cached, mounted, failed>>

\* onError invalidates nothing, whether or not it was stored.
Fail ==
    /\ call # None /\ call' = None
    /\ UNCHANGED <<query, mutation, writes, cached, fresh, mounted, fetch,
                   acknowledged, failed, overtaken>>

Next ==
    \/ Mount \/ Unmount \/ Expire \/ Poll \/ Read \/ Receive \/ FetchFails
    \/ Mutate \/ Write \/ Succeed \/ Fail

Spec == Init /\ [][Next]_vars

-----------------------------------------------------------------------------
(* Properties *)

\* Counters and requests have their types, and what is known to be missed is.
TypeOK ==
    /\ query \in Queries /\ mutation \in Mutations
    /\ writes \in 0..MaxWrites /\ acknowledged \in 0..writes
    /\ cached \in Nat \cup {None} /\ fetch \in Nat \cup {None, Asked}
    /\ call \in {None, "sent", "written"}
    /\ {fresh, mounted, failed, overtaken} \subseteq BOOLEAN
    /\ <<mutation, query>> \in Missed => ~Invalidated

Old == cached # None /\ cached < acknowledged

\* An answer that lacks what its user was told is saved is not taken for fresh, and
\* a page does not go on showing it: it is being fetched again, or that failed.  Not
\* so if the mutation is known to miss it, or succeeded while an answer that was
\* read before was on its way to a page left meanwhile, or was the first.
OwnWritesShown ==
    \/ <<mutation, query>> \in Missed \/ overtaken
    \/ Old => ~fresh /\ (mounted => fetch # None \/ failed)
=============================================================================
