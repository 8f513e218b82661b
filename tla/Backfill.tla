------------------------------- MODULE Backfill -------------------------------
(***************************************************************************)
(* run-backfill.ts: the script that gives every institution its education   *)
(* levels and grades and points the rows of old at them.  It keeps two maps *)
(* in memory, writes row by row, and may stop anywhere and be run again.    *)
(* indicator-backfill.ts resolves indicators the same way, and only reports; *)
(* repair-level-grades.ts gives the levels that exist the grades they miss.  *)
(* Nobody else writes meanwhile, and every level is ACTIVE; the order of a  *)
(* query without one is any.                                               *)
(***************************************************************************)
EXTENDS Integers, FiniteSets, Functions

CONSTANTS
    Institutions, Levels, Grades,
    Catalog,        \* LEVEL_CATALOG: the grades of each level
    Courses,
    Scoped,         \* rows with a level: roles, chat rooms, communication settings
    Indicators,
    Null

EducationLevel == Institutions \X Levels

\* What a grade is looked up by: as good as its id, names are unique in a level.
LevelGrade == Institutions \X Levels \X Grades

VARIABLES
    course,         \* the level grade a course is for, by its old columns
    scoped,         \* the level of each scoped row, by its old column
    indicator,      \* the courses with its subject and year, and its old grade
    educationLevels, levelGrades,   \* the rows that exist
    courseGrade,    \* Course.levelGradeId
    scopedLevel,    \* educationLevelId
    indicatorGrade, \* Indicator.levelGradeId
    migrated,       \* institutions whose settings have schemaVersion 2
    step, todo,     \* the loop the script is in, and what it has yet to go through
    eduLevelMap, lgMap, \* the levels and grades the script knows of
    lgBySlugAndGrade    \* the grade it takes for a level and a number

old    == <<course, scoped, indicator>>
tables == <<educationLevels, levelGrades, courseGrade, scopedLevel, indicatorGrade, migrated>>
memory == <<eduLevelMap, lgMap, lgBySlugAndGrade>>
vars   == <<old, tables, step, todo, memory>>

InstitutionOf(g) == g[1]
LevelOf(g) == <<g[1], g[2]>>
SlugAndGrade(g) == <<g[2], g[3]>>

\* What the grades of a new institution are.
Catalogued(levels) == {g \in LevelGrade : LevelOf(g) \in levels /\ SlugAndGrade(g) \in Catalog}

\* Some institutions may have been created with their levels and grades.
Init ==
    /\ course \in [Courses -> LevelGrade]
    /\ scoped \in [Scoped -> EducationLevel \cup {Null}]
    /\ \E i \in Institutions :
         indicator \in [Indicators -> [courses : SUBSET {c \in Courses : InstitutionOf(course[c]) = i},
                                       grade : Grades \cup {Null}]]
    /\ \E S \in SUBSET Institutions :
         /\ educationLevels = S \X Levels
         /\ levelGrades = Catalogued(S \X Levels)
         /\ migrated = S
    /\ courseGrade = [c \in Courses |-> Null]
    /\ scopedLevel = [r \in Scoped |-> Null]
    /\ indicatorGrade = [i \in Indicators |-> Null]
    /\ step = "off" /\ todo = {}
    /\ eduLevelMap = {} /\ lgMap = {} /\ lgBySlugAndGrade = <<>>

Loop(this, next, set) ==
    /\ step = this /\ todo = {}
    /\ step' = next /\ todo' = set

Each(this, x) ==
    /\ step = this /\ x \in todo
    /\ todo' = todo \ {x}
    /\ step' = step

-----------------------------------------------------------------------------
(* Steps 2 and 3: seeding *)

SeedEducationLevels ==
    /\ Loop("off", "educationLevels", EducationLevel)
    /\ UNCHANGED <<old, tables, memory>>

SeedEducationLevel(e) ==
    /\ Each("educationLevels", e)
    /\ educationLevels' = educationLevels \cup {e}
    /\ eduLevelMap' = eduLevelMap \cup {e}
    /\ UNCHANGED <<old, levelGrades, courseGrade, scopedLevel, indicatorGrade, migrated,
                   lgMap, lgBySlugAndGrade>>

SeedLevelGrades ==
    /\ Loop("educationLevels", "levelGrades", Courses)
    /\ UNCHANGED <<old, tables, memory>>

\* Mutant: only a grade that was just created gets into the map.
OnlyCreated(g) == {g} \ levelGrades

\* The grade the course needs, found or created.
Known(g) == {g}

SeedLevelGrade(c) ==
    /\ Each("levelGrades", c)
    /\ LET g == course[c] IN
         IF LevelOf(g) \in eduLevelMap
         THEN /\ levelGrades' = levelGrades \cup {g}
              /\ lgMap' = lgMap \cup Known(g)
         ELSE UNCHANGED <<levelGrades, lgMap>>
    /\ UNCHANGED <<old, educationLevels, courseGrade, scopedLevel, indicatorGrade, migrated,
                   eduLevelMap, lgBySlugAndGrade>>

-----------------------------------------------------------------------------
(* Step 4: the rows whose columns say all *)

BackfillCourses ==
    /\ Loop("levelGrades", "courses", Courses)
    /\ UNCHANGED <<old, tables, memory>>

BackfillCourse(c) ==
    /\ Each("courses", c)
    /\ courseGrade' =
         IF courseGrade[c] = Null /\ course[c] \in lgMap
         THEN [courseGrade EXCEPT ![c] = course[c]] ELSE courseGrade
    /\ UNCHANGED <<old, educationLevels, levelGrades, scopedLevel, indicatorGrade, migrated,
                   memory>>

\* backfillUserLevelRoles, backfillChatRooms and backfillILCS
BackfillScoped ==
    /\ Loop("courses", "scoped", Scoped)
    /\ UNCHANGED <<old, tables, memory>>

BackfillScopedRow(r) ==
    /\ Each("scoped", r)
    /\ scopedLevel' =
         IF scopedLevel[r] = Null /\ scoped[r] \in eduLevelMap
         THEN [scopedLevel EXCEPT ![r] = scoped[r]] ELSE scopedLevel
    /\ UNCHANGED <<old, educationLevels, levelGrades, courseGrade, indicatorGrade, migrated,
                   memory>>

-----------------------------------------------------------------------------
(* Step 5: indicators *)

\* The map has one grade per level and number, whichever institution's is last.
BackfillIndicators ==
    /\ Loop("scoped", "indicators", Indicators)
    /\ lgBySlugAndGrade' \in
         {f \in [{SlugAndGrade(g) : g \in levelGrades} -> levelGrades] :
            \A k \in DOMAIN f : SlugAndGrade(f[k]) = k}
    /\ UNCHANGED <<old, tables, eduLevelMap, lgMap>>

\* tryResolveIndicator: the keys of the first rule that has any in the map.
Candidates(i, known) ==
    LET in(keys) == keys \cap known
        taught == {SlugAndGrade(course[c]) : c \in indicator[i].courses}
        direct == in({k \in taught : k[2] = indicator[i].grade})
        sibling == in({<<k[1], indicator[i].grade>> : k \in taught})
    IN  IF direct # {} THEN direct ELSE IF in(taught) # {} THEN in(taught) ELSE sibling

\* Without a candidate the indicator is reported for manual review.
BackfillIndicator(i) ==
    /\ Each("indicators", i)
    /\ IF indicatorGrade[i] # Null \/ Candidates(i, DOMAIN lgBySlugAndGrade) = {}
       THEN UNCHANGED indicatorGrade
       ELSE \E k \in Candidates(i, DOMAIN lgBySlugAndGrade) :
              indicatorGrade' = [indicatorGrade EXCEPT ![i] = lgBySlugAndGrade[k]]
    /\ UNCHANGED <<old, educationLevels, levelGrades, courseGrade, scopedLevel, migrated, memory>>

-----------------------------------------------------------------------------
(* Step 7: settings *)

MigrateSettings ==
    /\ Loop("indicators", "settings", Institutions)
    /\ UNCHANGED <<old, tables, memory>>

MigrateSetting(i) ==
    /\ Each("settings", i)
    /\ migrated' = migrated \cup {i}
    /\ UNCHANGED <<old, educationLevels, levelGrades, courseGrade, scopedLevel, indicatorGrade,
                   memory>>

Done ==
    /\ Loop("settings", "done", {})
    /\ UNCHANGED <<old, tables, memory>>

-----------------------------------------------------------------------------
(* The other scripts *)

\* indicator-backfill.ts reports those it resolves none for, by the grades there are.
ManualReview == {i \in Indicators : Candidates(i, {SlugAndGrade(g) : g \in levelGrades}) = {}}

\* A level that does not exist is skipped.
Repair ==
    /\ Loop("off", "repair", Catalogued(educationLevels))
    /\ UNCHANGED <<old, tables, memory>>

RepairGrade(g) ==
    /\ Each("repair", g)
    /\ levelGrades' = levelGrades \cup {g}
    /\ UNCHANGED <<old, educationLevels, courseGrade, scopedLevel, indicatorGrade, migrated,
                   memory>>

RepairDone ==
    /\ Loop("repair", "repaired", {})
    /\ UNCHANGED <<old, tables, memory>>

\* buildAcademicValidationResult counts, and does not look at what it counts.
Status(i) ==
    LET missing == Cardinality(Levels) - Cardinality({e \in educationLevels : e[1] = i})
        missingGrades ==
            Cardinality(Catalog) - Cardinality({g \in levelGrades : InstitutionOf(g) = i})
    IN  IF missing = 0 /\ missingGrades = 0 THEN "HEALTHY"
        ELSE IF missing < 0 \/ missingGrades < 0 THEN "INVALID" ELSE "INCOMPLETE"

\* The script ends, by an error in a query or for another reason; the maps go.
Exit ==
    /\ step # "off"
    /\ step' = "off" /\ todo' = {}
    /\ eduLevelMap' = {} /\ lgMap' = {} /\ lgBySlugAndGrade' = <<>>
    /\ UNCHANGED <<old, tables>>

Next ==
    \/ SeedEducationLevels \/ \E e \in EducationLevel : SeedEducationLevel(e)
    \/ SeedLevelGrades     \/ \E c \in Courses : SeedLevelGrade(c)
    \/ BackfillCourses     \/ \E c \in Courses : BackfillCourse(c)
    \/ BackfillScoped      \/ \E r \in Scoped : BackfillScopedRow(r)
    \/ BackfillIndicators  \/ \E i \in Indicators : BackfillIndicator(i)
    \/ MigrateSettings     \/ \E i \in Institutions : MigrateSetting(i)
    \/ Repair \/ \E g \in LevelGrade : RepairGrade(g)
    \/ RepairDone \/ Done \/ Exit

Spec == Init /\ [][Next]_vars

-----------------------------------------------------------------------------
(* Properties *)

\* The columns hold rows that exist, and the maps of the script do too.
TypeOK ==
    /\ educationLevels \subseteq EducationLevel
    /\ levelGrades \subseteq LevelGrade
    /\ courseGrade \in [Courses -> levelGrades \cup {Null}]
    /\ scopedLevel \in [Scoped -> educationLevels \cup {Null}]
    /\ indicatorGrade \in [Indicators -> levelGrades \cup {Null}]
    /\ migrated \subseteq Institutions
    /\ step \in {"off", "educationLevels", "levelGrades", "courses", "scoped", "indicators",
                 "settings", "done", "repair", "repaired"}
    /\ eduLevelMap \subseteq educationLevels
    /\ lgMap \subseteq levelGrades

\* Wherever earlier runs stopped, a run that gets past a loop leaves nothing
\* behind: courses and scoped rows have the grade and the level of their own
\* institution, every indicator with a course has a grade, and what is left to
\* manual review is exactly what no course teaches.
BackfillCompletes ==
    /\ step \in {"scoped", "indicators", "settings", "done"} => courseGrade = course
    /\ step \in {"indicators", "settings", "done"} => scopedLevel = scoped
    /\ step \in {"settings", "done"} =>
         \A i \in Indicators : indicatorGrade[i] = Null <=> indicator[i].courses = {}
    /\ step = "done" => migrated = Institutions

\* The dry run does not promise what the backfill will not do: an indicator that no
\* course teaches is always reported, and once the grades are seeded no other is.
DryRunHonest ==
    LET untaught == {i \in Indicators : indicator[i].courses = {}}
    IN  /\ untaught \subseteq ManualReview
        /\ step \in {"courses", "scoped", "indicators", "settings", "done"} =>
             ManualReview = untaught

\* Wherever earlier runs stopped, what a repair calls healthy has the grades of the
\* catalog and no other; before one, a grade too many may hide one that is missing.
RepairTells ==
    step = "repaired" =>
      \A i \in Institutions :
        /\ Catalogued({e \in educationLevels : e[1] = i}) \subseteq levelGrades
        /\ Status(i) = "HEALTHY" <=>
             {g \in levelGrades : InstitutionOf(g) = i} = Catalogued({i} \X Levels)
=============================================================================
