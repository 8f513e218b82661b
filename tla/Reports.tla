------------------------------- MODULE Reports -------------------------------
(***************************************************************************)
(* The grades of one subject on a student's RITE report.  buildRiteData      *)
(* reads the grades, the settings and the closing grades one after the other *)
(* while others write; aggregatePeriods makes the columns.  Layout, PDFs and *)
(* ZIPs are left out; so are attendance and remarks, which are only listed.  *)
(*                                                                         *)
(* A closing score is a Prisma Decimal, whose valueOf is a string: adding    *)
(* one to a number appends its digits.  Scores here are whole numbers.       *)
(***************************************************************************)
EXTENDS Integers, Sequences, FiniteSets, SequencesExt

CONSTANTS
    LastPeriod,     \* the periods are 1 .. LastPeriod, in their order
    Rows,           \* grades a student may have in a period
    Scores,         \* at most 10
    Aggregations,   \* what an institution may configure: sets of columns
    Null

Periods == 1 .. LastPeriod

Closing == [isClosed : BOOLEAN, closingScore : Scores]

VARIABLES
    grades,         \* Grade.score, by period
    closingGrade,
    reportPeriodAggregation, \* of the level: its columns and the case of its key
    read,           \* a report being made: what it has read
    report,         \* the last one made: a score, in hundredths, for each column
    \* history:
    seen,           \* the means a period has had since that report was begun
    late            \* periods with a grade written after they were closed

tables == <<grades, closingGrade, reportPeriodAggregation>>
vars   == <<tables, read, report, seen, late>>

isClosed(p) == closingGrade[p] # Null /\ closingGrade[p].isClosed

\* Math.round(sum / n * 100)
Mean(sum, n) == IF n = 0 THEN Null ELSE (200 * sum + n) \div (2 * n)

\* A list of scores, in any order.
Listed(table, p) ==
    LET given == SetToSeq({g \in Rows : table[p][g] # Null})
    IN  [i \in 1 .. Len(given) |-> table[p][given[i]]]

Sum(list) == FoldLeft(LAMBDA x, y : x + y, 0, list)

\* What the report should give for a period: its closing score, or its average.
Truth(table, closing, p) ==
    IF closing[p] # Null /\ closing[p].isClosed THEN 100 * closing[p].closingScore
    ELSE Mean(Sum(Listed(table, p)), Len(Listed(table, p)))

Truths(table, closing) == [p \in Periods |-> Truth(table, closing, p)]

Init ==
    /\ grades = [p \in Periods |-> [g \in Rows |-> Null]]
    /\ closingGrade = [p \in Periods |-> Null]
    /\ reportPeriodAggregation \in
         {Null} \cup [columns : Aggregations, key : {"upper", "slug"}]
    /\ read = Null /\ report = Null
    /\ seen = [p \in Periods |-> {}]
    /\ late = {}

-----------------------------------------------------------------------------
(* What others do: GradesService and ClosingGradesService *)

Write(table, closing) ==
    /\ grades' = table /\ closingGrade' = closing
    /\ seen' = IF read = Null THEN seen
               ELSE [p \in Periods |-> seen[p] \cup {Truth(table, closing, p)}]
    /\ UNCHANGED <<reportPeriodAggregation, read, report>>

\* A grade is created, changed or removed; a call that was overtaken by the
\* close may still do so in a closed period.
SetGrade(p, g, score) ==
    /\ grades[p][g] # score
    /\ Write([grades EXCEPT ![p][g] = score], closingGrade)
    /\ late' = IF isClosed(p) THEN late \cup {p} ELSE late

Close(p, score) ==
    /\ Write(grades, [closingGrade EXCEPT ![p] = [isClosed |-> TRUE, closingScore |-> score]])
    /\ UNCHANGED late

Reopen(p) ==
    /\ isClosed(p)
    /\ Write(grades, [closingGrade EXCEPT ![p].isClosed = FALSE])
    /\ UNCHANGED late

\* migrateSettings: keys become slugs.
MigrateSettings ==
    /\ reportPeriodAggregation # Null /\ reportPeriodAggregation.key = "upper"
    /\ reportPeriodAggregation' = [reportPeriodAggregation EXCEPT !.key = "slug"]
    /\ UNCHANGED <<grades, closingGrade, read, report, seen, late>>

-----------------------------------------------------------------------------
(* buildRiteData *)

\* The first Promise.all.
ReadGrades ==
    /\ read = Null
    /\ read' = [grades |-> grades, columns |-> Null]
    /\ report' = Null
    /\ seen' = [p \in Periods |-> {Truth(grades, closingGrade, p)}]
    /\ late' = {p \in late : isClosed(p)}
    /\ UNCHANGED tables

\* DEFAULT_AGGREGATION: a column for each period.
DEFAULT_AGGREGATION == {{p} : p \in Periods}

\* resolvePeriodAggregation looks for the slug in upper case.
ReadAggregation ==
    /\ read # Null /\ read.columns = Null
    /\ read' = [read EXCEPT !.columns =
         IF reportPeriodAggregation # Null /\ reportPeriodAggregation.key = "upper"
         THEN reportPeriodAggregation.columns ELSE DEFAULT_AGGREGATION]
    /\ UNCHANGED <<tables, report, seen, late>>

\* The scores of a period: of the closing grade, or of the grades.
\* Mutant: a grade, where there is one, goes before the closing score.
GradesFirst(p, given) ==
    IF isClosed(p) /\ Listed(given, p) = <<>>
    THEN <<[score |-> closingGrade[p].closingScore, decimal |-> TRUE]>>
    ELSE [i \in DOMAIN Listed(given, p) |-> [score |-> Listed(given, p)[i], decimal |-> FALSE]]

PeriodScores(p, given) ==
    IF isClosed(p)
    THEN <<[score |-> closingGrade[p].closingScore, decimal |-> TRUE]>>
    ELSE [i \in DOMAIN Listed(given, p) |-> [score |-> Listed(given, p)[i], decimal |-> FALSE]]

\* a + b of the reduce: once it is a string it stays one.
Plus(a, b) ==
    IF a.decimal \/ b.decimal
    THEN [score |-> a.score * (IF b.score < 10 THEN 10 ELSE 100) + b.score, decimal |-> TRUE]
    ELSE [score |-> a.score + b.score, decimal |-> FALSE]

aggregatePeriods(column, given) ==
    LET inColumn == [i \in 1 .. LastPeriod |->
                       IF i \in column THEN PeriodScores(i, given) ELSE <<>>]
        allScores == FlattenSeq(inColumn)
    IN  Mean(FoldLeft(Plus, [score |-> 0, decimal |-> FALSE], allScores).score, Len(allScores))

\* The closing grades are read last; then the report is there.
ReadClosings ==
    /\ read # Null /\ read.columns # Null
    /\ report' = [c \in read.columns |-> aggregatePeriods(c, read.grades)]
    /\ read' = Null
    /\ UNCHANGED <<tables, seen, late>>

\* A query fails, or the process stops.
Abort ==
    /\ read # Null
    /\ read' = Null
    /\ UNCHANGED <<tables, report, seen, late>>

Next ==
    \/ \E p \in Periods :
         \/ \E g \in Rows, score \in Scores \cup {Null} : SetGrade(p, g, score)
         \/ \E score \in Scores : Close(p, score)
         \/ Reopen(p)
    \/ MigrateSettings
    \/ ReadGrades \/ ReadAggregation \/ ReadClosings \/ Abort

Spec == Init /\ [][Next]_vars

-----------------------------------------------------------------------------
(* Properties *)

Column == SUBSET Periods

\* Tables, reads and reports have their types.
TypeOK ==
    /\ grades \in [Periods -> [Rows -> Scores \cup {Null}]]
    /\ closingGrade \in [Periods -> Closing \cup {Null}]
    /\ report = Null \/ \A c \in DOMAIN report : c \in Column /\ report[c] \in Nat \cup {Null}
    /\ late \subseteq Periods

\* However grades and closings change between its queries, a report shows for
\* each period what was true at some moment of the call: the closing score of a
\* closed period, the average of an open one.  Not so for a period that had a
\* grade written after it was closed, nor for a column of several periods.
ReportOfAMoment ==
    report # Null =>
        \A p \in Periods \ late : {p} \in DOMAIN report => report[{p}] \in seen[p]
=============================================================================
