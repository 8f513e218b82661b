----------------------------- MODULE Trayectoria -----------------------------
(***************************************************************************)
(* computeTrayectoria: the judgement a report draws from a student's        *)
(* evaluations in one subject.  Rows written before the values were renamed *)
(* keep the old ones; the dto lets only the new ones in.                    *)
(***************************************************************************)
EXTENDS Integers, FiniteSetsExt

CONSTANT MaxCount   \* bound: evaluations with the same value

VALID_VALUES == {"LFD", "LS", "LP", "ANL"}

\* LEGACY_MAP, and itself for every other value.
mapValue(v) == CASE v = "achieved"     -> "LFD"
                 [] v = "in-progress"  -> "LP"
                 [] v = "not-achieved" -> "ANL"
                 [] OTHER              -> v

Values == VALID_VALUES \cup {"achieved", "in-progress", "not-achieved"}

VARIABLE evaluations    \* how many there are of each value

Init == evaluations \in [Values -> 0 .. MaxCount]

\* bulkUpsertEvaluations: a new evaluation ...
Evaluate(v) ==
    /\ evaluations[v] < MaxCount
    /\ evaluations' = [evaluations EXCEPT ![v] = @ + 1]

\* ... or another value for one there is.
Revise(v, w) ==
    /\ v # w /\ evaluations[v] > 0 /\ evaluations[w] < MaxCount
    /\ evaluations' = [evaluations EXCEPT ![v] = @ - 1, ![w] = @ + 1]

Next == \E w \in VALID_VALUES : Evaluate(w) \/ \E v \in Values : Revise(v, w)

-----------------------------------------------------------------------------
(* The strategies *)

countByValue(e) ==
    [u \in VALID_VALUES |-> MapThenSumSet(LAMBDA v : e[v], {v \in Values : mapValue(v) = u})]

Total(c) == c["LFD"] + c["LS"] + c["LP"] + c["ANL"]

\* Mutant: the two ways to fall short of TEA are taken for each other.
SwappedMajority(c) ==
    IF Total(c) = 0 THEN "TED"
    ELSE IF c["LFD"] + c["LS"] >= c["LP"] + c["ANL"] THEN "TEA"
    ELSE IF c["ANL"] >= c["LP"] THEN "TEP"
    ELSE "TED"

majorityStrategy(c) ==
    IF Total(c) = 0 THEN "TED"
    ELSE IF c["LFD"] + c["LS"] >= c["LP"] + c["ANL"] THEN "TEA"
    ELSE IF c["LP"] >= c["ANL"] THEN "TEP"
    ELSE "TED"

strictStrategy(c) ==
    IF Total(c) = 0 \/ c["ANL"] > 0 THEN "TED"
    ELSE IF c["LP"] >= c["LS"] + c["LFD"] THEN "TEP"
    ELSE "TEA"

DefaultWeights == [LFD |-> 4, LS |-> 3, LP |-> 2, ANL |-> 1]

\* normalized is above / width.
weightedStrategy(c, weights) ==
    LET sum == MapThenSumSet(LAMBDA v : c[v] * weights[v], VALID_VALUES)
        above == sum - Total(c) * weights["ANL"]
        width == Total(c) * (weights["LFD"] - weights["ANL"])
    IN  IF Total(c) = 0 THEN "TED"
        ELSE IF 100 * above >= 66 * width THEN "TEA"
        ELSE IF 100 * above >= 33 * width THEN "TEP"
        ELSE "TED"

TrayectoriaStrategy == {"MAJORITY", "STRICT", "WEIGHTED", "CUSTOM"}

computeTrayectoria(e, strategy) ==
    LET c == countByValue(e) IN
    CASE strategy = "STRICT"   -> strictStrategy(c)
      [] strategy = "WEIGHTED" -> weightedStrategy(c, DefaultWeights)
      [] OTHER                 -> majorityStrategy(c)

-----------------------------------------------------------------------------
(* Properties *)

\* Each value has a number of evaluations.
TypeOK == evaluations \in [Values -> 0 .. MaxCount]

Rank(trayectoria) == CHOOSE n \in 0 .. 2 : <<"TED", "TEP", "TEA">>[n + 1] = trayectoria

Worth(v) == DefaultWeights[mapValue(v)]

\* A better evaluation is never to the student's disadvantage, whatever the
\* strategy, but for one case: by majority, a student with as many evaluations
\* in progress as not achieved falls from TEP to TED when one that is in
\* progress becomes positive and the positive ones are still the fewer.
BetterIsNotWorse ==
    \A v, w \in Values, strategy \in TrayectoriaStrategy :
        evaluations[v] > 0 /\ Worth(w) > Worth(v) =>
            LET better == [evaluations EXCEPT ![v] = @ - 1, ![w] = @ + 1]
                counts == countByValue(evaluations)
            IN  \/ Rank(computeTrayectoria(better, strategy))
                     >= Rank(computeTrayectoria(evaluations, strategy))
                \/ /\ strategy \in {"MAJORITY", "CUSTOM"}
                   /\ mapValue(v) = "LP" /\ counts["LP"] = counts["ANL"]
=============================================================================
