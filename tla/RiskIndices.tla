---------------------------- MODULE RiskIndices ----------------------------
(***************************************************************************)
(* The index formulas of the two hazard strategies (strategies/firas,      *)
(* strategies/wrras): hazard, exposure and vulnerability are computed from *)
(* a survey's indicators, risk and resilience from their results.          *)
(*                                                                         *)
(* Indices are integers in ten-thousandths, the digits the code rounds to, *)
(* and sub-scores in millionths; fixed weights are in per cent.  The       *)
(* entropy weights of FIRAS, computed from the indicators of a tenant's    *)
(* earlier assessments, are given with the survey as shares of their sum,  *)
(* taken exactly (the code keeps six digits).                              *)
(***************************************************************************)
EXTENDS Integers, FiniteSets, Functions

VARIABLE survey     \* what an assessment's indicators are, or NoSurvey

Unit == 10000
Rejected == -1      \* InvalidIndicatorInputError, or a predecessor without a result

InRange(x) == 0 <= x /\ x <= Unit
Clamped(x) == IF x < 0 THEN 0 ELSE IF x > Unit THEN Unit ELSE x

(* round(n / d, 4), halves upwards (in floats a half is whichever way the
   representation falls) *)
RoundOver(n, d) == (2 * n + d) \div (2 * d)

Tally(f, keys) == SumFunctionOnSet(f, keys)
WeightedTally(w, f) == SumFunction([k \in DOMAIN w |-> w[k] * f[k]])
WeightedMean(w, f) == RoundOver(WeightedTally(w, f), SumFunction(w))
Inverted(f, keys) == [k \in DOMAIN f |-> IF k \in keys THEN Unit - f[k] ELSE f[k]]

-----------------------------------------------------------------------------
(* FIRAS: flood *)

FirasHazardWeights ==
    [rainfall_index |-> 25, water_level_index |-> 25, slope_index |-> 15,
     drainage_index |-> 15, land_use_index |-> 10, soil_index |-> 10]

FirasAssetWeights ==
    [population |-> 25, houses |-> 20, hospitals |-> 15, schools |-> 10, roads |-> 10,
     agricultural_land |-> 10, power_infrastructure |-> 5, livestock |-> 5]

FirasInverse ==
    {"education_level", "housing_quality", "building_materials",
     "infrastructure_condition", "household_income"}

FirasVulnerabilityKeys ==
    FirasInverse \cup
    {"population_density", "elderly_population", "children_population",
     "disability_status", "poverty_level", "livelihood_dependence", "crop_dependence"}

FirasSubIndices ==
    {{"emergency_plans", "community_training", "evacuation_preparedness",
      "resource_availability"},
     {"warning_timeliness", "warning_accuracy", "warning_accessibility"},
     {"flood_awareness", "previous_experience", "understanding_of_risk"},
     {"response_speed", "relief_distribution", "coordination"},
     {"economic_recovery", "infrastructure_recovery", "social_recovery"}}

(* What FII combines: the sub-scores of the first five and FVI of the last. *)
FirasGroups == FirasSubIndices \cup {FirasVulnerabilityKeys}

(* compute_weights: the entropy of an indicator that has always been the same
   (but zero) is one, its weight nothing; the weights are equal when none of a
   group ever differed, or there is no history.  Of those that differed the
   shares follow from logarithms: equal here, any in the theorems. *)
ComputeWeights(differed, keys) ==
    [k \in keys |-> IF k \in differed \/ keys \cap differed = {} THEN 1 ELSE 0]

(* The weightings of one assessment: within each group, of the groups in FII and
   of the sub-scores in CRI. *)
WeightsOf(differed) ==
    LET changed == {keys \in FirasGroups : keys \cap differed # {}}
    IN  [indicator |-> [keys \in FirasGroups |-> ComputeWeights(differed, keys)],
         insecurity |-> ComputeWeights(changed, FirasGroups),
         resilience |-> ComputeWeights(changed, FirasSubIndices)]

EqualWeights == WeightsOf({})

FloodHazardIndex(in) ==
    IF \A k \in DOMAIN FirasHazardWeights : InRange(in[k])
    THEN Clamped(RoundOver(WeightedTally(FirasHazardWeights, in), 100))
    ELSE Rejected

(* An asset whose total is unknown or zero is not exposed; the ratio is capped. *)
AssetExposureRatio(exposed, total) ==
    IF total <= 0 THEN 0
    ELSE LET ratio == RoundOver(Unit * exposed, total)
         IN  IF ratio > Unit THEN Unit ELSE ratio

FloodExposureIndex(exposed, total) ==
    LET ratio == [k \in DOMAIN FirasAssetWeights |-> AssetExposureRatio(exposed[k], total[k])]
    IN  IF \A k \in DOMAIN ratio : InRange(ratio[k])
        THEN Clamped(RoundOver(WeightedTally(FirasAssetWeights, ratio), 100))
        ELSE Rejected

(* Faulty variant: the inverse indicators are taken as they are. *)
FloodVulnerabilityIndexRaw(in, w) ==
    IF \A k \in FirasVulnerabilityKeys : InRange(in[k])
    THEN Clamped(WeightedMean(w.indicator[FirasVulnerabilityKeys], in))
    ELSE Rejected

FloodVulnerabilityIndex(in, w) ==
    IF \A k \in FirasVulnerabilityKeys : InRange(in[k])
    THEN Clamped(WeightedMean(w.indicator[FirasVulnerabilityKeys], Inverted(in, FirasInverse)))
    ELSE Rejected

(* The sub-scores cpc .. rc in millionths: their inputs are not range-checked. *)
FirasSubScore(in, keys, w) ==
    RoundOver(100 * WeightedTally(w.indicator[keys], in), SumFunction(w.indicator[keys]))

FloodInsecurityIndex(in, fvi, w) ==
    LET part == [keys \in FirasGroups |->
                    IF keys = FirasVulnerabilityKeys THEN 100 * fvi
                    ELSE 100 * Unit - FirasSubScore(in, keys, w)]
    IN  Clamped(RoundOver(WeightedTally(w.insecurity, part), 100 * SumFunction(w.insecurity)))

CommunityResilienceIndex(in, w) ==
    LET score == [keys \in FirasSubIndices |-> FirasSubScore(in, keys, w)]
    IN  Clamped(RoundOver(WeightedTally(w.resilience, score), 100 * SumFunction(w.resilience)))

-----------------------------------------------------------------------------
(* WRRAS: wildfire *)

WrrasHazardWeights ==
    [temperature |-> 20, wind_speed |-> 15, drought_index |-> 15, fuel_load |-> 15,
     vegetation_density |-> 10, slope |-> 10, human_activity |-> 10, rainfall |-> 5]

WrrasCategories == {"population", "infrastructure", "environmental", "economic"}

WrrasDimensions ==
    {{"poverty_rate", "literacy_level", "age_dependency_ratio", "disability_ratio"},
     {"building_flammability", "roof_material_index", "building_density",
      "access_road_quality"},
     {"fuel_accumulation_index", "ecosystem_sensitivity", "forest_condition"},
     {"tourism_dependence", "forest_livelihood_dependence", "agricultural_dependence"}}

WrrasInverse == {"literacy_level", "access_road_quality", "forest_condition"}

WrrasSubIndices ==
    {{"firebreak_coverage", "community_training", "fire_committee_presence",
      "equipment_availability"},
     {"warning_timeliness", "warning_accessibility", "warning_accuracy"},
     {"fire_awareness", "fire_prevention_knowledge", "evacuation_knowledge"},
     {"response_time_index", "suppression_efficiency", "resource_adequacy"},
     {"forest_restoration", "economic_recovery", "community_recovery"}}

WildfireHazardIndex(in) ==
    IF \A k \in DOMAIN WrrasHazardWeights : InRange(in[k])
    THEN Clamped(RoundOver(WeightedTally(WrrasHazardWeights, Inverted(in, {"rainfall"})), 100))
    ELSE Rejected

(* _ratio: unlike FIRAS, more exposed than there is in total is an error. *)
CategoryRatio(exposed, total) ==
    IF total < 0 \/ exposed < 0 THEN Rejected
    ELSE IF total = 0 THEN 0
    ELSE IF exposed > total THEN Rejected
    ELSE RoundOver(Unit * exposed, total)

WildfireExposureIndex(exposed, total) ==
    LET ratio == [k \in WrrasCategories |-> CategoryRatio(exposed[k], total[k])]
    IN  IF \E k \in WrrasCategories : ratio[k] = Rejected THEN Rejected
        ELSE RoundOver(Tally(ratio, WrrasCategories), Cardinality(WrrasCategories))

(* Faulty variant: every dimension is divided by three. *)
DimensionScoreOfThree(in, keys) == RoundOver(Tally(in, keys), 3)

(* _dimension_score, _sub_score *)
DimensionScore(in, keys) == RoundOver(Tally(in, keys), Cardinality(keys))

WildfireVulnerabilityIndex(in) ==
    IF \A k \in UNION WrrasDimensions : InRange(in[k])
    THEN RoundOver(SumFunction([keys \in WrrasDimensions |->
                                   DimensionScore(Inverted(in, WrrasInverse), keys)]),
                   Cardinality(WrrasDimensions))
    ELSE Rejected

WildfireInsecurityIndex(in, wvi) ==
    IF \A k \in UNION WrrasSubIndices : InRange(in[k])
    THEN Clamped(RoundOver(
            wvi + SumFunction([keys \in WrrasSubIndices |->
                                  Unit - DimensionScore(in, keys)]), 6))
    ELSE Rejected

WildfireResilienceIndex(in) ==
    LET score == [keys \in WrrasSubIndices |-> DimensionScore(in, keys)]
    IN  IF \A keys \in WrrasSubIndices : InRange(score[keys])
        THEN RoundOver(SumFunction(score), Cardinality(WrrasSubIndices))
        ELSE Rejected

-----------------------------------------------------------------------------
(* Risk, and the stages of one assessment *)

(* round(h * e * v, 4), kept within 32 bits: h * e = a * Unit + b *)
RiskIndex(h, e, v) ==
    IF \A x \in {h, e, v} : InRange(x)
    THEN LET a == (h * e) \div Unit
             b == (h * e) % Unit
         IN  Clamped((a * v) \div Unit
                     + RoundOver(((a * v) % Unit) * Unit + b * v, Unit * Unit))
    ELSE Rejected

(* RISK reads FII under FIRAS, WVI under WRRAS; WRRAS stores WVI and WII as one
   result, so when either is rejected there is neither. *)
FloodOutcome(s) ==
    LET h == FloodHazardIndex(s.value)
        e == FloodExposureIndex(s.exposed, s.total)
        fvi == FloodVulnerabilityIndex(s.value, s.weights)
        v == IF fvi = Rejected THEN Rejected ELSE FloodInsecurityIndex(s.value, fvi, s.weights)
    IN  [hazard |-> h, exposure |-> e, vulnerability |-> v, risk |-> RiskIndex(h, e, v),
         resilience |-> IF v = Rejected THEN Rejected ELSE CommunityResilienceIndex(s.value, s.weights)]

WildfireOutcome(s) ==
    LET h == WildfireHazardIndex(s.value)
        e == WildfireExposureIndex(s.exposed, s.total)
        wvi == WildfireVulnerabilityIndex(s.value)
        v == IF wvi = Rejected \/ WildfireInsecurityIndex(s.value, wvi) = Rejected
             THEN Rejected ELSE wvi
    IN  [hazard |-> h, exposure |-> e, vulnerability |-> v, risk |-> RiskIndex(h, e, v),
         resilience |-> IF v = Rejected THEN Rejected ELSE WildfireResilienceIndex(s.value)]

Outcome(s) == IF s.strategy = "FIRAS" THEN FloodOutcome(s) ELSE WildfireOutcome(s)

-----------------------------------------------------------------------------
(* Surveys: all indicators at one level but one.  Level 3 is 1.0 and level 4 is out
   of range; an asset is `level` exposed of 3, or its total is missing.  There is no
   earlier assessment, or (FIRAS, where no indicator is zero, see above) one in
   which that one indicator alone was different. *)

Levels == 0..4
ValueOf(level) == (Unit * level) \div 3

Assets(strategy) ==
    IF strategy = "FIRAS" THEN DOMAIN FirasAssetWeights ELSE WrrasCategories

Indicators(strategy) ==
    IF strategy = "FIRAS"
    THEN DOMAIN FirasHazardWeights \cup FirasVulnerabilityKeys \cup (UNION FirasSubIndices)
    ELSE DOMAIN WrrasHazardWeights \cup (UNION WrrasDimensions) \cup (UNION WrrasSubIndices)

SurveyOf(strategy, level, totals, weights) ==
    [strategy |-> strategy, level |-> level, weights |-> weights,
     value |-> [k \in Indicators(strategy) |-> ValueOf(level[k])],
     exposed |-> [k \in Assets(strategy) |-> level[k]],
     total |-> totals]

NoSurvey == [strategy |-> "none"]

LevelBut(st, base, key, l) ==
    [k \in Indicators(st) \cup Assets(st) |-> IF k = key THEN l ELSE base]
TotalBut(st, missing) == [k \in Assets(st) |-> IF k = missing THEN 0 ELSE 3]

SurveysOf(st) ==
    {SurveyOf(st, LevelBut(st, base, key, l), TotalBut(st, missing), EqualWeights) :
         base \in 0..3, l \in Levels, missing \in {"none", "population"},
         key \in Indicators(st) \cup Assets(st)}

SurveyAfter(base, l, key) ==
    SurveyOf("FIRAS", LevelBut("FIRAS", base, key, l), TotalBut("FIRAS", "none"),
             WeightsOf({key}))

SurveysWithHistory ==
    {SurveyAfter(base, l, key) : base \in 1..2, l \in Levels, key \in UNION FirasGroups}

Surveys == SurveysOf("FIRAS") \cup SurveysOf("WRRAS") \cup SurveysWithHistory

-----------------------------------------------------------------------------
(* Properties *)

(* Indicators of which more is better, for risk and for resilience. *)
Capacities == (UNION FirasSubIndices) \cup (UNION WrrasSubIndices)
Protective ==
    Capacities \cup
    {"education_level", "housing_quality", "building_materials", "infrastructure_condition",
     "household_income", "rainfall", "literacy_level", "access_road_quality",
     "forest_condition"}

(* An outcome after indicator k rose is on the side of the one before it where
   that indicator belongs. *)
OnItsSide(k, now, more) ==
    /\ Rejected \notin {now.risk, more.risk} =>
           IF k \in Protective THEN more.risk <= now.risk ELSE more.risk >= now.risk
    /\ Rejected \notin {now.resilience, more.resilience} =>
           IF k \in Capacities THEN more.resilience >= now.resilience
           ELSE more.resilience = now.resilience

OneMore(k, weights) ==
    Outcome(SurveyOf(survey.strategy, [survey.level EXCEPT ![k] = @ + 1],
                     survey.total, weights))

(* One indicator made worse, whichever it is and whatever the others are, never
   lowers the risk index and never raises the resilience index at the weights
   given: the inversions and the signs of the formulas agree along the whole chain
   of stages (compute_risk, compute_insecurity and their WRRAS counterparts).  The
   weights are the same for both in WRRAS, in FIRAS without an earlier assessment,
   and when that indicator is the only one that ever differed. *)
WorseIsNeverSafer ==
    survey # NoSurvey =>
        LET now == Outcome(survey)
        IN  \A k \in DOMAIN survey.level :
                survey.level[k] < 4 => OnItsSide(k, now, OneMore(k, survey.weights))

(* Does not hold (README, section 6): the same with the weights computed anew, the
   risen indicator now among those that differed.  It takes weight from the one
   that differed before, and the index follows the weight. *)
WorseIsNeverSaferReweighted ==
    survey # NoSurvey /\ survey.weights # EqualWeights =>
        \A d, k \in UNION FirasGroups :
            survey.weights = WeightsOf({d}) /\ survey.level[k] < 3 =>
                OnItsSide(k, Outcome(survey), OneMore(k, WeightsOf({d, k})))

(* What hazard, exposure and vulnerability store is always acceptable to the two
   stages that read it: those never reject, their indices stay within 0..1, and
   risk never exceeds any of its three factors (_validate* in risk.py and
   resilience.py against the results' own rounding and clamping). *)
StoredIndicesAreAccepted ==
    survey # NoSurvey =>
        LET o == Outcome(survey)
            factors == {o.hazard, o.exposure, o.vulnerability}
        IN  /\ Rejected \notin factors => InRange(o.risk) /\ \A x \in factors : o.risk <= x
            /\ o.vulnerability # Rejected => InRange(o.resilience)

(* The chain of stages from indicators to risk and resilience is monotone,
   and none of its links refuses what the one before it stored. *)
IndicesAreSound == WorseIsNeverSafer /\ StoredIndicesAreAccepted
=============================================================================
