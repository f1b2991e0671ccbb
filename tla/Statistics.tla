----------------------------- MODULE Statistics -----------------------------
(***************************************************************************)
(* The arithmetic of the prediction and validation contexts: confusion     *)
(* matrix, kappa, F1, ROC and verdict (metrics.py), regression metrics,    *)
(* rank correlations (correlation.py) and least squares (regression.py).   *)
(*                                                                         *)
(* Floats are exact rationals <<numerator, denominator>>; a square root is *)
(* kept as its square.  Labels are numbers, in their sorted order.         *)
(***************************************************************************)
EXTENDS Integers, Sequences, FiniteSets, SequencesExt

CONSTANTS
    MaxSamples,         \* bound on the observations of a dataset
    MaxValue,           \* bound on scores, observed and predicted values
    KendallLimit        \* MAX_KENDALL_OBSERVATIONS (500)

ASSUME StatisticsAssumption ==
    MaxSamples \in Nat \ {0} /\ MaxValue \in Nat \ {0} /\ KendallLimit \in Nat \ {0}

VARIABLE observations       \* what a run is computed from

-----------------------------------------------------------------------------
(* Rationals *)

gcd[a \in Nat, b \in Nat] == IF b = 0 THEN a ELSE gcd[b, a % b]

AbsInt(i) == IF i < 0 THEN -i ELSE i

Frac(n, d) ==
    LET g == gcd[AbsInt(n), AbsInt(d)]
        s == IF d < 0 THEN -1 ELSE 1
    IN  <<s * (n \div g), s * (d \div g)>>

Whole(i) == <<i, 1>>
Plus(x, y) == Frac(x[1] * y[2] + y[1] * x[2], x[2] * y[2])
Minus(x, y) == Frac(x[1] * y[2] - y[1] * x[2], x[2] * y[2])
Times(x, y) == Frac(x[1] * y[1], x[2] * y[2])
Over(x, y) == Frac(x[1] * y[2], x[2] * y[1])
AtMost(x, y) == x[1] * y[2] <= y[1] * x[2]
AbsFrac(x) == <<AbsInt(x[1]), x[2]>>
Sum(f) == SumFunction(f)
Total(f) == FoldFunction(Plus, Whole(0), f)

(* _safe_div *)
SafeDiv(x, y) == IF y[1] = 0 THEN Whole(0) ELSE Over(x, y)

(* _mean *)
Mean(f) == SafeDiv(Total(f), Whole(Len(f)))

(* round(x, 6), of which no half occurs with denominators below 128 *)
Rounded(x) == <<(2 * 1000000 * x[1] + x[2]) \div (2 * x[2]), 1000000>>

Missing == << >>    \* None: a metric not computed, a threshold not declared

-----------------------------------------------------------------------------
(* Classification metrics *)

ResolvedLabels(yTrue, yPred, labels) ==
    IF labels # << >> THEN labels ELSE SetToSortSeq(ToSet(yTrue) \cup ToSet(yPred), <)

(* build_confusion_matrix: a sample with an undeclared label is dropped. *)
BuildConfusionMatrix(yTrue, yPred, labels) ==
    [i \in DOMAIN labels |-> [j \in DOMAIN labels |->
        Cardinality({s \in DOMAIN yTrue : yTrue[s] = labels[i] /\ yPred[s] = labels[j]})]]

RowSum(cm, k) == Sum(cm[k])
ColumnSum(cm, k) == Sum([i \in DOMAIN cm |-> cm[i][k]])
CmTotal(cm) == Sum([k \in DOMAIN cm |-> RowSum(cm, k)])
Correct(cm) == Sum([k \in DOMAIN cm |-> cm[k][k]])

(* per_class_counts, binary_counts *)
PerClassCounts(cm, k) ==
    LET tp == cm[k][k]
    IN  [tp |-> tp, fp |-> ColumnSum(cm, k) - tp, fn |-> RowSum(cm, k) - tp]

Precision(c) == SafeDiv(Whole(c.tp), Whole(c.tp + c.fp))
Recall(c) == SafeDiv(Whole(c.tp), Whole(c.tp + c.fn))
F1(c) ==
    SafeDiv(Times(Whole(2), Times(Precision(c), Recall(c))), Plus(Precision(c), Recall(c)))

(* Of the positive class when there are two labels, else the macro average *)
OfClasses(cm, M(_)) ==
    IF Len(cm) = 2 THEN M(PerClassCounts(cm, 2))
    ELSE Mean([k \in DOMAIN cm |-> M(PerClassCounts(cm, k))])

(* Faulty variant: chance agreement from the rows alone. *)
ChanceAgreementOfRows(cm) ==
    SafeDiv(Whole(Sum([k \in DOMAIN cm |-> RowSum(cm, k) * RowSum(cm, k)])),
            Whole(CmTotal(cm) * CmTotal(cm)))

ChanceAgreement(cm) ==
    SafeDiv(Whole(Sum([k \in DOMAIN cm |-> RowSum(cm, k) * ColumnSum(cm, k)])),
            Whole(CmTotal(cm) * CmTotal(cm)))

(* _compute_kappa *)
ComputeKappa(cm) ==
    LET oa == SafeDiv(Whole(Correct(cm)), Whole(CmTotal(cm)))
        pe == ChanceAgreement(cm)
    IN  IF CmTotal(cm) = 0 THEN Whole(0) ELSE SafeDiv(Minus(oa, pe), Minus(Whole(1), pe))

-----------------------------------------------------------------------------
(* Ranks, ROC and verdict *)

Precedes(values, i, j) == values[i] < values[j] \/ (values[i] = values[j] /\ i < j)

(* order: the place of each position by value, sorted() being stable *)
Places(values) ==
    [v \in DOMAIN values |-> 1 + Cardinality({j \in DOMAIN values : Precedes(values, j, v)})]

TiedPlaces(values, v) ==
    {Places(values)[j] : j \in {j \in DOMAIN values : values[j] = values[v]}}

(* Faulty variant: ties take the rank of the first of them. *)
TwiceAverageRanksOfFirst(values) ==
    [v \in DOMAIN values |-> 2 * Min(TiedPlaces(values, v))]

(* _average_ranks: a run of equal values from the i-th to the j-th place   *)
(* takes (i + j) / 2; twice that.                                          *)
TwiceAverageRanks(values) ==
    [v \in DOMAIN values |-> Min(TiedPlaces(values, v)) + Max(TiedPlaces(values, v))]

Ones(y) == {s \in DOMAIN y : y[s] = 1}
Zeros(y) == {s \in DOMAIN y : y[s] = 0}

(* _compute_roc: the rank-sum AUC *)
Auc(y, scores) ==
    LET pos == Cardinality(Ones(y))
        neg == Len(y) - pos
    IN  IF pos = 0 \/ neg = 0 THEN <<1, 2>>
        ELSE Frac(SumFunctionOnSet(TwiceAverageRanks(scores), Ones(y)) - pos * (pos + 1),
                  2 * pos * neg)

(* The different scores, descending *)
Thresholds(scores) ==
    [k \in 1..Cardinality(ToSet(scores)) |->
        CHOOSE t \in ToSet(scores) : Cardinality({u \in ToSet(scores) : u > t}) = k - 1]

(* True and false positives at each threshold, descending *)
RocPoints(y, scores) ==
    [k \in DOMAIN Thresholds(scores) |->
        LET hit == {s \in DOMAIN scores : scores[s] >= Thresholds(scores)[k]}
        IN  [tp |-> Cardinality(hit \cap Ones(y)), fp |-> Cardinality(hit \cap Zeros(y))]]

(* Faulty variant: without scores there is nothing to object to. *)
AucOrTop(y, scores) == IF scores = Missing THEN Whole(1) ELSE Rounded(Auc(y, scores))

AucOrMissing(y, scores) == IF scores = Missing THEN Missing ELSE Rounded(Auc(y, scores))

(* compute_metric_set: what a verdict looks at; the last label is positive *)
ComputeMetricSet(yTrue, yPred, scores, labels) ==
    LET resolved == ResolvedLabels(yTrue, yPred, labels)
        cm == BuildConfusionMatrix(yTrue, yPred, resolved)
        binary == [s \in DOMAIN yTrue |-> IF yTrue[s] = resolved[Len(resolved)] THEN 1 ELSE 0]
    IN  [accuracy |-> Rounded(SafeDiv(Whole(Correct(cm)), Whole(CmTotal(cm)))),
         precision |-> Rounded(OfClasses(cm, Precision)),
         recall |-> Rounded(OfClasses(cm, Recall)),
         f1 |-> Rounded(OfClasses(cm, F1)),
         auc |-> AucOrMissing(binary, scores)]

(* compute_verdict *)
ComputeVerdict(metrics, thresholds) ==
    IF \E m \in DOMAIN thresholds :
          /\ thresholds[m] # Missing
          /\ metrics[m] = Missing \/ ~AtMost(thresholds[m], metrics[m])
    THEN "FAIL" ELSE "PASS"

-----------------------------------------------------------------------------
(* Regression metrics *)

Square(i) == i * i

(* ss_tot, times the number of observations *)
SsTot(y) == Len(y) * Sum([i \in DOMAIN y |-> Square(y[i])]) - Square(Sum(y))

RSquared(ssRes, y) ==
    IF SsTot(y) > 0 THEN Minus(Whole(1), Over(ssRes, Frac(SsTot(y), Len(y)))) ELSE Whole(0)

(* Faulty variant: the degrees of freedom upside down. *)
AdjustedRSquaredInverted(r2, n, k) ==
    IF n > k + 1
    THEN Minus(Whole(1), Times(Minus(Whole(1), r2), Frac(n - k - 1, n - 1))) ELSE Whole(0)

AdjustedRSquared(r2, n, k) ==
    IF n > k + 1
    THEN Minus(Whole(1), Times(Minus(Whole(1), r2), Frac(n - 1, n - k - 1))) ELSE Whole(0)

(* compute_regression_metric_set; rmse is the root of mse *)
ComputeRegressionMetricSet(yTrue, yPred, k) ==
    LET n == Len(yTrue)
        squares == Sum([i \in 1..n |-> Square(yTrue[i] - yPred[i])])
        r2 == RSquared(Whole(squares), yTrue)
    IN  [mse |-> Frac(squares, n),
         mae |-> Frac(Sum([i \in 1..n |-> AbsInt(yTrue[i] - yPred[i])]), n),
         rSquared |-> r2, adjusted |-> AdjustedRSquared(r2, n, k)]

-----------------------------------------------------------------------------
(* Correlation.  A coefficient is its numerator and the square of its      *)
(* denominator, 0 when that is 0.                                          *)

Coefficient(numerator, square) ==
    IF square = 0 THEN [numerator |-> 0, square |-> 1]
    ELSE [numerator |-> numerator, square |-> square]

(* pearson, of deviations times the number of observations *)
Pearson(x, y) ==
    LET sx == Sum(x)
        sy == Sum(y)
        dx == [i \in DOMAIN x |-> Len(x) * x[i] - sx]
        dy == [i \in DOMAIN y |-> Len(y) * y[i] - sy]
        dot(a, b) == Sum([i \in DOMAIN a |-> a[i] * b[i]])
    IN  Coefficient(dot(dx, dy), dot(dx, dx) * dot(dy, dy))

Spearman(x, y) == Pearson(TwiceAverageRanks(x), TwiceAverageRanks(y))

(* Faulty variant: every stride-th observation from the start. *)
SubsampleTruncated(n) ==
    IF n <= KendallLimit THEN [i \in 1..n |-> i]
    ELSE [i \in 1..KendallLimit |-> 1 + (i - 1) * (n \div KendallLimit)]

(* _subsample_deterministic: the positions taken of n *)
Subsample(n) ==
    IF n <= KendallLimit THEN [i \in 1..n |-> i]
    ELSE [i \in 1..KendallLimit |-> 1 + ((i - 1) * n) \div KendallLimit]

(* Faulty variant: a pair tied in both counts for x only. *)
YTieOnly(dx, dy) == dx # 0 /\ dy = 0

YTie(dx, dy) == dy = 0

(* kendall_tau *)
KendallTau(x, y) ==
    LET at == Subsample(Len(x))
        pairs == {p \in (DOMAIN at) \X (DOMAIN at) : p[1] < p[2]}
        dx(p) == x[at[p[1]]] - x[at[p[2]]]
        dy(p) == y[at[p[1]]] - y[at[p[2]]]
        concordant == {p \in pairs : dx(p) * dy(p) > 0}
        discordant == {p \in pairs : dx(p) * dy(p) < 0}
        xTies == {p \in pairs : dx(p) = 0}
        yTies == {p \in pairs : YTie(dx(p), dy(p))}
        n0 == Cardinality(pairs)
    IN  Coefficient(Cardinality(concordant) - Cardinality(discordant),
                    (n0 - Cardinality(xTies)) * (n0 - Cardinality(yTies)))

-----------------------------------------------------------------------------
(* Least squares *)

Singular == << >>

(* max(range(col, n), key=abs): the first row of the largest entry *)
Pivot(aug, col) ==
    Min({r \in col..Len(aug) :
            \A q \in col..Len(aug) : AtMost(AbsFrac(aug[q][col]), AbsFrac(aug[r][col]))})

(* One column of the elimination *)
Eliminate(aug, col) ==
    IF aug = Singular THEN Singular
    ELSE LET pivot == Pivot(aug, col)
             rows == [aug EXCEPT ![col] = aug[pivot], ![pivot] = aug[col]]
             p == rows[col][col]
             unit == [k \in DOMAIN rows[col] |-> Over(rows[col][k], p)]
         IN  IF p[1] = 0 THEN Singular
             ELSE [row \in DOMAIN rows |->
                     IF row = col THEN unit
                     ELSE [k \in DOMAIN unit |->
                             Minus(rows[row][k], Times(rows[row][col], unit[k]))]]

(* _mat_inv *)
MatInv(m) ==
    LET n == Len(m)
        identity(i) == [j \in 1..n |-> IF i = j THEN Whole(1) ELSE Whole(0)]
        aug == FoldLeft(Eliminate, [i \in 1..n |-> m[i] \o identity(i)], [c \in 1..n |-> c])
    IN  IF aug = Singular THEN Singular
        ELSE [i \in 1..n |-> SubSeq(aug[i], n + 1, 2 * n)]

Design(x) == [i \in DOMAIN x |-> <<1>> \o x[i]]

(* Faulty variant: the intercept's row is left out of X'y. *)
XtYCentred(d, y) ==
    [j \in DOMAIN d[1] |->
        IF j = 1 THEN Whole(0) ELSE Whole(Sum([r \in DOMAIN d |-> d[r][j] * y[r]]))]

XtY(d, y) == [j \in DOMAIN d[1] |-> Whole(Sum([r \in DOMAIN d |-> d[r][j] * y[r]]))]

XtX(d) ==
    [i \in DOMAIN d[1] |-> [j \in DOMAIN d[1] |->
        Whole(Sum([r \in DOMAIN d |-> d[r][i] * d[r][j]]))]]

(* compute_multiple_linear_regression: the inverse of X'X times X'y; it    *)
(* raises for too few observations and for a singular X'X.                 *)
Betas(x, y) ==
    LET d == Design(x)
        inv == MatInv(XtX(d))
        xty == XtY(d, y)
    IN  IF Len(y) < Len(x[1]) + 2 \/ inv = Singular THEN Singular
        ELSE [i \in DOMAIN inv |->
                Total([j \in DOMAIN inv |-> Times(inv[i][j], xty[j])])]

Residuals(x, y) ==
    LET betas == Betas(x, y)
        d == Design(x)
    IN  [r \in DOMAIN y |->
            Minus(Whole(y[r]), Total([j \in DOMAIN betas |->
                Times(betas[j], Whole(d[r][j]))]))]

-----------------------------------------------------------------------------
(* Observations: pairs of vectors (observed and predicted labels or        *)
(* values, classes and scores, two variables), designs of one predictor,   *)
(* with too few observations as well, and of two, and numbers of rows.     *)
(* ValidationDataset and _validate_equal_length let no other lengths pass. *)

NoObservations == [kind |-> "none"]

Pairs ==
    UNION {[kind : {"pair"}, x : [1..n -> 0..MaxValue], y : [1..n -> 0..MaxValue]] :
              n \in 2..MaxSamples}

Designs ==
    LET one(n) == [1..n -> {<<v>> : v \in 0..MaxValue}]
    IN  [kind : {"design"}, x : one(2), y : [1..2 -> 0..MaxValue]]
        \cup [kind : {"design"}, x : one(3), y : [1..3 -> 0..MaxValue]]
        \cup [kind : {"design"}, x : [1..4 -> (0..1) \X (0..1)],
                                  y : {<<1, 0, 0, 0>>, <<0, 1, 2, 2>>}]

Sizes == [kind : {"size"}, n : 1..(4 * KendallLimit)]

Observations == Pairs \cup Designs \cup Sizes

-----------------------------------------------------------------------------
(* Properties *)

(* _compute_roc: "exact, and equivalent to trapezoidal-rule                *)
(* AUC-under-the-ROC-curve even with tied scores".  The rank-sum formula   *)
(* is the share of (positive, negative) pairs the scores order rightly,    *)
(* ties counting half, and the area under the ROC points.                  *)
RocIsExact ==
    (observations.kind = "pair" /\ ToSet(observations.x) = {0, 1}) =>
        LET y == observations.x
            scores == observations.y
            cells == Ones(y) \X Zeros(y)
            won == Cardinality({c \in cells : scores[c[1]] > scores[c[2]]})
            tied == Cardinality({c \in cells : scores[c[1]] = scores[c[2]]})
            roc == RocPoints(y, scores)
            tp(k) == IF k = 0 THEN 0 ELSE roc[k].tp
            fp(k) == IF k = 0 THEN 0 ELSE roc[k].fp
            area == Sum([k \in DOMAIN roc |-> (fp(k) - fp(k - 1)) * (tp(k) + tp(k - 1))])
        IN  /\ Auc(y, scores) = Frac(2 * won + tied, 2 * Cardinality(cells))
            /\ area = 2 * won + tied

(* Kappa does not tell observer from predictor, never exceeds 1 and        *)
(* reaches it exactly on perfect agreement about at least two classes;     *)
(* with a single class it is 0, the quotient being 0 / 0.  F1 is           *)
(* 2tp / (2tp + fp + fn), also where precision and recall both are 0.      *)
KappaAndF1AreRight ==
    observations.kind = "pair" =>
        LET yTrue == observations.x
            yPred == observations.y
            labels == ResolvedLabels(yTrue, yPred, << >>)
            cm == BuildConfusionMatrix(yTrue, yPred, labels)
            times(v, k) == Cardinality({s \in DOMAIN v : v[s] = labels[k]})
        IN  /\ AtMost(ComputeKappa(cm), Whole(1))
            /\ ComputeKappa(cm) = ComputeKappa(BuildConfusionMatrix(yPred, yTrue, labels))
            /\ (ComputeKappa(cm) = Whole(1)) <=> (yTrue = yPred /\ Len(labels) > 1)
            /\ \A k \in DOMAIN cm :
                  LET c == PerClassCounts(cm, k)
                  IN  F1(c) = SafeDiv(Whole(2 * c.tp), Whole(times(yTrue, k) + times(yPred, k)))

(* compute_verdict "fails closed, not open": under a minimum AUC above one *)
(* half a run passes only when scores were given and both classes were     *)
(* observed (else the AUC is missing, or is 1/2); under a minimum accuracy *)
(* only when declared labels left some sample to count.                    *)
VerdictFailsClosed ==
    (observations.kind = "pair" /\ ToSet(observations.x) \cup ToSet(observations.y) \subseteq {0, 1}) =>
        \A given \in BOOLEAN, labels \in {<<0, 1>>, <<3, 4>>, << >>},
           minAuc, minAccuracy \in {Missing, <<3, 5>>} :
            LET yTrue == observations.x
                yPred == observations.y
                scores == IF given THEN yPred ELSE Missing
                thresholds == [accuracy |-> minAccuracy, precision |-> Missing,
                               recall |-> Missing, f1 |-> Missing, auc |-> minAuc]
                right == Cardinality({s \in DOMAIN yTrue : yTrue[s] = yPred[s]})
            IN  ComputeVerdict(ComputeMetricSet(yTrue, yPred, scores, labels), thresholds) = "PASS" =>
                /\ minAuc # Missing => given /\ ToSet(yTrue) = {0, 1} /\ labels # <<3, 4>>
                /\ minAccuracy # Missing => labels # <<3, 4>> /\ 5 * right >= 3 * Len(yTrue)

(* mae is at most rmse, R^2 at most 1 and 1 on a perfect prediction of     *)
(* values that differ (0 when they do not), and while there are more       *)
(* observations than parameters the adjustment never flatters.             *)
RegressionMetricsAreOrdered ==
    observations.kind = "pair" =>
        \A k \in 1..2 :
            LET y == observations.x
                m == ComputeRegressionMetricSet(y, observations.y, k)
            IN  /\ AtMost(Times(m.mae, m.mae), m.mse)
                /\ AtMost(m.rSquared, Whole(1))
                /\ y = observations.y =>
                      m.rSquared = IF Cardinality(ToSet(y)) > 1 THEN Whole(1) ELSE Whole(0)
                /\ Len(y) > k + 1 => AtMost(m.adjusted, m.rSquared)

(* Spearman's rho and Kendall's tau-b, two algorithms with ties handled in *)
(* two ways, stay within -1 and 1 before they are clamped, and both are 1  *)
(* exactly when the two variables order, and tie, the observations alike.  *)
RankCorrelationsAgree ==
    (observations.kind = "pair" /\ Len(observations.x) <= KendallLimit) =>
        LET x == observations.x
            y == observations.y
            rho == Spearman(x, y)
            tau == KendallTau(x, y)
            one(c) == c.numerator > 0 /\ Square(c.numerator) = c.square
            alike == /\ Cardinality(ToSet(x)) > 1
                     /\ \A i, j \in DOMAIN x : x[i] < x[j] <=> y[i] < y[j]
        IN  /\ Square(rho.numerator) <= rho.square /\ Square(tau.numerator) <= tau.square
            /\ one(rho) <=> alike
            /\ one(tau) <=> alike

(* Above the limit the positions taken are distinct, in range, and spread  *)
(* over all observations: no stretch longer than a stride, rounded up, is  *)
(* left out, at the end either.                                            *)
SubsampleIsSpread ==
    observations.kind = "size" =>
        LET n == observations.n
            at == Append(Subsample(n), n + 1)
            stride == IF n <= KendallLimit THEN 1 ELSE (n + KendallLimit - 1) \div KendallLimit
        IN  /\ at[1] = 1
            /\ \A i \in 1..(Len(at) - 1) : at[i + 1] - at[i] \in 1..stride

(* The fit exists exactly when there are enough observations and no column *)
(* is a combination of the others (otherwise the run FAILs), and then it   *)
(* is the least-squares one: the residuals are orthogonal to the intercept *)
(* and to every predictor, and R^2 lies between 0 and 1.                   *)
FitIsLeastSquares ==
    observations.kind = "design" =>
        LET x == observations.x
            y == observations.y
            rows == Design(x)
            cols == DOMAIN rows[1]
            dependent == \E c \in [cols -> -MaxValue..MaxValue] :
                            /\ \E j \in cols : c[j] # 0
                            /\ \A r \in DOMAIN rows : Sum([j \in cols |-> c[j] * rows[r][j]]) = 0
            residuals == Residuals(x, y)
            r2 == RSquared(Total([r \in DOMAIN y |-> Times(residuals[r], residuals[r])]), y)
        IN  IF dependent \/ Len(y) < Len(x[1]) + 2 THEN Betas(x, y) = Singular
            ELSE /\ Betas(x, y) # Singular
                 /\ \A j \in cols :
                       Total([r \in DOMAIN y |-> Times(residuals[r], Whole(rows[r][j]))]) = Whole(0)
                 /\ AtMost(Whole(0), r2) /\ AtMost(r2, Whole(1))

(* What a validation run reports of any dataset, ties and undefined        *)
(* metrics included (metrics.py, regression_metrics.py).                   *)
MetricsAreRight ==
    RocIsExact /\ KappaAndF1AreRight /\ VerdictFailsClosed /\ RegressionMetricsAreOrdered

(* What a prediction run reports of any dataset, ties and collinear        *)
(* predictors included (correlation.py, regression.py).                    *)
ModelsAreRight == RankCorrelationsAgree /\ SubsampleIsSpread /\ FitIsLeastSquares
=============================================================================
