------------------------------ MODULE Sampling ------------------------------
(***************************************************************************)
(* The geometry and sampling arithmetic of the geospatial context, as pure *)
(* operators.  Coordinates are integers: ring vertices have even ones, the *)
(* points that may be drawn odd ones, so that no drawn point lies on an    *)
(* edge.  Proportions are whole numbers of some unit, quotients are exact  *)
(* where the code has floats, and a degree of latitude is the unit of      *)
(* length: areas are scaled by a degree of longitude in that unit.         *)
(***************************************************************************)
EXTENDS Integers, Sequences, FiniteSets, FiniteSetsExt, Functions

CONSTANTS
    RingsOf,        \* the exterior rings of each geometry, a set of sequences
    LonScale,       \* a degree of longitude at each (mean) latitude
    MinSampleSize,  \* MIN_SAMPLE_SIZE
    MaxSampleSize   \* MAX_SAMPLE_SIZE

Geometries == DOMAIN RingsOf

Abs(n) == IF n < 0 THEN -n ELSE n

-----------------------------------------------------------------------------
(* Geometry *)

(* Geometry.__post_init__: at least one ring, each of four positions or    *)
(* more and closed.                                                        *)
ValidGeometry(g) ==
    /\ RingsOf[g] # {}
    /\ \A ring \in RingsOf[g] : Len(ring) >= 4 /\ ring[1] = ring[Len(ring)]

(* _meters_per_degree at the mean latitude of a ring's positions, the closing
   one counted twice *)
Scale(ring) == LonScale[SumFunction([i \in DOMAIN ring |-> ring[i][2]]) \div Len(ring)]

(* ring_area_m2: the shoelace formula; this is twice the area. *)
TwiceRingArea(ring) ==
    Scale(ring) * Abs(SumFunction([i \in 1..(Len(ring) - 1) |->
            ring[i][1] * ring[i + 1][2] - ring[i + 1][1] * ring[i][2]]))

(* Faulty variant: signed areas, so that orientation matters. *)
TwiceAreaSigned(g) ==
    SumFunction([ring \in RingsOf[g] |->
        Scale(ring) * SumFunction([i \in 1..(Len(ring) - 1) |->
            ring[i][1] * ring[i + 1][2] - ring[i + 1][1] * ring[i][2]])])

(* compute_aoi_statistics: the areas of the parts add up. *)
TwiceArea(g) == SumFunction([ring \in RingsOf[g] |-> TwiceRingArea(ring)])

Vertices(g) == UNION {Range(ring) : ring \in RingsOf[g]}

(* ring_bbox, and the union over the rings *)
BBox(g) ==
    LET xs == {v[1] : v \in Vertices(g)}
        ys == {v[2] : v \in Vertices(g)}
    IN  [min |-> <<Min(xs), Min(ys)>>, max |-> <<Max(xs), Max(ys)>>]

BBoxCentre(g) ==
    <<(BBox(g).min[1] + BBox(g).max[1]) \div 2, (BBox(g).min[2] + BBox(g).max[2]) \div 2>>

(* point_in_ring: the edges crossed by the ray to the right of p *)
Crosses(p, a, b) ==
    /\ (a[2] > p[2]) # (b[2] > p[2])
    /\ IF b[2] > a[2]
       THEN (p[1] - a[1]) * (b[2] - a[2]) < (b[1] - a[1]) * (p[2] - a[2])
       ELSE (p[1] - a[1]) * (b[2] - a[2]) > (b[1] - a[1]) * (p[2] - a[2])

PointInRing(p, ring) ==
    Cardinality({i \in 2..Len(ring) : Crosses(p, ring[i], ring[i - 1])}) % 2 = 1

PointInGeometry(p, g) == \E ring \in RingsOf[g] : PointInRing(p, ring)

(* The points the generator may draw: those of the bounding box *)
Lattice(g) ==
    {p \in (BBox(g).min[1]..BBox(g).max[1]) \X (BBox(g).min[2]..BBox(g).max[2]) :
        p[1] % 2 = 1 /\ p[2] % 2 = 1}

Interior == [g \in Geometries |-> {p \in Lattice(g) : PointInGeometry(p, g)}]

(* _random_point_in_bbox: a point inside the geometry (one stands for all  *)
(* of them) or, when every attempt missed, the centre of the bounding box. *)
RandomPoints(g) ==
    LET hits == Interior[g]
    IN  {p \in hits : \A q \in hits : q[1] + q[2] <= p[1] + p[2]}
          \cup {p \in {BBoxCentre(g)} : hits # Lattice(g) \/ hits = {}}

-----------------------------------------------------------------------------
(* Sampling strategies.  A stratum is a record of label and proportion.    *)

(* SamplingStrategy.__post_init__, and SamplingCampaign.configure *)
ValidStrategy(c) ==
    /\ c.size \in MinSampleSize..MaxSampleSize
    /\ c.method = "STRATIFIED_RANDOM" => c.strata # <<>>

(* round(n / d): to the nearest integer, ties to the even one *)
Round(n, d) ==
    LET q == n \div d
        r == 2 * (n % d)
    IN  IF r < d \/ (r = d /\ q % 2 = 0) THEN q ELSE q + 1

MinPerClass == 30

Labels(strata) == {s.label : s \in Range(strata)}

TotalProportion(strata) == SumFunction([i \in DOMAIN strata |-> strata[i].proportion])

(* A dict comprehension keeps the last of several equal labels. *)
LastStratum(strata, label) == strata[Max({i \in DOMAIN strata : strata[i].label = label})]

Share(c, label) ==
    IF c.allocation = "EQUAL" THEN c.size \div Len(c.strata)
    ELSE Round(c.size * LastStratum(c.strata, label).proportion, TotalProportion(c.strata))

(* What rounding left over: the EQUAL branch counts strata, the other adds *)
(* up what was allocated.                                                  *)
Remainder(c, shares) ==
    IF c.allocation = "EQUAL" THEN c.size - (c.size \div Len(c.strata)) * Len(c.strata)
    ELSE c.size - SumFunction(shares)

(* max(allocation, key=...): the first of the largest *)
Largest(strata, shares) ==
    LET largest == {i \in DOMAIN strata :
                        \A j \in DOMAIN strata : shares[strata[j].label] <= shares[strata[i].label]}
    IN  strata[Min(largest)].label

(* Faulty variant: the remainder is dropped. *)
AllocateTruncated(c) == [l \in Labels(c.strata) |-> Share(c, l)]

(* Faulty variant: the remainder goes to the first stratum. *)
AllocateToFirst(c) ==
    LET shares == [l \in Labels(c.strata) |-> Share(c, l)]
    IN  [shares EXCEPT ![c.strata[1].label] = @ + Remainder(c, shares)]

(* allocate_stratified_samples *)
AllocateStratifiedSamples(c) ==
    LET shares == [l \in Labels(c.strata) |-> Share(c, l)]
    IN  [shares EXCEPT ![Largest(c.strata, shares)] = @ + Remainder(c, shares)]

(* generate_stratified_samples, generate_simple_random_samples: how many   *)
(* points of each label; range() of a negative count is empty.             *)
SampleCounts(c) ==
    IF c.method = "STRATIFIED_RANDOM"
    THEN [l \in Labels(c.strata) |-> Max({0, AllocateStratifiedSamples(c)[l]})]
    ELSE [l \in {"none"} |-> c.size]
=============================================================================
