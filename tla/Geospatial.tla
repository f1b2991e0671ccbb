----------------------------- MODULE Geospatial -----------------------------
(***************************************************************************)
(* The geospatial context for one assessment: the versions of its area of  *)
(* interest and its sampling campaigns.                                    *)
(*                                                                         *)
(* DefineOrReviseAoiHandler and GenerateSamplePointsHandler read, compute  *)
(* and commit without version column, unique index or lock: between read   *)
(* and commit another request may commit.                                  *)
(***************************************************************************)
EXTENDS Sampling

CONSTANTS
    AoiIds,         \* ids of AOI rows; bounds the number of versions
    CampaignIds,    \* ids of campaigns
    Workers,        \* concurrent requests
    Strategies      \* what ConfigureSamplingCampaign may ask for

NoAoi == "none"     \* no row: None in the code

ASSUME GeospatialAssumption ==
    /\ IsFiniteSet(AoiIds) /\ NoAoi \notin AoiIds
    /\ MinSampleSize \in Nat /\ MaxSampleSize \in Nat
    /\ \A c \in Strategies :
          /\ c.method \in {"STRATIFIED_RANDOM", "SIMPLE_RANDOM"}
          /\ c.allocation \in {"PROPORTIONAL", "EQUAL"}
          /\ c.size \in Nat
          /\ c.strata \in Seq(Range(c.strata))
          /\ \A s \in Range(c.strata) : s.proportion \in Nat \ {0}

VARIABLES
    aoi,        \* aoi: the row of each id, or NoRow
    campaign,   \* sampling_campaign
    worker,     \* what each request holds
    stream,     \* where the seeded generator's points of a geometry fall
    raced       \* history: a request wrote an AOI over another's commit

aoiVars == <<aoi, campaign, worker, stream, raced>>

NoRow == [exists |-> FALSE]

Idle == [at |-> "idle"]

(* random.Random(seed) draws the same points in every request. *)
Streams ==
    LET points == [g \in {g \in Geometries : ValidGeometry(g)} |-> RandomPoints(g)]
    IN  {s \in [DOMAIN points -> UNION Range(points)] :
            \A g \in DOMAIN points : s[g] \in points[g]}

AoiInit ==
    /\ aoi = [a \in AoiIds |-> NoRow]
    /\ campaign = [c \in CampaignIds |-> NoRow]
    /\ worker = [w \in Workers |-> Idle]
    /\ stream \in Streams
    /\ raced = FALSE

Rows(table) == {i \in DOMAIN table : table[i].exists}

(* A new id is an unused one; which one makes no difference. *)
Fresh(table) ==
    LET unused == DOMAIN table \ Rows(table)
    IN  {i \in unused : i = CHOOSE j \in unused : TRUE}

Active == {a \in Rows(aoi) : aoi[a].status = "ACTIVE"}

-----------------------------------------------------------------------------
(* Areas of interest *)

(* Faulty variant: of several active rows one is taken. *)
GetAnyActiveForAssessment(w, g) ==
    worker' = [worker EXCEPT ![w] =
        [at |-> "define", geometry |-> g,
         existing |-> IF Active = {} THEN NoAoi ELSE CHOOSE a \in Active : TRUE]]

(* get_active_for_assessment: scalar_one_or_none raises for several rows. *)
GetActiveForAssessment(w, g) ==
    /\ Cardinality(Active) <= 1
    /\ worker' = [worker EXCEPT ![w] =
          [at |-> "define", geometry |-> g,
           existing |-> IF Active = {} THEN NoAoi ELSE CHOOSE a \in Active : TRUE]]

DefineOrReviseAoi(w, g) ==
    /\ worker[w] = Idle
    /\ ValidGeometry(g)
    /\ GetActiveForAssessment(w, g)
    /\ UNCHANGED <<aoi, campaign, stream, raced>>

(* Faulty variant: every AOI is a version 1. *)
NewAoiUnversioned(o) ==
    [exists |-> TRUE, version |-> 1, status |-> "ACTIVE", geometry |-> o.geometry,
     twiceArea |-> TwiceArea(o.geometry)]

(* AreaOfInterest.define, AreaOfInterest.revise.  No version of a row ever *)
(* changes, so the one held is the one read.                               *)
NewAoi(o) ==
    [exists |-> TRUE,
     version |-> IF o.existing = NoAoi THEN 1 ELSE aoi[o.existing].version + 1,
     status |-> "ACTIVE", geometry |-> o.geometry, twiceArea |-> TwiceArea(o.geometry)]

(* Faulty variant: whatever is active is superseded. *)
SupersededAll(rows, existing) ==
    [a \in AoiIds |-> IF a \in Active THEN [rows[a] EXCEPT !.status = "SUPERSEDED"] ELSE rows[a]]

(* existing.mark_superseded *)
Superseded(rows, existing) ==
    IF existing = NoAoi THEN rows ELSE [rows EXCEPT ![existing].status = "SUPERSEDED"]

Held(existing) == IF existing = NoAoi THEN {} ELSE {existing}

(* Faulty variant: the existing row takes the new geometry. *)
CommitAoiInPlace(w) ==
    /\ worker[w].at = "define"
    /\ IF worker[w].existing = NoAoi
       THEN \E a \in Fresh(aoi) : aoi' = [aoi EXCEPT ![a] = NewAoi(worker[w])]
       ELSE aoi' = [aoi EXCEPT ![worker[w].existing].geometry = worker[w].geometry,
                               ![worker[w].existing].twiceArea = TwiceArea(worker[w].geometry)]
    /\ raced' = (raced \/ Active # Held(worker[w].existing))
    /\ worker' = [worker EXCEPT ![w] = Idle]
    /\ UNCHANGED <<campaign, stream>>

(* The existing row superseded and the new one inserted, one transaction. *)
CommitAoi(w) ==
    /\ worker[w].at = "define"
    /\ \E a \in Fresh(aoi) :
          aoi' = [Superseded(aoi, worker[w].existing) EXCEPT ![a] = NewAoi(worker[w])]
    /\ raced' = (raced \/ Active # Held(worker[w].existing))
    /\ worker' = [worker EXCEPT ![w] = Idle]
    /\ UNCHANGED <<campaign, stream>>

-----------------------------------------------------------------------------
(* Sampling campaigns *)

(* SamplingCampaign.configure *)
NewCampaign(a, strategy) ==
    [exists |-> TRUE, status |-> "DRAFT", aoi |-> a, strategy |-> strategy, points |-> NoRow]

(* On any AOI of the tenant, superseded ones included. *)
ConfigureSamplingCampaign(a, strategy) ==
    /\ aoi[a].exists
    /\ ValidStrategy(strategy)
    /\ \E c \in Fresh(campaign) :
          campaign' = [campaign EXCEPT ![c] = NewCampaign(a, strategy)]
    /\ UNCHANGED <<aoi, worker, stream, raced>>

(* Faulty variant: overlapping requests draw from different streams. *)
GeneratePointsUnseeded(c) ==
    LET g == aoi[campaign[c].aoi].geometry
        others == Interior[g] \ {stream[g]}
    IN  [at |-> IF others # {} /\ \E w \in Workers : worker[w].at = "generate"
                THEN CHOOSE p \in others : TRUE ELSE stream[g],
         counts |-> SampleCounts(campaign[c].strategy)]

(* The sample points: where they are, and how many of each stratum *)
GeneratePoints(c) ==
    [at |-> stream[aoi[campaign[c].aoi].geometry],
     counts |-> SampleCounts(campaign[c].strategy)]

(* Faulty variant: a campaign samples the area that is active now. *)
GenerateOnActive(w, c) ==
    /\ worker[w] = Idle
    /\ campaign[c].exists /\ campaign[c].status = "DRAFT"
    /\ \E a \in Active :
          LET g == aoi[a].geometry IN
          /\ PointInGeometry(stream[g], g)
          /\ worker' = [worker EXCEPT ![w] =
                [at |-> "generate", campaign |-> c,
                 points |-> [GeneratePoints(c) EXCEPT !.at = stream[g]]]]
    /\ UNCHANGED <<aoi, campaign, stream, raced>>

(* GenerateSamplePointsHandler up to its save: refused when GENERATED, and *)
(* when a point lies outside the AOI.                                      *)
GenerateSamplePoints(w, c) ==
    /\ worker[w] = Idle
    /\ campaign[c].exists /\ campaign[c].status = "DRAFT"
    /\ PointInGeometry(GeneratePoints(c).at, aoi[campaign[c].aoi].geometry)
    /\ worker' = [worker EXCEPT ![w] =
          [at |-> "generate", campaign |-> c, points |-> GeneratePoints(c)]]
    /\ UNCHANGED <<aoi, campaign, stream, raced>>

(* Faulty variant: the status stays. *)
CommitPointsInDraft(w) ==
    /\ worker[w].at = "generate"
    /\ campaign' = [campaign EXCEPT ![worker[w].campaign].points = worker[w].points]
    /\ worker' = [worker EXCEPT ![w] = Idle]
    /\ UNCHANGED <<aoi, stream, raced>>

CommitPoints(w) ==
    /\ worker[w].at = "generate"
    /\ campaign' = [campaign EXCEPT ![worker[w].campaign].points = worker[w].points,
                                    ![worker[w].campaign].status = "GENERATED"]
    /\ worker' = [worker EXCEPT ![w] = Idle]
    /\ UNCHANGED <<aoi, stream, raced>>

(* The request is lost before its commit. *)
Lose(w) ==
    /\ worker[w] # Idle
    /\ worker' = [worker EXCEPT ![w] = Idle]
    /\ UNCHANGED <<aoi, campaign, stream, raced>>

AoiNext ==
    \/ \E w \in Workers :
          \/ \E g \in Geometries : DefineOrReviseAoi(w, g)
          \/ \E c \in CampaignIds : GenerateSamplePoints(w, c)
          \/ CommitAoi(w) \/ CommitPoints(w) \/ Lose(w)
    \/ \E a \in AoiIds, strategy \in Strategies : ConfigureSamplingCampaign(a, strategy)

AoiSpec == AoiInit /\ [][AoiNext]_aoiVars

-----------------------------------------------------------------------------
(* Properties *)

(* Rows hold what the columns allow; a campaign's AOI exists. *)
AoiTypeOK ==
    /\ \A a \in Rows(aoi) :
          /\ aoi[a].version \in 1..Cardinality(AoiIds)
          /\ aoi[a].status \in {"ACTIVE", "SUPERSEDED"}
          /\ ValidGeometry(aoi[a].geometry)
    /\ \A c \in Rows(campaign) :
          /\ campaign[c].aoi \in Rows(aoi)
          /\ campaign[c].status \in {"DRAFT", "GENERATED"}
          /\ (campaign[c].status = "GENERATED") <=> (campaign[c].points # NoRow)

(* However requests overlap: once an AOI is defined, one of the highest    *)
(* version is active, so a revision is never lost behind an older one.     *)
HeadIsActive ==
    Rows(aoi) # {} =>
        \E a \in Active : \A b \in Rows(aoi) : aoi[b].version <= aoi[a].version

(* AoiStatus: "both rows persist, only one is ever ACTIVE".  It holds, and *)
(* the versions count the revisions, as long as no request committed over  *)
(* a change of what it had read; two overlapping requests break it.        *)
OneActiveUnlessRaced ==
    ~raced =>
        /\ Rows(aoi) # {} => Cardinality(Active) = 1
        /\ {aoi[a].version : a \in Rows(aoi)} = 1..Cardinality(Rows(aoi))

(* What such a race leaves is for ever: with two active rows every read of *)
(* the active AOI raises, so once no request is under way no operation     *)
(* changes an AOI again.                                                   *)
TwoActiveIsPermanent ==
    [][(Cardinality(Active) > 1 /\ \A w \in Workers : worker[w].at # "define") =>
          aoi' = aoi /\ \A w \in Workers : worker'[w].at # "define"]_aoiVars

(* "edits create a new version, never mutate in place": a row keeps its    *)
(* version, geometry and area, and a superseded one is never revived, not  *)
(* even by a request that read it while it was active.                     *)
VersionsAreImmutable ==
    [][\A a \in Rows(aoi) :
          /\ aoi'[a].exists
          /\ aoi'[a] = aoi[a] \/ aoi'[a] = [aoi[a] EXCEPT !.status = "SUPERSEDED"]]_aoiVars

(* The cells of area 4 around the drawable points of each ring, on the     *)
(* scale of that ring                                                      *)
TwiceCellArea(g) ==
    SumFunction([ring \in RingsOf[g] |->
        8 * Scale(ring) * Cardinality({p \in Interior[g] : PointInRing(p, ring)})])

(* The shoelace area of an AOI agrees with what ray casting finds inside.  *)
AreaAgreesWithInterior ==
    \A a \in Rows(aoi) : aoi[a].twiceArea = TwiceCellArea(aoi[a].geometry)

(* "Every SamplePoint must fall within the referenced AOI's geometry", and *)
(* it stays there whatever is revised after the points were generated.     *)
SamplesStayInside ==
    \A c \in Rows(campaign) : campaign[c].status = "GENERATED" =>
        PointInGeometry(campaign[c].points.at, aoi[campaign[c].aoi].geometry)

(* Two requests may both find a campaign in DRAFT and both generate.  The  *)
(* second writes what the first one wrote (ids of points apart): the       *)
(* points of a GENERATED campaign never move.                              *)
SamplesAreStable ==
    [][\A c \in Rows(campaign) : campaign[c].status = "GENERATED" =>
          campaign'[c] = campaign[c]]_aoiVars

(* The strategies on which counting can work: labels tell the strata       *)
(* apart, and they are few enough for the remainder not to exceed the      *)
(* largest share.                                                          *)
Countable(c) ==
    c.method = "STRATIFIED_RANDOM" =>
        LET n == Len(c.strata)
        IN  Cardinality(Labels(c.strata)) = n /\ n * (n - 2) < 2 * c.size

(* "sample count matches declared strategy parameters", which no line      *)
(* checks: it does for Countable strategies.                               *)
SampleCountMatches ==
    \A c \in Rows(campaign) :
        /\ campaign[c].status = "GENERATED"
        /\ Countable(campaign[c].strategy)
        => SumFunction(campaign[c].points.counts) = campaign[c].strategy.size

(* Does not hold (README, section 6): allocate_stratified_samples "tops up *)
(* any stratum below the platform-wide per-class minimum by taking the     *)
(* shortfall from the largest stratum - never silently drops the           *)
(* minimum-per-class guarantee", where there are points enough for all.    *)
(* No line reads min_per_class but those that store and show it.           *)
MinimumPerClass ==
    \A c \in Rows(campaign) :
        LET strategy == campaign[c].strategy
        IN  /\ campaign[c].status = "GENERATED"
            /\ strategy.method = "STRATIFIED_RANDOM"
            /\ MinPerClass * Len(strategy.strata) <= strategy.size
            => \A l \in Labels(strategy.strata) :
                  campaign[c].points.counts[l] >= MinPerClass

(* What there is instead.                                                  *)
(* Proportional allocation: every stratum but one is within half a point   *)
(* of its exact share.  That one takes what rounding left; no other is due *)
(* a whole point more than it, though another may be due more ("largest"   *)
(* is decided after rounding).                                             *)
AllocationIsFair ==
    \A c \in Rows(campaign) :
        LET strategy == campaign[c].strategy
            total == TotalProportion(strategy.strata)
            counts == campaign[c].points.counts
            off(s) == Abs(counts[s.label] * total - strategy.size * s.proportion)
        IN  /\ campaign[c].status = "GENERATED"
            /\ strategy.method = "STRATIFIED_RANDOM" /\ strategy.allocation = "PROPORTIONAL"
            /\ Countable(strategy)
            => \E s \in Range(strategy.strata) :
                  /\ \A t \in Range(strategy.strata) :
                        /\ strategy.size * (t.proportion - s.proportion) <= total
                        /\ t # s => 2 * off(t) <= total
                  /\ 2 * off(s) <= total * (Len(strategy.strata) - 1)

(* The newest version is active, and alone unless two requests overlapped  *)
(* (DefineOrReviseAoiHandler supersedes the one it found).                 *)
ActiveAoi == AoiTypeOK /\ HeadIsActive /\ OneActiveUnlessRaced

(* Generated points lie inside the area the campaign was drawn on, in the  *)
(* number asked for and shared fairly between the strata, where inside is  *)
(* what the computed area counts.                                          *)
SamplesAreSound ==
    AreaAgreesWithInterior /\ SamplesStayInside /\ SampleCountMatches /\ AllocationIsFair

(* Versions and samples are history: they never change, nor does the state *)
(* two overlapping revisions leave behind.                                 *)
RowsAreImmutable == VersionsAreImmutable /\ SamplesAreStable /\ TwoActiveIsPermanent
=============================================================================
