--------------------------- MODULE DigitalEngine ---------------------------
(***************************************************************************)
(* The forecast of a campaign on the social networks: three strategies     *)
(* compared for one budget (digital-simulation-engine.heuristic), from the *)
(* references of the market and from those measured on linked campaigns,   *)
(* which come in one by one (local-benchmarks.service).                    *)
(*                                                                         *)
(* Percentages are in hundredths, factors in percent, people, clicks and   *)
(* conversions in tenths until Math.round; what the code computes with     *)
(* doubles is rounded down to these units, before a strategy multiplies it *)
(* and then for each strategy.  The jitter, a hash of the parameters, of   *)
(* the platform and of the figure within 8 %, is a parameter.  Engagement  *)
(* and ROAS, which no strategy changes, and the texts are left out.        *)
(***************************************************************************)
EXTENDS Integers, FiniteSets, FiniteSetsExt, Functions

CONSTANTS
  None,
  Owner,           \* the linked campaigns: records of a company and an objective
  Figure,          \* what Meta measures, with clicks: [cpm, ctr, conversion, city]
  Params           \* the simulations asked for

VARIABLES
  observed,        \* the AdPerformanceObservation row of a campaign, or None
  simulated        \* the last simulation asked for, or None

vars == <<observed, simulated>>

Platform == {"FACEBOOK", "INSTAGRAM"}
Objective == {"AWARENESS", "ENGAGEMENT", "TRAFFIC", "LEADS", "CONVERSION", "SALES",
              "MESSAGES"}
Campaign == DOMAIN Owner

TypeOK ==
  /\ observed \in [Campaign -> Figure \cup {None}]
  /\ simulated \in Params \cup {None}

Init == observed = [c \in Campaign |-> None] /\ simulated = None

\* record: an upsert, at each fresh reading of a linked campaign.
Record(c, f) ==
  /\ observed' = [observed EXCEPT ![c] = f]
  /\ UNCHANGED simulated

Ask(p) == simulated' = p /\ UNCHANGED observed

Next == \/ \E c \in Campaign, f \in Figure : Record(c, f)
        \/ \E p \in Params : Ask(p)

Spec == Init /\ [][Next]_vars

-----------------------------------------------------------------------------
(* The references measured (getCalibration, aggregate).                    *)

\* The k-th least of the figures f of C, counted from one.
Ranked(C, f, k) ==
  CHOOSE v \in {observed[c][f] : c \in C} :
    /\ Cardinality({c \in C : observed[c][f] < v}) < k
    /\ k <= Cardinality({c \in C : observed[c][f] <= v})

Median(C, f) ==
  LET n == Cardinality(C)
      mid == n \div 2
  IN IF n % 2 = 1 THEN Ranked(C, f, mid + 1)
     ELSE (Ranked(C, f, mid) + Ranked(C, f, mid + 1)) \div 2

Aggregate(C) ==
  [campaigns |-> Cardinality(C), cpm |-> Median(C, "cpm"), ctr |-> Median(C, "ctr"),
   conversion |-> Median(C, "conversion")]

\* The company's own campaigns from two on, else those of three companies, of the
\* city first.
Calibration(p) ==
  LET rows == {c \in Campaign :
                 observed[c] # None /\ Owner[c].objective = p.objective}
      own == {c \in rows : Owner[c].company = p.company}
      inCity == {c \in rows : observed[c].city = p.city}
      Companies(C) == Cardinality({Owner[c].company : c \in C})
  IN IF Cardinality(own) >= 2 THEN Aggregate(own)
     ELSE IF Companies(inCity) >= 3 THEN Aggregate(inCity)
     ELSE IF Companies(rows) >= 3 THEN Aggregate(rows)
     ELSE None

\* Slip: the references are for any platform.
ReferenceOfAny(p, platform) == Calibration(p)

\* They come from Facebook Ads: Facebook only.
Reference(p, platform) == IF platform = "FACEBOOK" THEN Calibration(p) ELSE None

-----------------------------------------------------------------------------
(* One channel (estimateChannel).                                          *)

Variant ==
  [A |-> [breadth |-> 100, ctr |-> 100, conversion |-> 100],
   B |-> [breadth |-> 135, ctr |-> 85, conversion |-> 80],
   C |-> [breadth |-> 70, ctr |-> 120, conversion |-> 125]]

\* The midpoints of DIGITAL_SIMULATION_BENCHMARKS.
Bench ==
  [AWARENESS  |-> [cpm |-> 2000, ctr |-> 65, conversion |-> 100],
   ENGAGEMENT |-> [cpm |-> 2350, ctr |-> 180, conversion |-> 200],
   TRAFFIC    |-> [cpm |-> 2200, ctr |-> 150, conversion |-> 175],
   LEADS      |-> [cpm |-> 3350, ctr |-> 120, conversion |-> 650],
   CONVERSION |-> [cpm |-> 3750, ctr |-> 105, conversion |-> 350],
   SALES      |-> [cpm |-> 4150, ctr |-> 95, conversion |-> 400],
   MESSAGES   |-> [cpm |-> 2300, ctr |-> 160, conversion |-> 3000]]

Least(m, n) == IF m < n THEN m ELSE n
Percent(n, percent) == (n * percent) \div 100
Round(tenths) == (tenths + 5) \div 10

\* audienceBreadthScore.
AudienceBreadth(a) ==
  LET age == Least(130, 70 + (100 * a.span) \div 60)
      gender == IF a.all THEN 115 ELSE 85
      location == Least(120, 80 + 10 * a.locations)
      interest == IF a.interests > 0 THEN Least(110, 100 + 2 * a.interests) ELSE 95
  IN (Percent(Percent(age, gender), location) * interest) \div 110

\* n campaigns weigh n / (n + 5) against the market.
Blend(prior, reference, f) ==
  IF reference # None /\ reference[f] > 0
  THEN (prior * 5 + reference[f] * reference.campaigns) \div (reference.campaigns + 5)
  ELSE prior

Known(metrics, f) == metrics # None /\ metrics[f] > 0

\* Each reference of the market has its own draw.
Market(p, platform, f) == Percent(Bench[p.objective][f], p.jitter[platform][f])

\* What the budget brings before any strategy.
Basis(p, platform, budget, reference) ==
  LET metrics == p.channels[platform]
      Prior(f) == Blend(Market(p, platform, f), reference, f)
      cpm == IF Known(metrics, "cpm") THEN metrics.cpm ELSE Prior("cpm")
      impressions == (budget * 1000) \div cpm
      followers == IF metrics = None THEN 0 ELSE metrics.followers
      people == (impressions * 100) \div 18 + Percent(followers * 10, 15)
      reach == Percent(people, AudienceBreadth(p.audience))
      ctr == IF Known(metrics, "cpc") THEN (cpm * 10) \div metrics.cpc ELSE Prior("ctr")
      clicks == (reach * ctr) \div 10000
  IN [reach |-> reach, clicks |-> clicks,
      conversions |-> (clicks * Prior("conversion")) \div 10000]

\* The breadth of v moves its clicks too, and the clicks its conversions.
Estimate(p, platform, budget, reference, v) ==
  LET basis == Basis(p, platform, budget, reference)
      breadth == v.breadth
      clicks == breadth * v.ctr
      conversions == clicks * v.conversion
  IN [reach |-> Round((basis.reach * breadth) \div 100),
      clicks |-> Round((basis.clicks * clicks) \div 10000),
      conversions |-> Round((basis.conversions * conversions) \div 1000000)]

-----------------------------------------------------------------------------
(* One strategy (computePlan, buildWeeklySeries), then the choice.         *)

Weight(metrics) == IF Known(metrics, "followers") THEN metrics.followers ELSE 1
TotalWeight(p) == SumFunction([x \in DOMAIN p.channels |-> Weight(p.channels[x])])

ChannelBudget(p, platform) ==
  (p.budget * Weight(p.channels[platform])) \div TotalWeight(p)

\* The plan of one strategy, given the references of each platform.
Plan(p, v, reference) ==
  LET channels == DOMAIN p.channels
      Of(x) == Estimate(p, x, ChannelBudget(p, x), reference[x], v)
      Sum(f) == SumFunction([x \in channels |-> Of(x)[f]])
      overlap == IF Cardinality(channels) > 1 THEN 85 ELSE 100
  IN [reach |-> (Sum("reach") * overlap + 50) \div 100, clicks |-> Sum("clicks"),
      conversions |-> Sum("conversions")]

WeeklyRamp == <<12, 19, 24, 24, 21>>
WeeklySeries(total) == [w \in DOMAIN WeeklyRamp |-> (total * WeeklyRamp[w] + 50) \div 100]

PrimaryMetric(objective) ==
  IF objective = "AWARENESS" THEN "reach"
  ELSE IF objective \in {"ENGAGEMENT", "TRAFFIC"} THEN "clicks"
  ELSE "conversions"

Measured(p) == [x \in DOMAIN p.channels |-> Reference(p, x)]
Unmeasured(p) == [x \in DOMAIN p.channels |-> None]

Results(p) ==
  [s \in DOMAIN Variant |-> Plan(p, Variant[s], Measured(p))]

\* In their order, as long as the score is higher: at the same score, A, then B.
Best(results, metric) ==
  LET best == Max({results[s][metric] : s \in DOMAIN Variant} \cup {1})
      Score(s) == (110 * best + 80 * results[s][metric] + best) \div (2 * best)
      Top(s, t) == IF Score(t) > Score(s) THEN t ELSE s
  IN Top(Top("A", "B"), "C")

Recommended(p) == Best(Results(p), PrimaryMetric(p.objective))

\* The simulation of the demo (seedDigitalSimulation), which takes no reference.
DemoRecommended(jitter) ==
  LET p == [objective |-> "AWARENESS", budget |-> 750000, jitter |-> jitter,
            audience |-> [span |-> 17, all |-> TRUE, locations |-> 2, interests |-> 4],
            channels |-> [x \in Platform |-> None]]
  IN Best([s \in DOMAIN Variant |-> Plan(p, Variant[s], Unmeasured(p))],
          PrimaryMetric(p.objective))

-----------------------------------------------------------------------------

\* "le recommandé est celui qui maximise ce que l'objectif cherche", rounded scores
\* notwithstanding.
BestRecommended(p) ==
  LET results == Results(p)
      metric == PrimaryMetric(p.objective)
  IN \A s \in DOMAIN Variant : results[s][metric] <= results[Recommended(p)][metric]

\* "les métriques réelles priment toujours": with the costs of its account, what a
\* channel reaches depends on no reference, of the market or measured.
RealMetricsPrevail(p) ==
  LET still == [x \in DOMAIN p.channels |-> [cpm |-> 100, ctr |-> 100, conversion |-> 100]]
      With(x, objective, reference) ==
        Estimate([p EXCEPT !.objective = objective, !.jitter = still], x,
                 ChannelBudget(p, x), reference, Variant["A"])
  IN \A x \in DOMAIN p.channels :
       Known(p.channels[x], "cpm") /\ Known(p.channels[x], "cpc") =>
         \A o \in Objective :
           /\ With(x, o, Calibration(p)).reach = With(x, p.objective, None).reach
           /\ With(x, o, Calibration(p)).clicks = With(x, p.objective, None).clicks

\* What was measured on Facebook moves no Instagram forecast (heuristic.spec.ts:127).
InstagramUncalibrated(p) ==
  DOMAIN p.channels = {"INSTAGRAM"} =>
    \A s \in DOMAIN Variant :
      Results(p)[s] = Plan(p, Variant[s], Unmeasured(p))

\* The weeks of a forecast tell its total, but for their five roundings.
WeeksAddUp(p) ==
  \A f \in {"reach", "clicks", "conversions"} :
    LET total == Results(p)[Recommended(p)][f]
        weeks == SumFunction(WeeklySeries(total))
    IN weeks - total \in -2..2

\* A forecast recommends what is best for its objective, and the references that
\* come in meanwhile change only what no account has measured.
ForecastCoherent ==
  simulated # None =>
    /\ BestRecommended(simulated) /\ RealMetricsPrevail(simulated)
    /\ InstagramUncalibrated(simulated) /\ WeeksAddUp(simulated)

=============================================================================
