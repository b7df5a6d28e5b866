------------------------------ MODULE AdRules ------------------------------
(***************************************************************************)
(* What the results of a digital campaign amount to: the comparison with   *)
(* its simulation (performance-comparison.ts) and the alerts it raises     *)
(* (alert-rules.ts), day after day.  AdResults keeps and shows them.       *)
(*                                                                         *)
(* The results are one row a day, as Meta gives them.  Ratios are pairs    *)
(* <<n, d>>, compared without loss, and Thousandths where the rules read   *)
(* them rounded.  Reach and roas are compared as clicks and ctr are, and   *)
(* no rule reads them.                                                     *)
(***************************************************************************)
EXTENDS Integers, Sequences

CONSTANTS Days,        \* what a day may bring: spend, impressions, clicks, conversions
          Budget, Duration, Audience,
          Forecast,    \* predicted clicks, conversions, ctr (percent) and cpc
          None

VARIABLES
  daily,       \* the rows so far, a paused day included
  known,       \* the currency has a rate in XAF_RATES
  simulated    \* the campaign has a simulation

vars == <<daily, known, simulated>>

TypeOK ==
  /\ daily \in Seq(Days) /\ Len(daily) <= Duration + 1
  /\ known \in BOOLEAN /\ simulated \in BOOLEAN

Init == daily = <<>> /\ known \in BOOLEAN /\ simulated \in BOOLEAN

Day(x) ==
  /\ Len(daily) <= Duration
  /\ daily' = Append(daily, x)
  /\ UNCHANGED <<known, simulated>>

Simulate ==
  /\ ~simulated
  /\ simulated' = TRUE
  /\ UNCHANGED <<daily, known>>

Next == Simulate \/ \E x \in Days : Day(x)

Spec == Init /\ [][Next]_vars

-----------------------------------------------------------------------------

Total(rows, f) ==
  LET sum[n \in 0..Len(rows)] == IF n = 0 THEN 0 ELSE sum[n - 1] + rows[n][f]
  IN sum[Len(rows)]
Spend == Total(daily, "spend")
Impressions == Total(daily, "impressions")
Clicks == Total(daily, "clicks")
Conversions == Total(daily, "conversions")

\* Meta gives no row of a day without delivery, and without a row no totals.
HasTotals == \E n \in DOMAIN daily : \E f \in DOMAIN daily[n] : daily[n][f] > 0

Least(m, n) == IF m < n THEN m ELSE n

\* r >= thousandths, and its negation.
AtLeast(r, thousandths) == r[1] * 1000 >= thousandths * r[2]
Below(r, thousandths) == ~AtLeast(r, thousandths)
Thousandths(r) == (2000 * r[1] + r[2]) \div (2 * r[2])

\* None where the spending is not known in XAF.
TimeProgress == <<Least(Len(daily), Duration), Duration>>
SpendProgress == IF known THEN <<Least(Spend, Budget), Budget>> ELSE None
Progress == IF known /\ Spend > 0 THEN SpendProgress ELSE TimeProgress
TooEarly == Below(Progress, 100)

Key == {"clicks", "conversions", "ctr", "cpc", "cpa"}
Volume == {"clicks", "conversions"}
Cost == {"cpc", "cpa"}

Actual(k) ==
  CASE k = "clicks" -> IF HasTotals THEN <<Clicks, 1>> ELSE None
    [] k = "conversions" -> IF HasTotals THEN <<Conversions, 1>> ELSE None
    [] k = "ctr" -> IF Impressions > 0 THEN <<Clicks * 100, Impressions>> ELSE None
    [] k = "cpc" -> IF known /\ Clicks > 0 THEN <<Spend, Clicks>> ELSE None
    [] k = "cpa" -> IF known /\ Conversions > 0 THEN <<Spend, Conversions>> ELSE None

\* A volume is expected in the measure of the progress.
Expected(k) ==
  IF ~simulated THEN None
  ELSE IF k \in Volume THEN <<Forecast[k] * Progress[1], Progress[2]>>
  ELSE <<Forecast[k], 1>>

\* Over 1 is better than expected, also for a cost.  None: nothing to say.
Performance(k) ==
  LET a == Actual(k)
      e == Expected(k)
  IN IF a = None \/ e = None \/ e[1] = 0 \/ (k \in Cost /\ a[1] = 0) THEN None
     ELSE IF k \in Cost THEN <<e[1] * a[2], e[2] * a[1]>>
     ELSE <<a[1] * e[2], a[2] * e[1]>>

Status(k) ==
  LET p == Performance(k)
  IN IF p = None THEN "unknown"
     ELSE IF AtLeast(p, 1100) THEN "ahead"
     ELSE IF AtLeast(p, 850) THEN "on_track"
     ELSE "behind"

-----------------------------------------------------------------------------
(* detectAlerts, with ALERT_THRESHOLDS in thousandths.                     *)

Scores(k, thousandths) == Performance(k) # None /\ Thousandths(Performance(k)) <= thousandths

\* How far the spending is ahead of the time.
Lead == Thousandths(SpendProgress) - Thousandths(TimeProgress)

PacingFast ==
  /\ SpendProgress # None
  /\ Thousandths(TimeProgress) < 900
  /\ Lead >= 250

PacingSlow ==
  /\ SpendProgress # None
  /\ Thousandths(TimeProgress) >= 300
  /\ Lead <= -300

\* Slip: the cost itself against the threshold, which is of its performance.
CpcHighReversed ==
  /\ Performance("cpc") # None /\ Thousandths(Performance("cpc")) >= 670
  /\ Clicks >= 30

CpcHigh == Scores("cpc", 670) /\ Clicks >= 30

CtrLow == Scores("ctr", 600) /\ Impressions >= 3000

\* Three first and three last of the days that count.
Fatigue ==
  LET Counts(row) == row.impressions >= 200
      active == SelectSeq(daily, Counts)
      n == Len(active)
      first == SubSeq(active, 1, 3)
      last == SubSeq(active, n - 2, n)
      Ctr(rows) == <<Total(rows, "clicks"), Total(rows, "impressions")>>
  IN /\ Impressions >= 3 * Audience
     /\ n >= 6
     /\ Ctr(first)[1] > 0
     /\ Ctr(last)[1] * Ctr(first)[2] * 10 <= Ctr(first)[1] * Ctr(last)[2] * 7

NoConversions ==
  /\ Expected("conversions") # None
  /\ Actual("conversions") = <<0, 1>>
  /\ Thousandths(Expected("conversions")) >= 3000 - 5    \* rounded to hundredths
  /\ Thousandths(Progress) >= 300

DetectAlerts ==
  (IF PacingFast THEN {"BUDGET_PACING_FAST"} ELSE {})
  \cup (IF PacingSlow THEN {"BUDGET_PACING_SLOW"} ELSE {})
  \cup (IF ~TooEarly /\ CpcHigh THEN {"CPC_HIGH"} ELSE {})
  \cup (IF ~TooEarly /\ CtrLow THEN {"CTR_LOW"} ELSE {})
  \cup (IF ~TooEarly /\ Fatigue THEN {"AUDIENCE_FATIGUE"} ELSE {})
  \cup (IF ~TooEarly /\ NoConversions THEN {"NO_CONVERSIONS"} ELSE {})

-----------------------------------------------------------------------------

\* An alert never contradicts the page it links to: what it complains of is shown
\* behind the forecast there, and a budget is not spent too fast and too slowly.
AlertsAgree ==
  /\ "CPC_HIGH" \in DetectAlerts => Status("cpc") = "behind"
  /\ "CTR_LOW" \in DetectAlerts => Status("ctr") = "behind"
  /\ "NO_CONVERSIONS" \in DetectAlerts => Status("conversions") = "behind"
  /\ ~({"BUDGET_PACING_FAST", "BUDGET_PACING_SLOW"} \subseteq DetectAlerts)

=============================================================================
