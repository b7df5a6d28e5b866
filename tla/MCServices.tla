----------------------------- MODULE MCServices -----------------------------
(* Two requests beside one account, one visitor, one media and two         *)
(* instances; a campaign of six days; five linked campaigns; resets at     *)
(* seven minutes of three days.                                            *)
EXTENDS Services, TLC

CONSTANTS a1, g1, g2, q1, q2, v1, d1, i1, i2

MCAccount == {a1}
MCGrant == {g1, g2}
MCRequest == {q1, q2}
MCVisitor == {v1}
MCMediaId == {d1}
MCInstance == {i1, i2}
Symmetry == Permutations(MCRequest) \cup Permutations(MCGrant) \cup Permutations(MCInstance)

\* A campaign of six days: a paused day, one as forecast, and one that costs more
\* than it brings.
MCBudget == 300
MCDuration == 6
MCAudience == 2000
MCDays ==
  {[spend |-> 0, impressions |-> 0, clicks |-> 0, conversions |-> 0],
   [spend |-> 28, impressions |-> 1000, clicks |-> 30, conversions |-> 1],
   [spend |-> 90, impressions |-> 1200, clicks |-> 8, conversions |-> 0]}
MCForecast == [clicks |-> 240, conversions |-> 12, ctr |-> 3, cpc |-> 1, cpa |-> 30]

\* Two campaigns of the company that simulates and two of others, of one objective,
\* and one of another.
MCOwner ==
  LET Of(company, objective) == [company |-> company, objective |-> objective]
  IN <<Of("us", "TRAFFIC"), Of("us", "TRAFFIC"), Of("other", "TRAFFIC"),
       Of("another", "TRAFFIC"), Of("us", "SALES")>>
MCFigure ==
  {[cpm |-> 900, ctr |-> 200, conversion |-> 500, city |-> "douala"],
   [cpm |-> 2500, ctr |-> 40, conversion |-> 0, city |-> "garoua"]}
MCParams ==
  LET linked == [followers |-> 0, cpm |-> 1000, cpc |-> 60]
      partly == [followers |-> 5000, cpm |-> 1500, cpc |-> 0]
      draws == [FACEBOOK |-> [cpm |-> 93, ctr |-> 107, conversion |-> 98],
                INSTAGRAM |-> [cpm |-> 104, ctr |-> 92, conversion |-> 108]]
      Over(channels) ==
        [objective : {"AWARENESS", "TRAFFIC", "SALES"}, budget : {0, 1000},
         jitter : {[x \in DOMAIN channels |-> draws[x]]}, company : {"us"},
         city : {"douala"}, channels : {channels},
         audience : {[span |-> 17, all |-> TRUE, locations |-> 2, interests |-> 4]}]
  IN UNION {Over(channels) :
              channels \in {[FACEBOOK |-> None], [INSTAGRAM |-> None],
                            [INSTAGRAM |-> linked],
                            [FACEBOOK |-> linked, INSTAGRAM |-> None],
                            [FACEBOOK |-> None, INSTAGRAM |-> partly]}}

\* At midnight, at 03:30, around each slot of the radio, and at 23:59; the draws all
\* low, all high or scattered over the places of Site!Index.
MCSeed ==
  LET index == 0..107
  IN [weekday : {0, 3, 6}, minute : {0, 210, 436, 725, 1110, 1112, 1439},
      draw : {[k \in index |-> 0], [k \in index |-> 999],
              [k \in index |-> (k * 371) % 1000]}]

=============================================================================
