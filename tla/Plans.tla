------------------------------- MODULE Plans -------------------------------
(***************************************************************************)
(* What a plan allows (billing/plan-limits.ts), and which plan a company   *)
(* has (PlanService.resolvePlan): pure functions of its subscriptions, its *)
(* trial and the time.                                                     *)
(***************************************************************************)
EXTENDS Integers

CONSTANTS None,         \* null: without limit, or no date
          ProMembers,   \* maxMembers of PRO: 3 in the code
          FreeCopilot,  \* copilotDailyMessages of FREE: 5
          DemoCopilot   \* and of the public demo

ASSUME LimitsAssumption ==
  /\ ProMembers \in Nat /\ ProMembers > 1
  /\ FreeCopilot \in Nat /\ DemoCopilot \in Nat
  /\ None \notin Int

PlanName == {"FREE", "PRO", "BUSINESS"}
Feature == {"campaigns", "members", "copilot", "aiAdvanced"}

\* PLAN_LIMITS, by feature: aiAdvanced is without limit, or not at all.
PlanLimits ==
  [FREE |-> [campaigns |-> 1, members |-> 1, copilot |-> FreeCopilot, aiAdvanced |-> 0],
   PRO |-> [campaigns |-> None, members |-> ProMembers, copilot |-> None, aiAdvanced |-> None],
   BUSINESS |-> [campaigns |-> None, members |-> None, copilot |-> None, aiAdvanced |-> None]]

PlanRank == [FREE |-> 0, PRO |-> 1, BUSINESS |-> 2]

\* Whether a limit is reached by n of what it limits.
Reached(limit, n) == limit # None /\ n >= limit

IsMorePermissive(candidate, current) ==
  current # None /\ (candidate = None \/ candidate > current)

\* The first plan above that has more room; BUSINESS by default.
RequiredPlanFor(feature, plan) ==
  LET Lifts(p) == /\ PlanRank[p] > PlanRank[plan]
                  /\ IsMorePermissive(PlanLimits[p][feature], PlanLimits[plan][feature])
  IN IF Lifts("PRO") THEN "PRO" ELSE "BUSINESS"

\* A row of Subscription that is ACTIVE.
Subscription == [plan : {"PRO", "BUSINESS"}, startsAt : Int, expiresAt : Int]

\* Those read: that have not expired, also if they have not begun.
Standing(rows, now) == {s \in rows : s.expiresAt > now}
Current(rows, now) == {s \in Standing(rows, now) : s.startsAt <= now}

\* The plan, and whether it is paid for.
ResolvePlan(rows, trialEndsAt, now) ==
  LET current == Current(rows, now)
  IN IF current # {}
     THEN [plan |-> IF \E s \in current : s.plan = "BUSINESS" THEN "BUSINESS" ELSE "PRO",
           source |-> "PAID"]
     ELSE IF trialEndsAt # None /\ trialEndsAt > now
     THEN [plan |-> "PRO", source |-> "TRIAL"]
     ELSE [plan |-> "FREE", source |-> "FREE"]

\* When the plan that is paid for ends: the periods that follow are counted, and
\* those of the other plan are not.
PaidUntil(rows, plan, now) ==
  {s.expiresAt : s \in {x \in Standing(rows, now) : x.plan = plan}}

\* The limits of getEffectivePlan: those of the demo keep the Copilot shared.
Limits(plan, isDemo) ==
  IF isDemo THEN [PlanLimits[plan] EXCEPT !.copilot = DemoCopilot] ELSE PlanLimits[plan]

=============================================================================
