----------------------------- MODULE Background -----------------------------
(***************************************************************************)
(* The work of the background: the queues and the hourly jobs (Jobs), and  *)
(* the results of the ads with their morning job (AdResults).  They share  *)
(* no state, so a behaviour runs the one or the other: their interleavings *)
(* would add nothing.  In the part that does not run, no fair action is    *)
(* enabled: there is no task, no job and no link.                          *)
(***************************************************************************)
EXTENDS Jobs

CONSTANTS Meta, AlertType, AdRequest,
          MaxAlerts, MaxAsked, MaxFailures, MaxChanges

ASSUME AdBoundsAssumption ==
  MaxAlerts \in Nat /\ MaxAsked \in Nat /\ MaxFailures \in Nat /\ MaxChanges \in Nat

VARIABLES part, link, cache, problems, alert, actor, adAsked, failures,
          changes, crossed, overlapped

Ads == INSTANCE AdResults WITH asked <- adAsked, Request <- AdRequest

adVars == <<link, cache, problems, alert, actor, adAsked, failures, changes,
         crossed, overlapped>>
background == <<part, vars, adVars>>

BackgroundInit == part \in {"jobs", "ads"} /\ Init /\ Ads!Init

BackgroundNext ==
  \/ part = "jobs" /\ Next /\ UNCHANGED <<part, adVars>>
  \/ part = "ads" /\ Ads!Next /\ UNCHANGED <<part, vars>>

BackgroundSpec ==
  BackgroundInit /\ [][BackgroundNext]_background /\ Fairness /\ Ads!Fairness

\* The types of the jobs and of the results of the ads.
BackgroundTypeOK == TypeOK /\ Ads!TypeOK

\* "mise à jour tant que le problème dure": see AdResults.
OneOpenUnlessOverlapped == Ads!OneOpenUnlessOverlapped

\* The results shown are those of the campaign that is linked: see AdResults.
CacheFollowsLink == Ads!CacheFollowsLink

\* "puis fermée dès qu'il disparaît": see AdResults.
OutdatedAlertsClose == Ads!OutdatedAlertsClose

\* "Une seule alerte ouverte par type et par campagne": see AdResults.
OneOpenAlert == Ads!OneOpenAlert

=============================================================================
