------------------------------ MODULE AdResults ------------------------------
(***************************************************************************)
(* The results of a digital campaign on Facebook: its link to a campaign   *)
(* of Meta, the results kept in Redis (campaign-performance.service) and   *)
(* the alerts they raise (campaign-alerts.service).  What the results      *)
(* amount to is in AdRules: here a campaign of Meta has problems, which    *)
(* come and go.                                                            *)
(*                                                                         *)
(* The actors are the HTTP requests and the job of every morning.  A       *)
(* refused token or access, an error of Meta, of Redis or of the database, *)
(* and a crash all end an actor where it is (Fail).  The observation saved *)
(* for the cost references, and the notifications of new alerts, decide    *)
(* nothing here.                                                           *)
(***************************************************************************)
EXTENDS Integers, FiniteSets

CONSTANTS Meta,        \* the campaigns of the ad accounts of the company
          AlertType, Request, None,
          \* Bounds of the model:
          MaxAlerts, MaxAsked, MaxFailures, MaxChanges

VARIABLES
  link,      \* metaCampaignId of the details
  cache,     \* the campaign of Meta whose results Redis has, or None
  problems,  \* what detectAlerts finds in the results of a campaign of Meta
  alert,     \* the type of the CampaignAlert row of an identifier, None when
             \* there is none or it is resolved: resolved rows stay as they are
  actor,     \* where each actor is, and what it has read
  asked, failures, changes,   \* so far: bound the model
  crossed,   \* history: the link changed while results were being read, or
             \* without its DEL
  overlapped \* history: two evaluations of the alerts were under way at once

Daily == "refreshAllLinked"
Actor == Request \cup {Daily}
AlertId == 1..MaxAlerts
Idle == [pc |-> "idle"]

counts == <<asked, failures, changes>>
world == <<problems, counts>>
vars == <<link, cache, problems, alert, actor, asked, failures, changes, crossed, overlapped>>

Local ==
  {Idle} \cup [pc : {"write"}, to : Meta \cup {None}]
         \cup [pc : {"del"}, to : Meta \cup {None}]
         \cup [pc : {"get"}, refresh : BOOLEAN]
         \cup [pc : {"cached", "fetch"}, meta : Meta]
         \cup [pc : {"evaluate"}, found : SUBSET AlertType]
         \cup [pc : {"resolve", "raise"}, open : SUBSET (AlertId \X AlertType),
               found : SUBSET AlertType]

TypeOK ==
  /\ link \in Meta \cup {None} /\ cache \in Meta \cup {None}
  /\ problems \in [Meta -> SUBSET AlertType]
  /\ alert \in [AlertId -> AlertType \cup {None}]
  /\ actor \in [Actor -> Local]
  /\ asked \in 0..MaxAsked /\ failures \in 0..MaxFailures /\ changes \in 0..MaxChanges
  /\ crossed \in BOOLEAN /\ overlapped \in BOOLEAN
  /\ \A x \in Actor : actor[x].pc \in {"resolve", "raise"} =>
       \A p \in actor[x].open : alert[p[1]] \in {None, p[2]}

Init ==
  /\ link = None /\ cache = None
  /\ problems = [m \in Meta |-> {}]
  /\ alert = [i \in AlertId |-> None]
  /\ actor = [x \in Actor |-> Idle]
  /\ asked = 0 /\ failures = 0 /\ changes = 0
  /\ crossed = FALSE /\ overlapped = FALSE

-----------------------------------------------------------------------------

At(x, p) == actor[x].pc = p
Becomes(x, q) == actor' = [actor EXCEPT ![x] = q]

\* An actor that goes by the link it has read, until its results are in Redis.
Reading(x) == actor[x].pc \in {"cached", "fetch"}
Evaluating(x) == actor[x].pc \in {"resolve", "raise"}
Open == {i \in AlertId : alert[i] # None}
\* An identifier no row has and nobody has read: an old one serves for a new one.
Free(i) ==
  /\ i \notin Open
  /\ \A x \in Actor : Evaluating(x) => \A p \in actor[x].open : p[1] # i

\* The results change: time passes, money is spent, or not.
Change(m) ==
  /\ changes < MaxChanges
  /\ changes' = changes + 1
  /\ \E P \in SUBSET AlertType \ {problems[m]} : problems' = [problems EXCEPT ![m] = P]
  /\ UNCHANGED <<link, cache, alert, actor, asked, failures, crossed, overlapped>>

Ask(x, q) ==
  /\ At(x, "idle") /\ asked < MaxAsked
  /\ asked' = asked + 1
  /\ Becomes(x, q)
  /\ UNCHANGED <<link, cache, alert, problems, failures, changes, crossed, overlapped>>

Fail(x) ==
  /\ ~At(x, "idle") /\ failures < MaxFailures
  /\ failures' = failures + 1
  /\ crossed' = (crossed \/ At(x, "del"))
  /\ Becomes(x, Idle)
  /\ UNCHANGED <<link, cache, alert, problems, asked, changes, overlapped>>

-----------------------------------------------------------------------------
(* linkMetaCampaign and unlinkMetaCampaign                                 *)

\* Up to the write: the list of Meta has m, or the link is to be removed.
LinkMetaCampaign(x, m) == Ask(x, [pc |-> "write", to |-> m])
UnlinkMetaCampaign(x) == Ask(x, [pc |-> "write", to |-> None])

WriteLink(x) ==
  /\ At(x, "write")
  /\ link' = actor[x].to
  /\ crossed' = (crossed \/ \E y \in Actor : Reading(y) /\ actor[y].meta # actor[x].to)
  /\ Becomes(x, [pc |-> "del", to |-> actor[x].to])
  /\ UNCHANGED <<cache, alert, world, overlapped>>

\* Slip: the results of the campaign linked before are left to their TTL.
DeleteCacheNever(x) ==
  /\ At(x, "del")
  /\ Becomes(x, IF actor[x].to = None THEN Idle ELSE [pc |-> "get", refresh |-> FALSE])
  /\ UNCHANGED <<link, cache, alert, world, crossed, overlapped>>

\* DEL.  A link answers with getPerformance.
DeleteCache(x) ==
  /\ At(x, "del")
  /\ cache' = None
  /\ Becomes(x, IF actor[x].to = None THEN Idle ELSE [pc |-> "get", refresh |-> FALSE])
  /\ UNCHANGED <<link, alert, world, crossed, overlapped>>

Expire ==
  /\ cache # None
  /\ cache' = None
  /\ UNCHANGED <<link, alert, actor, world, crossed, overlapped>>

-----------------------------------------------------------------------------
(* getPerformance, and refreshCampaign that the morning job calls too      *)

GetPerformance(x, refresh) == Ask(x, [pc |-> "get", refresh |-> refresh])

\* The details: no link, no results.
ReadDetails(x) ==
  /\ At(x, "get")
  /\ Becomes(x, IF link = None THEN Idle
                ELSE [pc |-> IF actor[x].refresh THEN "fetch" ELSE "cached", meta |-> link])
  /\ UNCHANGED <<link, cache, alert, world, crossed, overlapped>>

ReadCache(x) ==
  /\ At(x, "cached")
  /\ Becomes(x, IF cache = None THEN [actor[x] EXCEPT !.pc = "fetch"] ELSE Idle)
  /\ UNCHANGED <<link, cache, alert, world, crossed, overlapped>>

\* refreshAllLinked finds the campaign linked.
FindLinked ==
  /\ At(Daily, "idle") /\ link # None
  /\ Becomes(Daily, [pc |-> "fetch", meta |-> link])
  /\ UNCHANGED <<link, cache, alert, world, crossed, overlapped>>

\* getCampaignInsights, the results of this moment, and SET with its TTL, under
\* the key of the campaign, whatever it is linked to by now.
Fetch(x) ==
  LET m == actor[x].meta IN
  /\ At(x, "fetch")
  /\ cache' = m
  /\ Becomes(x, [pc |-> "evaluate", found |-> problems[m]])
  /\ UNCHANGED <<link, alert, world, crossed, overlapped>>

-----------------------------------------------------------------------------
(* evaluate                                                                *)

ReadOpen(x) ==
  /\ At(x, "evaluate")
  /\ Becomes(x, [pc |-> "resolve", open |-> {<<i, alert[i]>> : i \in Open}, found |-> actor[x].found])
  /\ overlapped' = (overlapped \/ \E y \in Actor \ {x} : Evaluating(y))
  /\ UNCHANGED <<link, cache, alert, world, crossed>>

\* Slip: with nothing detected, there is nothing to do.
GoneIfAny(x) ==
  {p[1] : p \in {q \in actor[x].open : actor[x].found # {} /\ q[2] \notin actor[x].found}}

Gone(x) == {p[1] : p \in {q \in actor[x].open : q[2] \notin actor[x].found}}

\* resolvedAt of the alerts read open whose problem is gone, by id.
Resolve(x) ==
  /\ At(x, "resolve")
  /\ alert' = [i \in AlertId |->
                 IF i \in Gone(x) THEN None ELSE alert[i]]
  /\ Becomes(x, IF actor[x].found = {} THEN Idle ELSE [actor[x] EXCEPT !.pc = "raise"])
  /\ UNCHANGED <<link, cache, world, crossed, overlapped>>

\* Slip: the alerts read open are not looked up.
ExistingNone(x, t) == {}

Existing(x, t) == {p \in actor[x].open : p[2] = t}

\* One alert of the loop.  One that was read open only has its figures updated,
\* even if it has been resolved since.
Raise(x) ==
  /\ At(x, "raise")
  /\ \E t \in actor[x].found :
       /\ IF Existing(x, t) # {}
          THEN UNCHANGED alert
          ELSE \E i \in AlertId :
                 /\ Free(i) /\ \A j \in 1..(i - 1) : ~Free(j)
                 /\ alert' = [alert EXCEPT ![i] = t]
       /\ Becomes(x, IF actor[x].found = {t} THEN Idle
                     ELSE [actor[x] EXCEPT !.found = @ \ {t}])
  /\ UNCHANGED <<link, cache, world, crossed, overlapped>>

-----------------------------------------------------------------------------

Step(x) ==
  \/ WriteLink(x) \/ DeleteCache(x) \/ ReadDetails(x) \/ ReadCache(x)
  \/ Fetch(x) \/ ReadOpen(x) \/ Resolve(x) \/ Raise(x)

Next ==
  \/ \E x \in Request :
       \/ \E m \in Meta : LinkMetaCampaign(x, m)
       \/ \E refresh \in BOOLEAN : GetPerformance(x, refresh)
       \/ UnlinkMetaCampaign(x)
  \/ \E x \in Actor : Step(x) \/ Fail(x)
  \/ \E m \in Meta : Change(m)
  \/ FindLinked \/ Expire

\* The job runs every morning and goes on; nobody has to open the page.
Fairness == WF_vars(FindLinked) /\ WF_vars(Step(Daily))

Spec == Init /\ [][Next]_vars /\ Fairness

-----------------------------------------------------------------------------

\* "mise à jour tant que le problème dure": one evaluation at a time, a problem
\* that lasts, goes and comes back never has two open alerts.
OneOpenUnlessOverlapped ==
  ~overlapped =>
    \A i, j \in Open : alert[i] = alert[j] => i = j

\* "Une seule alerte ouverte par type et par campagne", however many evaluations
\* there are at once.
OneOpenAlert == \A i, j \in Open : alert[i] = alert[j] => i = j

\* The results shown are those of the campaign that is linked: the key is emptied
\* when the link changes.  Only a reading that was under way, or a DEL that failed,
\* may leave others.
CacheFollowsLink ==
  (~crossed /\ \A x \in Actor : ~At(x, "del")) => cache \in {None, link}

\* "puis fermée dès qu'il disparaît": the alerts of a problem that is gone for good
\* are closed by the job of a morning, while the campaign stays linked.
Outdated(t) == link # None /\ t \notin problems[link] /\ \E i \in Open : alert[i] = t
OutdatedAlertsClose == \A t \in AlertType : Outdated(t) ~> ~Outdated(t)

=============================================================================
