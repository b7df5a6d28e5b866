------------------------------ MODULE Services ------------------------------
(***************************************************************************)
(* The services that share no state with one another: the linked social    *)
(* accounts, the assistant, the simulations, the media, the counters of    *)
(* Redis, the rules of the ads, the forecast engine and the demo.  A       *)
(* behaviour runs one of them (part); the others stay where they begin, at *)
(* one of their initial states.                                            *)
(***************************************************************************)
EXTENDS Integers, FiniteSets

CONSTANTS
  None, Request,
  Account, Grant, MaxAttempts, MaxJobs, MaxFaults,             \* Social
  CopilotLimit, MaxAsked,                                      \* Copilot, Sim
  MediaId, MaxPuts,                                            \* Files
  Visitor, PerMinute, PerDay, Global, Limit, MaxTime,          \* Quota
  Days, Budget, Duration, Audience, Forecast,                  \* Rules
  Owner, Figure, Params,                                       \* Engine
  Instance, Seed                                               \* Site

ASSUME BoundsAssumption ==
  /\ MaxFaults \in Nat /\ MaxAsked \in Nat /\ MaxPuts \in Nat /\ MaxTime \in Nat
  /\ MaxAttempts \in Nat \ {0}

ASSUME LimitsAssumption ==
  PerMinute \in Nat /\ PerDay \in Nat /\ Global \in Nat /\ Limit \in Nat

\* Meta gives counts.  The campaign has a duration, and a budget: one without is as
\* one in a currency without a rate.
ASSUME FiguresAssumption ==
  /\ Days \subseteq [spend : Nat, impressions : Nat, clicks : Nat, conversions : Nat]
  /\ Budget \in Nat \ {0} /\ Duration \in Nat \ {0}
  /\ Forecast \in [clicks : Nat, conversions : Nat, ctr : Nat, cpc : Nat, cpa : Nat]

\* What the dto of a simulation lets through (an objective, a budget, an audience) and
\* at least one channel, with the metrics of its account or none; each draw of the
\* jitter stays within 8 %.
ASSUME ParamsAssumption ==
  \A p \in Params :
    /\ p = [objective |-> p.objective, budget |-> p.budget, jitter |-> p.jitter,
            company |-> p.company, city |-> p.city, audience |-> p.audience,
            channels |-> p.channels]
    /\ p.budget \in Nat
    /\ p.jitter \in [DOMAIN p.channels -> [cpm : 92..108, ctr : 92..108, conversion : 92..108]]
    /\ p.audience \in [span : Nat \ {0}, all : BOOLEAN, locations : Nat, interests : Nat]
    /\ DOMAIN p.channels # {}
    /\ \A x \in DOMAIN p.channels :
         p.channels[x] = None \/ p.channels[x] \in [followers : Nat, cpm : Nat, cpc : Nat]

\* Finitely many campaigns are linked, and Meta measures counts.
ASSUME MeasuresAssumption ==
  /\ IsFiniteSet(DOMAIN Owner)
  /\ \A f \in Figure : f.cpm \in Nat /\ f.ctr \in Nat /\ f.conversion \in Nat

ASSUME FiniteAssumption == IsFiniteSet(Request)

VARIABLES part,
  acct, state, drawn, life, dead, req, sync, worker, cron, faults, warned, told,
  aFree, conv, convs, messages, mClock, today, recs, latest, aReq, aAsked, aCrossed,
  overlapped,
  sFree, over, ready, questionnaire, simulation, digital, analysis, broken, sReq, sAsked,
  status, object, url, mReq, puts, mCrossed, mReplaced,
  now, minute, day, global, hits, blocked, qReq, share, passed,
  daily, known, simulated,
  observed, eSimulated,
  clock, seed, age, missed, due, up, pc, lock

social == <<acct, state, drawn, life, dead, req, sync, worker, cron, faults, warned, told>>
assistant == <<aFree, conv, convs, messages, mClock, today, recs, latest, aReq, aAsked,
               aCrossed, overlapped>>
simulations == <<sFree, over, ready, questionnaire, simulation, digital, analysis,
                 broken, sReq, sAsked>>
media == <<status, object, url, mReq, puts, mCrossed, mReplaced>>
quotas == <<now, minute, day, global, hits, blocked, qReq, share, passed>>
rules == <<daily, known, simulated>>
engine == <<observed, eSimulated>>
demo == <<clock, seed, age, missed, due, up, pc, lock>>

Social == INSTANCE SocialAccounts
Copilot == INSTANCE Assistant WITH
       Limit <- CopilotLimit, free <- aFree, drawn <- convs, clock <- mClock,
       req <- aReq, asked <- aAsked, crossed <- aCrossed
Sim == INSTANCE Simulations WITH free <- sFree, req <- sReq, asked <- sAsked
Files == INSTANCE Media WITH req <- mReq, crossed <- mCrossed, replaced <- mReplaced
Quota == INSTANCE Quotas WITH req <- qReq
Rules == INSTANCE AdRules
Engine == INSTANCE DigitalEngine WITH simulated <- eSimulated
Site == INSTANCE Demo

\* Simulations are of the objectives and the platforms there are.
ASSUME NamesAssumption ==
  \A p \in Params :
    p.objective \in Engine!Objective /\ DOMAIN p.channels \subseteq Engine!Platform

\* A reset has a weekday, a minute of its day and a draw in thousandths for each
\* broadcast of a plan.
ASSUME SeedAssumption ==
  Seed \subseteq [weekday : 0..6, minute : 0..(Site!Day - 1), draw : [Site!Index -> 0..999]]

\* Nothing is not a value, whatever the values are.
ASSUME NoneAssumption ==
  /\ None \notin Social!Row \cup Social!Life
  /\ None \notin {"good", "bad", "PENDING", "CONFIRMED", "VALIDATED", "REJECTED"} \cup Instance
  /\ None \notin Int /\ None \notin Nat \X Nat

Part == {"social", "assistant", "simulations", "media", "quotas", "rules", "engine", "demo"}

ServicesInit ==
  /\ part \in Part
  /\ Social!Init /\ Copilot!Init /\ Sim!Init /\ Files!Init /\ Quota!Init /\ Rules!Init
  /\ Engine!Init /\ Site!Init
  /\ part # "assistant" => ~aFree
  /\ part # "simulations" => ~sFree /\ ~over /\ ~ready
  /\ part # "rules" => known /\ ~simulated

ServicesNext ==
  /\ UNCHANGED part
  /\ \/ /\ part = "social" /\ Social!Next
        /\ UNCHANGED <<assistant, simulations, media, quotas, rules, engine, demo>>
     \/ /\ part = "assistant" /\ Copilot!Next
        /\ UNCHANGED <<social, simulations, media, quotas, rules, engine, demo>>
     \/ /\ part = "simulations" /\ Sim!Next
        /\ UNCHANGED <<social, assistant, media, quotas, rules, engine, demo>>
     \/ /\ part = "media" /\ Files!Next
        /\ UNCHANGED <<social, assistant, simulations, quotas, rules, engine, demo>>
     \/ /\ part = "quotas" /\ Quota!Next
        /\ UNCHANGED <<social, assistant, simulations, media, rules, engine, demo>>
     \/ /\ part = "rules" /\ Rules!Next
        /\ UNCHANGED <<social, assistant, simulations, media, quotas, engine, demo>>
     \/ /\ part = "engine" /\ Engine!Next
        /\ UNCHANGED <<social, assistant, simulations, media, quotas, rules, demo>>
     \/ /\ part = "demo" /\ Site!Next
        /\ UNCHANGED <<social, assistant, simulations, media, quotas, rules, engine>>

services == <<part, social, assistant, simulations, media, quotas, rules, engine, demo>>

ServicesSpec == ServicesInit /\ [][ServicesNext]_services

\* The types of every service.
ServicesTypeOK ==
  /\ part = "social" => Social!TypeOK
  /\ part = "assistant" => Copilot!TypeOK
  /\ part = "simulations" => Sim!TypeOK
  /\ part = "media" => Files!TypeOK
  /\ part = "quotas" => Quota!TypeOK
  /\ part = "rules" => Rules!TypeOK
  /\ part = "engine" => Engine!TypeOK
  /\ part = "demo" => Site!TypeOK

\* "une seule relance par compte", and one notice that it has expired: see
\* SocialAccounts.
OneNoticePerToken == Social!OneNoticePerToken

\* A sync on its way cannot bring a disconnected account back: see SocialAccounts.
RevokedUntilReconnected == Social!RevokedUntilReconnected

\* "remplace les recommandations générées précédemment": see Assistant.
LatestAdviceOnly == Copilot!LatestAdviceOnly

\* "Seule la dernière réponse est régénérable": see Assistant.
QuestionsThenAnswers == Copilot!QuestionsThenAnswers

\* A confirmed media has a file, and the one that was checked unless the client put
\* another since: see Media.
ConfirmedWasChecked == Files!ConfirmedWasChecked

\* The public assistant and the rate limit keep to their quotas: see Quotas.
QuotasHold == Quota!QuotasHold

\* An alert never contradicts the page it links to: see AdRules.
AlertsAgree == part = "rules" => Rules!AlertsAgree

\* The engine recommends what is best for the objective, whatever was measured
\* meanwhile: see DigitalEngine.
ForecastCoherent == part = "engine" => Engine!ForecastCoherent

\* "la démo paraît toujours en cours", whenever it is reset: see Demo.
PastIsPast == part = "demo" => Site!PastIsPast

\* "le planificateur des tâches n'a rien à relancer sur la démo", as long as every
\* night has its reset: see Demo.
NobodyChased == part = "demo" => Site!NobodyChased

\* "Remis à `null` lors d'une reconnexion", also while the daily job is under way:
\* see SocialAccounts.
FreshTokenCanBeReminded == Social!FreshTokenCanBeReminded

\* "On appelle désormais le moteur AVANT toute écriture": see Simulations.
NoOrphanQuestionnaire == Sim!NoOrphanQuestionnaire

\* "Idempotent : une simulation déjà analysée est renvoyée telle quelle": see
\* Simulations.
AnalysisStays == Sim!AnalysisStays

\* Generations of advice replace one another, also at the same time: see Assistant.
OneAdvice == Copilot!OneAdvice

\* A media once confirmed keeps its file, whoever confirms it again: see Media.
FileNeverLost == Files!FileNeverLost

\* "Vérifie la présence réelle de l'objet et sa taille/type", also when the upload URL
\* is used again after the check: see Media.
ConfirmedIsGood == Files!ConfirmedIsGood

\* "le planificateur des tâches n'a rien à relancer sur la démo", also after a night
\* without a reset: see Demo.
DemoNeverChased == part = "demo" => Site!DemoNeverChased

\* A notice of the demo comes after what it tells of: see Demo.
NoticesFollow == part = "demo" => Site!NoticesFollow

\* A code of the demo is scanned after its panel was posed: see Demo.
ScansFollow == part = "demo" => Site!ScansFollow

\* "Le scénario recommandé garde vos réglages" (demo.service.ts:863-864), written by
\* hand beside the forecast that the engine computes: see DigitalEngine.
DemoAnalysisFits ==
  \A jitter \in [Engine!Platform -> [cpm : {92, 108}, ctr : {100}, conversion : {100}]] :
    Engine!DemoRecommended(jitter) = "A"

=============================================================================
